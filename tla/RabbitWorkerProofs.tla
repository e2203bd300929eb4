------------------------ MODULE RabbitWorkerProofs -------------------------
(***************************************************************************)
(* Theorems about RabbitWorker for any number of workers, lanes, messages  *)
(* and faults.                                                             *)
(***************************************************************************)
EXTENDS RabbitWorker, FiniteSetTheorems, TLAPS

(* A lane from the delivery to the end of the acknowledgement holds a      *)
(* message.                                                                *)
HeldOK == \A t \in Lanes : pc[t] \in ExecutePcs => held[t] # 0

TypeInv == TypeOK /\ HeldOK

USE HomeAssumption, NoneAssumption, BoundsAssumption DEF Messages, Modes, None,
    ReceivePcs, ExecutePcs, EndPcs, FindingPcs, SavePcs, AckPcs

-----------------------------------------------------------------------------
(* Type correctness.                                                       *)

(* The workers start with their types.                                     *)
LEMMA InitTypeInv == Init => TypeInv
BY DEF Init, WorkerInit, TypeInv, TypeOK, WorkerTypeOK, HeldOK

(* The mark that a pushed message carries is a Boolean; unmarked means     *)
(* that it was never put back.                                             *)
LEMMA PushFlag ==
  \A c \in Consumers, m \in Messages :
    Push(c, m) =>
      \/ buffer' = [buffer EXCEPT ![c] = @ \cup {<<m, TRUE>>}]
      \/ buffer' = [buffer EXCEPT ![c] = @ \cup {<<m, FALSE>>}] /\ m \notin redelivered
<1> SUFFICES ASSUME NEW c \in Consumers, NEW m \in Messages,
                    buffer' = [buffer EXCEPT ![c] = @ \cup {<<m, m \in redelivered>>}]
             PROVE  \/ buffer' = [buffer EXCEPT ![c] = @ \cup {<<m, TRUE>>}]
                    \/ buffer' = [buffer EXCEPT ![c] = @ \cup {<<m, FALSE>>}] /\ m \notin redelivered
  BY Zenon DEF Push
<1>1. (m \in redelivered) = TRUE \/ (m \in redelivered) = FALSE
  BY SMT
<1>2. CASE (m \in redelivered) = TRUE
  <2>1. buffer' = [buffer EXCEPT ![c] = @ \cup {<<m, TRUE>>}]
    BY <1>2, Zenon
  <2> QED BY <2>1
<1>3. CASE (m \in redelivered) = FALSE
  <2>1. buffer' = [buffer EXCEPT ![c] = @ \cup {<<m, FALSE>>}]
    BY <1>3, Zenon
  <2>2. m \notin redelivered
    BY <1>3
  <2> QED BY <2>1, <2>2
<1> QED BY <1>1, <1>2, <1>3

(* Push puts a message and its redelivery flag into the buffer.            *)
LEMMA PushBuffer ==
  buffer \in [Consumers -> SUBSET (Messages \X BOOLEAN)] =>
    \A c \in Consumers, m \in Messages :
      Push(c, m) => buffer' \in [Consumers -> SUBSET (Messages \X BOOLEAN)]
<1> SUFFICES ASSUME buffer \in [Consumers -> SUBSET (Messages \X BOOLEAN)],
                    NEW c \in Consumers, NEW m \in Messages,
                    \/ buffer' = [buffer EXCEPT ![c] = @ \cup {<<m, TRUE>>}]
                    \/ buffer' = [buffer EXCEPT ![c] = @ \cup {<<m, FALSE>>}]
             PROVE  buffer' \in [Consumers -> SUBSET (Messages \X BOOLEAN)]
  BY PushFlag
<1>1. <<m, TRUE>> \in Messages \X BOOLEAN /\ <<m, FALSE>> \in Messages \X BOOLEAN
  OBVIOUS
<1>2. PICK p \in Messages \X BOOLEAN : buffer' = [buffer EXCEPT ![c] = @ \cup {p}]
  BY <1>1
<1> QED
  BY <1>2

(* No step breaks the types.                                               *)
LEMMA TypeInvStep == TypeInv /\ [Next]_vars => TypeInv'
<1> SUFFICES ASSUME TypeInv, [Next]_vars PROVE TypeInv'
  OBVIOUS
<1> USE DEF TypeInv, TypeOK, WorkerTypeOK, HeldOK, workerVars, driverVars, runnerVars, laneVars,
            storeVars, brokerVars, clientVars
<1>1. CASE Publish
  BY <1>1 DEF Publish
<1>2. ASSUME NEW c \in Consumers, SetStop(c), UNCHANGED driverVars PROVE TypeInv'
  BY <1>2 DEF SetStop
<1>3. ASSUME NEW c \in Consumers, RunnerStop(c), UNCHANGED driverVars PROVE TypeInv'
  BY <1>3 DEF RunnerStop, Cancel
<1>4. ASSUME NEW c \in Consumers, RunnerFail(c), UNCHANGED driverVars PROVE TypeInv'
  BY <1>4 DEF RunnerFail, Cancel
<1>5. ASSUME NEW c \in Consumers, DrainTimeout(c), UNCHANGED driverVars PROVE TypeInv'
  BY <1>5 DEF DrainTimeout, Cancel
<1>6. ASSUME NEW t \in Lanes, CancelLane(t), UNCHANGED driverVars PROVE TypeInv'
  BY <1>6 DEF CancelLane, EndLane, Goto
<1>7. ASSUME NEW t \in Lanes, SwallowCancel(t), UNCHANGED driverVars PROVE TypeInv'
  BY <1>7 DEF SwallowCancel
<1>8. ASSUME NEW t \in Lanes, Find(t), UNCHANGED driverVars PROVE TypeInv'
  BY <1>8 DEF Find, Goto, At
<1>8a. ASSUME NEW t \in Lanes, FindReply(t), UNCHANGED driverVars PROVE TypeInv'
  BY <1>8a DEF FindReply, Goto, At
<1>9. ASSUME NEW t \in Lanes, Succeed(t), UNCHANGED driverVars PROVE TypeInv'
  BY <1>9 DEF Succeed, Goto, At
<1>10. ASSUME NEW t \in Lanes, FailJob(t), UNCHANGED driverVars PROVE TypeInv'
  BY <1>10 DEF FailJob, Goto, At
<1>11. ASSUME NEW t \in Lanes, DefinitionError(t), UNCHANGED driverVars PROVE TypeInv'
  BY <1>11 DEF DefinitionError, Raise, EndLane, Goto, At, Fault
<1>12. ASSUME NEW t \in Lanes, Save(t), UNCHANGED driverVars PROVE TypeInv'
  BY <1>12 DEF Save, Goto, At
<1>13. ASSUME NEW t \in Lanes, SaveReply(t), UNCHANGED driverVars PROVE TypeInv'
  BY <1>13 DEF SaveReply, Goto, At
<1>14. ASSUME NEW t \in Lanes, SaveDuplicate(t), UNCHANGED driverVars PROVE TypeInv'
  BY <1>14 DEF SaveDuplicate, Goto, At
<1>15. ASSUME NEW t \in Lanes, SaveVanished(t), UNCHANGED driverVars PROVE TypeInv'
  BY <1>15 DEF SaveVanished, Raise, EndLane, Goto, At
<1>16. ASSUME NEW t \in Lanes, StoreError(t), UNCHANGED driverVars PROVE TypeInv'
  BY <1>16 DEF StoreError, Raise, EndLane, Goto, At, Fault
<1>17. ASSUME NEW m \in Messages, Forget(m), UNCHANGED driverVars PROVE TypeInv'
  BY <1>17 DEF Forget, Fault
<1>18. ASSUME NEW t \in Lanes, EnterReceive(t) PROVE TypeInv'
  BY <1>18 DEF EnterReceive, Goto, At
<1>19. ASSUME NEW t \in Lanes, CancelReceive(t) PROVE TypeInv'
  BY <1>19 DEF CancelReceive, CancelLane, EndLane, Goto
<1>20. ASSUME NEW t \in Lanes, StreamEnd(t) PROVE TypeInv'
  BY <1>20 DEF StreamEnd, Raise, EndLane, Goto, At
<1>21. ASSUME NEW t \in Lanes, AckSend(t) PROVE TypeInv'
  BY <1>21 DEF AckSend, LoopHead, EndLane, Goto, At
<1>22. ASSUME NEW t \in Lanes, AckError(t) PROVE TypeInv'
  BY <1>22 DEF AckError, Raise, EndLane, Goto, At
<1>23. ASSUME NEW t \in Lanes, NEW d \in Messages \X BOOLEAN, Deliver(t, d) PROVE TypeInv'
  BY <1>23 DEF Deliver, FirstStep, Goto, At
<1>24. ASSUME NEW c \in Consumers, Start(c) PROVE TypeInv'
  BY <1>24 DEF Start, StartLanes, LoopHead
<1>25. ASSUME NEW c \in Consumers, StartError(c) PROVE TypeInv'
  BY <1>25 DEF StartError, Fault
<1>26. ASSUME NEW c \in Consumers, Close(c) PROVE TypeInv'
  BY <1>26 DEF Close, RunnerExit, Requeue
<1>27. ASSUME NEW c \in Consumers, Crash(c) PROVE TypeInv'
  BY <1>27 DEF Crash, RunnerCrash, Fault
<1>28. ASSUME NEW c \in Consumers, NEW m \in Messages, Push(c, m) PROVE TypeInv'
  BY <1>28, PushBuffer DEF Push
<1>29. ASSUME NEW c \in Consumers, NEW m \in Messages, BrokerAck(c, m) PROVE TypeInv'
  BY <1>29 DEF BrokerAck
<1>30. ASSUME NEW c \in Consumers, Drop(c) PROVE TypeInv'
  <2>1. faults' \in 0..MaxFaults
    BY <1>30 DEF Drop, Fault
  <2> QED BY <1>30, <2>1 DEF Drop, Requeue
<1>31. ASSUME NEW c \in Consumers, Notice(c) PROVE TypeInv'
  BY <1>31 DEF Notice, Fault
<1>32. CASE UNCHANGED vars
  BY <1>32 DEF vars
<1> QED
  BY <1>1, <1>2, <1>3, <1>4, <1>5, <1>6, <1>7, <1>8, <1>8a, <1>9, <1>10, <1>11, <1>12, <1>13, <1>14,
     <1>15, <1>16, <1>17, <1>18, <1>19, <1>20, <1>21, <1>22, <1>23, <1>24, <1>25, <1>26, <1>27,
     <1>28, <1>29, <1>30, <1>31, <1>32
  DEF Next, WorkerStep, LaneStep, BrokerStep

(* Type correctness: every variable of the broker, the clients, the        *)
(* runners and the lanes keeps its type.                                   *)
THEOREM RabbitTypeCorrect == Spec => []TypeOK
<1>1. Spec => []TypeInv
  BY InitTypeInv, TypeInvStep, PTL DEF Spec
<1>2. TypeInv => TypeOK
  BY DEF TypeInv
<1> QED
  BY <1>1, <1>2, PTL
-----------------------------------------------------------------------------
(* At least once.  A message leaves the queue only when the broker         *)
(* executes an acknowledgement; the invariant follows what is known of a   *)
(* message from the save to the frame that is on its way.                  *)

(* A lane that acknowledges knows that the job succeeded or is on record.  *)
LaneKnows ==
  \A t \in Lanes : /\ pc[t] \in {"found", "saved", "duplicate"} => held[t] \in recorded
                   /\ pc[t] \in AckPcs => held[t] \in succeeded \cup recorded

(* So does an acknowledgement on its way.                                  *)
FrameKnows ==
  \A c \in Consumers, m \in Messages : <<c, m>> \in flight => m \in succeeded \cup recorded

(* What a buffer has: messages marked as redelivered and unmarked ones.    *)
Marked(c)   == {m \in Messages : <<m, TRUE>> \in buffer[c]}
Unmarked(c) == {m \in Messages : <<m, FALSE>> \in buffer[c]}

(* Only published messages are queued, pushed, buffered, held or recorded. *)
Known ==
  /\ \A m \in ready : m <= published
  /\ \A c \in Consumers : \A m \in unacked[c] : m <= published
  /\ \A c \in Consumers : \A m \in Marked(c) \cup Unmarked(c) : m <= published
  /\ \A t \in Lanes : held[t] <= published
  /\ \A m \in recorded : m <= published

SafeInv == LaneKnows /\ failures \subseteq recorded /\ FrameKnows /\ Known

(* A push adds the message to one of the two sets of its consumer, by      *)
(* whether it has been put back before.                                    *)
LEMMA PushSets ==
  TypeInv => \A c \in Consumers, m \in Messages :
    Push(c, m) =>
      /\ \A d \in Consumers \ {c} : Marked(d)' = Marked(d) /\ Unmarked(d)' = Unmarked(d)
      /\ \/ /\ Marked(c)' = Marked(c) \cup {m} /\ Unmarked(c)' = Unmarked(c)
         \/ /\ Unmarked(c)' = Unmarked(c) \cup {m} /\ Marked(c)' = Marked(c)
            /\ m \notin redelivered
<1> SUFFICES ASSUME TypeInv, NEW c \in Consumers, NEW m \in Messages, Push(c, m)
             PROVE  /\ \A d \in Consumers \ {c} : Marked(d)' = Marked(d) /\ Unmarked(d)' = Unmarked(d)
                    /\ \/ /\ Marked(c)' = Marked(c) \cup {m} /\ Unmarked(c)' = Unmarked(c)
                       \/ /\ Unmarked(c)' = Unmarked(c) \cup {m} /\ Marked(c)' = Marked(c)
                          /\ m \notin redelivered
  BY Zenon
<1>1. \/ buffer' = [buffer EXCEPT ![c] = @ \cup {<<m, TRUE>>}]
      \/ buffer' = [buffer EXCEPT ![c] = @ \cup {<<m, FALSE>>}] /\ m \notin redelivered
  BY PushFlag
<1>2. buffer \in [Consumers -> SUBSET (Messages \X BOOLEAN)]
  BY DEF TypeInv, TypeOK
<1>3. CASE buffer' = [buffer EXCEPT ![c] = @ \cup {<<m, TRUE>>}]
  BY <1>2, <1>3 DEF Marked, Unmarked
<1>4. CASE buffer' = [buffer EXCEPT ![c] = @ \cup {<<m, FALSE>>}] /\ m \notin redelivered
  BY <1>2, <1>4 DEF Marked, Unmarked
<1> QED
  BY <1>1, <1>3, <1>4

(* A delivery takes it out of one, by which the lane looks it up or not.   *)
LEMMA DeliverSets ==
  TypeInv => \A t \in Lanes, d \in Messages \X BOOLEAN :
    Deliver(t, d) =>
      \E m \in Messages :
        /\ held' = [held EXCEPT ![t] = m]
        /\ \A c \in Consumers \ {Home[t]} : Marked(c)' = Marked(c) /\ Unmarked(c)' = Unmarked(c)
        /\ \/ /\ m \in Marked(Home[t]) /\ Marked(Home[t])' = Marked(Home[t]) \ {m}
              /\ Unmarked(Home[t])' = Unmarked(Home[t]) /\ pc'[t] = "find"
           \/ /\ m \in Unmarked(Home[t]) /\ Unmarked(Home[t])' = Unmarked(Home[t]) \ {m}
              /\ Marked(Home[t])' = Marked(Home[t])
<1> SUFFICES ASSUME TypeInv, NEW t \in Lanes, NEW d \in Messages \X BOOLEAN, Deliver(t, d)
             PROVE  \E m \in Messages :
                      /\ held' = [held EXCEPT ![t] = m]
                      /\ \A c \in Consumers \ {Home[t]} :
                            Marked(c)' = Marked(c) /\ Unmarked(c)' = Unmarked(c)
                      /\ \/ /\ m \in Marked(Home[t]) /\ Marked(Home[t])' = Marked(Home[t]) \ {m}
                            /\ Unmarked(Home[t])' = Unmarked(Home[t]) /\ pc'[t] = "find"
                         \/ /\ m \in Unmarked(Home[t]) /\ Unmarked(Home[t])' = Unmarked(Home[t]) \ {m}
                            /\ Marked(Home[t])' = Marked(Home[t])
  BY Zenon
<1>1. d = <<d[1], d[2]>> /\ d[1] \in Messages /\ d[2] \in BOOLEAN
  OBVIOUS
<1>2. d[2] = TRUE \/ d[2] = FALSE
  BY <1>1, Zenon
<1>3. d \in buffer[Home[t]] /\ buffer' = [buffer EXCEPT ![Home[t]] = @ \ {d}]
      /\ held' = [held EXCEPT ![t] = d[1]]
  BY DEF Deliver
<1>4. PICK m \in Messages, h \in Consumers : m = d[1] /\ h = Home[t]
  BY <1>1
<1>5. buffer \in [Consumers -> SUBSET (Messages \X BOOLEAN)] /\ h \in Consumers
  BY DEF TypeInv, TypeOK
<1>6. CASE d[2] = TRUE
  <2>1. d = <<m, TRUE>> /\ <<m, TRUE>> \in buffer[h] /\ buffer' = [buffer EXCEPT ![h] = @ \ {<<m, TRUE>>}]
    BY <1>1, <1>3, <1>6, <1>4
  <2>2. pc'[t] = "find"
    BY <1>6 DEF Deliver, FirstStep, Goto, TypeInv, TypeOK
  <2>3. /\ m \in Marked(h) /\ Marked(h)' = Marked(h) \ {m} /\ Unmarked(h)' = Unmarked(h)
        /\ \A c \in Consumers \ {h} : Marked(c)' = Marked(c) /\ Unmarked(c)' = Unmarked(c)
    BY <1>5, <2>1 DEF Marked, Unmarked
  <2> QED
    BY <1>3, <1>4, <2>2, <2>3
<1>7. CASE d[2] = FALSE
  <2>1. d = <<m, FALSE>> /\ <<m, FALSE>> \in buffer[h] /\ buffer' = [buffer EXCEPT ![h] = @ \ {<<m, FALSE>>}]
    BY <1>1, <1>3, <1>7, <1>4
  <2>2. /\ m \in Unmarked(h) /\ Unmarked(h)' = Unmarked(h) \ {m} /\ Marked(h)' = Marked(h)
        /\ \A c \in Consumers \ {h} : Marked(c)' = Marked(c) /\ Unmarked(c)' = Unmarked(c)
    BY <1>5, <2>1 DEF Marked, Unmarked
  <2> QED
    BY <1>3, <1>4, <2>2
<1> QED
  BY <1>2, <1>6, <1>7

(* A step that leaves the buffers alone, or empties one, adds nothing.     *)
LEMMA SameSets ==
  TypeInv /\ (buffer' = buffer \/ \E c \in Consumers : buffer' = [buffer EXCEPT ![c] = {}])
  => \A d \in Consumers : Marked(d)' \subseteq Marked(d) /\ Unmarked(d)' \subseteq Unmarked(d)
BY DEF Marked, Unmarked, TypeInv, TypeOK

(* What is acknowledged, or about to be, is done.                          *)
LEMMA SafeInvStep == TypeInv /\ SafeInv /\ [Next]_vars => SafeInv'
<1> SUFFICES ASSUME TypeInv, SafeInv, [Next]_vars PROVE SafeInv'
  OBVIOUS
<1> USE DEF TypeInv, TypeOK, WorkerTypeOK, HeldOK, SafeInv, LaneKnows, FrameKnows, Known,
            workerVars, driverVars, runnerVars, laneVars, storeVars, brokerVars, clientVars
<1>1. CASE Publish
  <2>1. \A d \in Consumers : \A n \in Marked(d)' \cup Unmarked(d)' : n <= published
    BY <1>1, SameSets DEF Publish
  <2>2. \A d \in Consumers : Marked(d)' \cup Unmarked(d)' \subseteq Messages
    BY DEF Marked, Unmarked
  <2>3. \A n \in Messages : n <= published => n <= published'
    BY <1>1 DEF Publish
  <2> QED BY <1>1, <2>1, <2>2, <2>3 DEF Publish
<1>2. ASSUME NEW c \in Consumers, SetStop(c), UNCHANGED driverVars PROVE SafeInv'
  BY <1>2, SameSets DEF SetStop
<1>3. ASSUME NEW c \in Consumers, RunnerStop(c), UNCHANGED driverVars PROVE SafeInv'
  BY <1>3, SameSets DEF RunnerStop, Cancel
<1>4. ASSUME NEW c \in Consumers, RunnerFail(c), UNCHANGED driverVars PROVE SafeInv'
  BY <1>4, SameSets DEF RunnerFail, Cancel
<1>5. ASSUME NEW c \in Consumers, DrainTimeout(c), UNCHANGED driverVars PROVE SafeInv'
  BY <1>5, SameSets DEF DrainTimeout, Cancel
<1>6. ASSUME NEW t \in Lanes, CancelLane(t), UNCHANGED driverVars PROVE SafeInv'
  BY <1>6, SameSets DEF CancelLane, EndLane, Goto
<1>7. ASSUME NEW t \in Lanes, SwallowCancel(t), UNCHANGED driverVars PROVE SafeInv'
  BY <1>7, SameSets DEF SwallowCancel
<1>8. ASSUME NEW t \in Lanes, Find(t), UNCHANGED driverVars PROVE SafeInv'
  BY <1>8, SameSets DEF Find, Goto, At
<1>8a. ASSUME NEW t \in Lanes, FindReply(t), UNCHANGED driverVars PROVE SafeInv'
  BY <1>8a, SameSets DEF FindReply, Goto, At
<1>9. ASSUME NEW t \in Lanes, Succeed(t), UNCHANGED driverVars PROVE SafeInv'
  BY <1>9, SameSets DEF Succeed, Goto, At
<1>10. ASSUME NEW t \in Lanes, FailJob(t), UNCHANGED driverVars PROVE SafeInv'
  BY <1>10, SameSets DEF FailJob, Goto, At
<1>11. ASSUME NEW t \in Lanes, DefinitionError(t), UNCHANGED driverVars PROVE SafeInv'
  BY <1>11, SameSets DEF DefinitionError, Raise, EndLane, Goto, At, Fault
<1>12. ASSUME NEW t \in Lanes, Save(t), UNCHANGED driverVars PROVE SafeInv'
  BY <1>12, SameSets DEF Save, Goto, At
<1>13. ASSUME NEW t \in Lanes, SaveReply(t), UNCHANGED driverVars PROVE SafeInv'
  BY <1>13, SameSets DEF SaveReply, Goto, At
<1>14. ASSUME NEW t \in Lanes, SaveDuplicate(t), UNCHANGED driverVars PROVE SafeInv'
  BY <1>14, SameSets DEF SaveDuplicate, Goto, At
<1>15. ASSUME NEW t \in Lanes, SaveVanished(t), UNCHANGED driverVars PROVE SafeInv'
  BY <1>15, SameSets DEF SaveVanished, Raise, EndLane, Goto, At
<1>16. ASSUME NEW t \in Lanes, StoreError(t), UNCHANGED driverVars PROVE SafeInv'
  BY <1>16, SameSets DEF StoreError, Raise, EndLane, Goto, At, Fault
<1>17. ASSUME NEW m \in Messages, Forget(m), UNCHANGED driverVars PROVE SafeInv'
  BY <1>17, SameSets DEF Forget, Fault
<1>18. ASSUME NEW t \in Lanes, EnterReceive(t) PROVE SafeInv'
  BY <1>18, SameSets DEF EnterReceive, Goto, At
<1>19. ASSUME NEW t \in Lanes, CancelReceive(t) PROVE SafeInv'
  BY <1>19, SameSets DEF CancelReceive, CancelLane, EndLane, Goto
<1>20. ASSUME NEW t \in Lanes, StreamEnd(t) PROVE SafeInv'
  BY <1>20, SameSets DEF StreamEnd, Raise, EndLane, Goto, At
<1>21. ASSUME NEW t \in Lanes, AckSend(t) PROVE SafeInv'
  BY <1>21, SameSets DEF AckSend, LoopHead, EndLane, Goto, At
<1>22. ASSUME NEW t \in Lanes, AckError(t) PROVE SafeInv'
  BY <1>22, SameSets DEF AckError, Raise, EndLane, Goto, At
<1>23. ASSUME NEW t \in Lanes, NEW d \in Messages \X BOOLEAN, Deliver(t, d) PROVE SafeInv'
  <2>1. PICK m \in Messages :
              /\ held' = [held EXCEPT ![t] = m]
              /\ m \in Marked(Home[t]) \cup Unmarked(Home[t])
              /\ \A c \in Consumers :
                   Marked(c)' \subseteq Marked(c) /\ Unmarked(c)' \subseteq Unmarked(c)
    <3> HIDE DEF SafeInv
    <3> QED BY <1>23, DeliverSets
  <2>2. \A e \in Consumers : \A n \in Marked(e)' \cup Unmarked(e)' : n <= published
    BY <2>1
  <2>3. \A u \in Lanes : held'[u] <= published
    BY <2>1
  <2> QED BY <1>23, <2>2, <2>3 DEF Deliver, FirstStep, Goto, At
<1>24. ASSUME NEW c \in Consumers, Start(c) PROVE SafeInv'
  BY <1>24, SameSets DEF Start, StartLanes, LoopHead
<1>25. ASSUME NEW c \in Consumers, StartError(c) PROVE SafeInv'
  BY <1>25, SameSets DEF StartError, Fault
<1>26. ASSUME NEW c \in Consumers, Close(c) PROVE SafeInv'
  BY <1>26, SameSets DEF Close, RunnerExit, Requeue
<1>27. ASSUME NEW c \in Consumers, Crash(c) PROVE SafeInv'
  <2>1. \A d \in Consumers : \A n \in Marked(d)' \cup Unmarked(d)' : n <= published'
    BY <1>27, SameSets DEF Crash
  <2> QED BY <1>27, <2>1 DEF Crash, RunnerCrash
<1>28. ASSUME NEW c \in Consumers, NEW m \in Messages, Push(c, m) PROVE SafeInv'
  <2>1. \A d \in Consumers : \A n \in Marked(d)' \cup Unmarked(d)' : n <= published'
    <3>1. m <= published /\ published' = published
      BY <1>28 DEF Push
    <3> QED BY <1>28, <3>1, PushSets
  <2> QED BY <1>28, <2>1 DEF Push
<1>29. ASSUME NEW c \in Consumers, NEW m \in Messages, BrokerAck(c, m) PROVE SafeInv'
  BY <1>29, SameSets DEF BrokerAck
<1>30. ASSUME NEW c \in Consumers, Drop(c) PROVE SafeInv'
  BY <1>30, SameSets DEF Drop, Requeue, Fault
<1>31. ASSUME NEW c \in Consumers, Notice(c) PROVE SafeInv'
  BY <1>31, SameSets DEF Notice, Fault
<1>32. CASE UNCHANGED vars
  BY <1>32, SameSets DEF vars
<1> QED
  BY <1>1, <1>2, <1>3, <1>4, <1>5, <1>6, <1>7, <1>8, <1>8a, <1>9, <1>10, <1>11, <1>12, <1>13, <1>14,
     <1>15, <1>16, <1>17, <1>18, <1>19, <1>20, <1>21, <1>22, <1>23, <1>24, <1>25, <1>26, <1>27,
     <1>28, <1>29, <1>30, <1>31, <1>32
  DEF Next, WorkerStep, LaneStep, BrokerStep

(* Types and safety, in every state.                                       *)
LEMMA SafeInvariant == Spec => [](TypeInv /\ SafeInv)
<1>1. Init => SafeInv
  BY DEF Init, WorkerInit, SafeInv, LaneKnows, FrameKnows, Known, Marked, Unmarked
<1> QED
  BY <1>1, InitTypeInv, TypeInvStep, SafeInvStep, PTL DEF Spec

-----------------------------------------------------------------------------
(* Refinement: a message is settled when it is published and neither in    *)
(* the queue nor unacknowledged, so a push or the end of a channel moves   *)
(* it without changing its status.                                         *)

(* The initial states are initial states of JobDelivery.                   *)
LEMMA InitRefines == Init => JD!Init
BY DEF Init, WorkerInit, JD!Init, Settled

(* Every step is a step of JobDelivery or a stutter.                       *)
LEMMA StepRefines == TypeInv /\ SafeInv /\ [Next]_vars => [JD!Next]_JD!vars
<1> SUFFICES ASSUME TypeInv, SafeInv, [Next]_vars, ~ UNCHANGED JD!vars PROVE JD!Next
  OBVIOUS
<1> USE DEF TypeInv, TypeOK, WorkerTypeOK, HeldOK, SafeInv, LaneKnows, FrameKnows, Known,
            workerVars, driverVars, runnerVars, laneVars, storeVars, brokerVars, clientVars,
            JD!vars, Settled
<1>1. CASE Publish
  <2>1. PICK n \in Messages : n = published + 1
    BY <1>1 DEF Publish
  <2>2. \A m \in Messages : m <= published' <=> m <= published \/ m = n
    BY <1>1, <2>1 DEF Publish
  <2>3. ~(n <= published) /\ ~Settled(n) /\ ~Settled(n)'
    BY <1>1, <2>1 DEF Publish
  <2>4. \A m \in Messages : m # n => (Settled(m)' <=> Settled(m))
    BY <1>1, <2>1, <2>2 DEF Publish
  <2>5. JD!Publish(n)
    <3> HIDE DEF Settled, TypeInv, SafeInv
    <3>1. UNCHANGED <<succeeded, recorded>>
      BY <1>1 DEF Publish
    <3> QED BY <2>2, <2>3, <2>4, <3>1 DEF JD!Publish
  <2> QED BY <2>5 DEF JD!Next, JD!Publish
<1>2. ASSUME NEW t \in Lanes, Succeed(t), UNCHANGED driverVars PROVE JD!Next
  <2>1. held[t] \in Messages /\ held[t] <= published
    BY <1>2 DEF Succeed, At
  <2>2. JD!Succeed(held[t])
    BY <1>2, <2>1 DEF Succeed, JD!Succeed
  <2> QED BY <2>1, <2>2 DEF JD!Next
<1>3. ASSUME NEW t \in Lanes, Save(t), UNCHANGED driverVars PROVE JD!Next
  <2>1. held[t] \in Messages /\ held[t] <= published
    BY <1>3 DEF Save, At
  <2>2. JD!Record(held[t])
    BY <1>3, <2>1 DEF Save, JD!Record
  <2> QED BY <2>1, <2>2 DEF JD!Next
<1>4. ASSUME NEW c \in Consumers, NEW m \in Messages, BrokerAck(c, m) PROVE JD!Next
  <2>1. m \in succeeded \cup recorded
    BY <1>4 DEF BrokerAck
  <2>2. CASE m \in unacked[c] /\ m \notin ready /\ \A d \in Consumers \ {c} : m \notin unacked[d]
    <3>1. m <= published /\ ~Settled(m) /\ Settled(m)'
      BY <1>4, <2>2 DEF BrokerAck
    <3>2. \A n \in Messages : n # m => (Settled(n)' <=> Settled(n))
      BY <1>4 DEF BrokerAck
    <3>3. JD!Settle(m)
      <4> HIDE DEF Settled, TypeInv, SafeInv
      <4>1. UNCHANGED <<succeeded, recorded, published>>
        BY <1>4 DEF BrokerAck
      <4> QED BY <2>1, <3>1, <3>2, <4>1 DEF JD!Settle
    <3> QED BY <3>3 DEF JD!Next, JD!Settle
  <2>3. CASE m \notin unacked[c] \/ m \in ready \/ \E d \in Consumers \ {c} : m \in unacked[d]
    <3>1. \A n \in Messages : Settled(n)' <=> Settled(n)
      BY <1>4, <2>3 DEF BrokerAck
    <3> QED BY <1>4, <3>1 DEF BrokerAck
  <2> QED BY <2>2, <2>3
<1>5. ASSUME NEW c \in Consumers, NEW m \in Messages, Push(c, m) PROVE FALSE
  <2>1. \A n \in Messages : Settled(n)' <=> Settled(n)
    BY <1>5 DEF Push
  <2> QED BY <1>5, <2>1 DEF Push
<1>6. ASSUME NEW c \in Consumers, Requeue(c), UNCHANGED <<published, succeeded, recorded>> PROVE FALSE
  <2>1. \A n \in Messages : Settled(n)' <=> Settled(n)
    BY <1>6 DEF Requeue
  <2> QED BY <1>6, <2>1
<1>7. ASSUME NEW c \in Consumers, Close(c) \/ Drop(c) PROVE FALSE
  BY <1>6, <1>7 DEF Close, RunnerExit, Drop
<1>8. ASSUME NEW c \in Consumers, UNCHANGED driverVars,
             SetStop(c) \/ RunnerStop(c) \/ RunnerFail(c) \/ DrainTimeout(c)
      PROVE  FALSE
  BY <1>8 DEF SetStop, RunnerStop, RunnerFail, DrainTimeout
<1>9. ASSUME NEW t \in Lanes, UNCHANGED driverVars,
             \/ CancelLane(t) \/ SwallowCancel(t) \/ Find(t) \/ FindReply(t) \/ FailJob(t)
             \/ DefinitionError(t) \/ SaveReply(t) \/ SaveDuplicate(t) \/ SaveVanished(t) \/ StoreError(t)
      PROVE  FALSE
  BY <1>9 DEF CancelLane, SwallowCancel, Find, FindReply, FailJob, DefinitionError, SaveReply,
              SaveDuplicate, SaveVanished, StoreError
<1>10. ASSUME NEW m \in Messages, Forget(m), UNCHANGED driverVars PROVE FALSE
  BY <1>10 DEF Forget
<1>11. ASSUME NEW t \in Lanes,
              EnterReceive(t) \/ CancelReceive(t) \/ StreamEnd(t) \/ AckSend(t) \/ AckError(t)
       PROVE  FALSE
  BY <1>11 DEF EnterReceive, CancelReceive, CancelLane, StreamEnd, AckSend, AckError
<1>12. ASSUME NEW t \in Lanes, NEW d \in Messages \X BOOLEAN, Deliver(t, d) PROVE FALSE
  BY <1>12 DEF Deliver
<1>13. ASSUME NEW c \in Consumers, Start(c) \/ StartError(c) \/ Crash(c) \/ Notice(c) PROVE FALSE
  BY <1>13 DEF Start, StartLanes, StartError, Crash, RunnerCrash, Notice
<1>14. ~ UNCHANGED vars
  BY DEF vars
<1> QED
  BY <1>1, <1>2, <1>3, <1>4, <1>5, <1>7, <1>8, <1>9, <1>10, <1>11, <1>12, <1>13, <1>14
  DEF Next, WorkerStep, LaneStep, BrokerStep

(* Workers on RabbitMQ deliver at least once: every behaviour of the       *)
(* queue, the channels and the executors is one of JobDelivery.            *)
THEOREM RabbitImplementsJobDelivery == Spec => DeliversAtLeastOnce
<1>1. Spec => [](TypeInv /\ SafeInv)
  BY SafeInvariant
<1> QED
  BY <1>1, InitRefines, StepRefines, PTL DEF Spec, DeliversAtLeastOnce, JD!Spec

-----------------------------------------------------------------------------
(* Where the broker has a message.                                         *)

(* A worker that has not started has nothing.                              *)
NewEmpty ==
  \A c \in Consumers : mode[c] = "new" =>
    ~channel[c] /\ buffer[c] = {} /\ \A t \in LanesOf(c) : pc[t] = "off"

(* A message is in the queue or unacknowledged on one channel, and only    *)
(* an open channel has messages or acknowledgements to execute.            *)
Places ==
  /\ \A c \in Consumers : unacked[c] \cap ready = {}
  /\ \A c, d \in Consumers : c # d => unacked[c] \cap unacked[d] = {}
  /\ \A c \in Consumers : ~channel[c] => unacked[c] = {}
  /\ \A c \in Consumers, m \in Messages : <<c, m>> \in flight => channel[c]

(* What is in the buffer of an open channel is nowhere else.               *)
OwnBuffer ==
  \A c \in Consumers : channel[c] =>
    \A m \in Marked(c) \cup Unmarked(c) :
      m \notin ready /\ \A d \in Consumers \ {c} : m \notin unacked[d]

(* Nobody else has seen m: no failure is on record and no lane holds it.   *)
Unseen(m) == m \notin recorded /\ \A t \in Lanes : held[t] # m

(* A message that was never put back is unseen while it is in the queue    *)
(* and in no buffer; pushed unmarked, it stays unseen in this one buffer   *)
(* as long as the channel lasts.                                           *)
FirstPush ==
  /\ \A m \in ready \ redelivered :
       Unseen(m) /\ \A c \in Consumers : m \notin Marked(c) \cup Unmarked(c)
  /\ \A c \in Consumers : \A m \in unacked[c] \cap Unmarked(c) :
       Unseen(m) /\ \A d \in Consumers : m \notin Marked(d) /\ (m \in Unmarked(d) => d = c)

PushInv == NewEmpty /\ Places /\ OwnBuffer /\ FirstPush

(* A worker that has not started has received nothing.                     *)
LEMMA NewEmptyStep == TypeInv /\ NewEmpty /\ [Next]_vars => NewEmpty'
<1> SUFFICES ASSUME TypeInv, NewEmpty, [Next]_vars PROVE NewEmpty'
  OBVIOUS
<1> USE DEF TypeInv, TypeOK, WorkerTypeOK, NewEmpty, LanesOf, Ended,
            workerVars, driverVars, runnerVars, laneVars, storeVars, brokerVars, clientVars
<1>1. CASE Publish
  BY <1>1 DEF Publish
<1>2. ASSUME NEW c \in Consumers, SetStop(c), UNCHANGED driverVars PROVE NewEmpty'
  BY <1>2 DEF SetStop
<1>3. ASSUME NEW c \in Consumers, RunnerStop(c), UNCHANGED driverVars PROVE NewEmpty'
  BY <1>3 DEF RunnerStop, Cancel
<1>4. ASSUME NEW c \in Consumers, RunnerFail(c), UNCHANGED driverVars PROVE NewEmpty'
  BY <1>4 DEF RunnerFail, Cancel
<1>5. ASSUME NEW c \in Consumers, DrainTimeout(c), UNCHANGED driverVars PROVE NewEmpty'
  BY <1>5 DEF DrainTimeout, Cancel
<1>6. ASSUME NEW t \in Lanes, CancelLane(t), UNCHANGED driverVars PROVE NewEmpty'
  BY <1>6 DEF CancelLane, EndLane, Goto
<1>7. ASSUME NEW t \in Lanes, SwallowCancel(t), UNCHANGED driverVars PROVE NewEmpty'
  BY <1>7 DEF SwallowCancel
<1>8. ASSUME NEW t \in Lanes, Find(t), UNCHANGED driverVars PROVE NewEmpty'
  BY <1>8 DEF Find, Goto, At
<1>8a. ASSUME NEW t \in Lanes, FindReply(t), UNCHANGED driverVars PROVE NewEmpty'
  BY <1>8a DEF FindReply, Goto, At
<1>9. ASSUME NEW t \in Lanes, Succeed(t), UNCHANGED driverVars PROVE NewEmpty'
  BY <1>9 DEF Succeed, Goto, At
<1>10. ASSUME NEW t \in Lanes, FailJob(t), UNCHANGED driverVars PROVE NewEmpty'
  BY <1>10 DEF FailJob, Goto, At
<1>11. ASSUME NEW t \in Lanes, DefinitionError(t), UNCHANGED driverVars PROVE NewEmpty'
  BY <1>11 DEF DefinitionError, Raise, EndLane, Goto, At, Fault
<1>12. ASSUME NEW t \in Lanes, Save(t), UNCHANGED driverVars PROVE NewEmpty'
  BY <1>12 DEF Save, Goto, At
<1>13. ASSUME NEW t \in Lanes, SaveReply(t), UNCHANGED driverVars PROVE NewEmpty'
  BY <1>13 DEF SaveReply, Goto, At
<1>14. ASSUME NEW t \in Lanes, SaveDuplicate(t), UNCHANGED driverVars PROVE NewEmpty'
  BY <1>14 DEF SaveDuplicate, Goto, At
<1>15. ASSUME NEW t \in Lanes, SaveVanished(t), UNCHANGED driverVars PROVE NewEmpty'
  BY <1>15 DEF SaveVanished, Raise, EndLane, Goto, At
<1>16. ASSUME NEW t \in Lanes, StoreError(t), UNCHANGED driverVars PROVE NewEmpty'
  BY <1>16 DEF StoreError, Raise, EndLane, Goto, At, Fault
<1>17. ASSUME NEW m \in Messages, Forget(m), UNCHANGED driverVars PROVE NewEmpty'
  BY <1>17 DEF Forget, Fault
<1>18. ASSUME NEW t \in Lanes, EnterReceive(t) PROVE NewEmpty'
  BY <1>18 DEF EnterReceive, Goto, At
<1>19. ASSUME NEW t \in Lanes, CancelReceive(t) PROVE NewEmpty'
  BY <1>19 DEF CancelReceive, CancelLane, EndLane, Goto
<1>20. ASSUME NEW t \in Lanes, StreamEnd(t) PROVE NewEmpty'
  BY <1>20 DEF StreamEnd, Raise, EndLane, Goto, At
<1>21. ASSUME NEW t \in Lanes, AckSend(t) PROVE NewEmpty'
  BY <1>21 DEF AckSend, LoopHead, EndLane, Goto, At
<1>22. ASSUME NEW t \in Lanes, AckError(t) PROVE NewEmpty'
  BY <1>22 DEF AckError, Raise, EndLane, Goto, At
<1>23. ASSUME NEW t \in Lanes, NEW d \in Messages \X BOOLEAN, Deliver(t, d) PROVE NewEmpty'
  BY <1>23 DEF Deliver, FirstStep, Goto, At
<1>24. ASSUME NEW c \in Consumers, Start(c) PROVE NewEmpty'
  BY <1>24 DEF Start, StartLanes, LoopHead
<1>25. ASSUME NEW c \in Consumers, StartError(c) PROVE NewEmpty'
  BY <1>25 DEF StartError, Fault
<1>26. ASSUME NEW c \in Consumers, Close(c) PROVE NewEmpty'
  BY <1>26 DEF Close, RunnerExit, Requeue
<1>27. ASSUME NEW c \in Consumers, Crash(c) PROVE NewEmpty'
  BY <1>27 DEF Crash, RunnerCrash, Fault
<1>28. ASSUME NEW c \in Consumers, NEW m \in Messages, Push(c, m) PROVE NewEmpty'
  BY <1>28 DEF Push
<1>29. ASSUME NEW c \in Consumers, NEW m \in Messages, BrokerAck(c, m) PROVE NewEmpty'
  BY <1>29 DEF BrokerAck
<1>30. ASSUME NEW c \in Consumers, Drop(c) PROVE NewEmpty'
  BY <1>30 DEF Drop, Requeue, Fault
<1>31. ASSUME NEW c \in Consumers, Notice(c) PROVE NewEmpty'
  BY <1>31 DEF Notice, Fault
<1>32. CASE UNCHANGED vars
  BY <1>32 DEF vars
<1> QED
  BY <1>1, <1>2, <1>3, <1>4, <1>5, <1>6, <1>7, <1>8, <1>8a, <1>9, <1>10, <1>11, <1>12, <1>13, <1>14,
     <1>15, <1>16, <1>17, <1>18, <1>19, <1>20, <1>21, <1>22, <1>23, <1>24, <1>25, <1>26, <1>27,
     <1>28, <1>29, <1>30, <1>31, <1>32
  DEF Next, WorkerStep, LaneStep, BrokerStep

(* A message stays in one place of the broker.                             *)
LEMMA PlacesStep == TypeInv /\ SafeInv /\ Places /\ [Next]_vars => Places'
<1> SUFFICES ASSUME TypeInv, SafeInv, Places, [Next]_vars PROVE Places'
  OBVIOUS
<1> USE DEF TypeInv, TypeOK, Places,
            workerVars, driverVars, runnerVars, laneVars, storeVars, brokerVars, clientVars
<1>1. CASE Publish
  <2>1. PICK n \in Messages : n = published + 1 /\ ready' = ready \cup {n}
    BY <1>1 DEF Publish
  <2>2. \A c \in Consumers : n \notin unacked[c]
    BY <2>1 DEF SafeInv, Known
  <2> QED BY <1>1, <2>1, <2>2 DEF Publish
<1>2. ASSUME NEW c \in Consumers, SetStop(c), UNCHANGED driverVars PROVE Places'
  BY <1>2 DEF SetStop
<1>3. ASSUME NEW c \in Consumers, RunnerStop(c), UNCHANGED driverVars PROVE Places'
  BY <1>3 DEF RunnerStop, Cancel
<1>4. ASSUME NEW c \in Consumers, RunnerFail(c), UNCHANGED driverVars PROVE Places'
  BY <1>4 DEF RunnerFail, Cancel
<1>5. ASSUME NEW c \in Consumers, DrainTimeout(c), UNCHANGED driverVars PROVE Places'
  BY <1>5 DEF DrainTimeout, Cancel
<1>6. ASSUME NEW t \in Lanes, CancelLane(t), UNCHANGED driverVars PROVE Places'
  BY <1>6 DEF CancelLane, EndLane, Goto
<1>7. ASSUME NEW t \in Lanes, SwallowCancel(t), UNCHANGED driverVars PROVE Places'
  BY <1>7 DEF SwallowCancel
<1>8. ASSUME NEW t \in Lanes, Find(t), UNCHANGED driverVars PROVE Places'
  BY <1>8 DEF Find, Goto, At
<1>8a. ASSUME NEW t \in Lanes, FindReply(t), UNCHANGED driverVars PROVE Places'
  BY <1>8a DEF FindReply, Goto, At
<1>9. ASSUME NEW t \in Lanes, Succeed(t), UNCHANGED driverVars PROVE Places'
  BY <1>9 DEF Succeed, Goto, At
<1>10. ASSUME NEW t \in Lanes, FailJob(t), UNCHANGED driverVars PROVE Places'
  BY <1>10 DEF FailJob, Goto, At
<1>11. ASSUME NEW t \in Lanes, DefinitionError(t), UNCHANGED driverVars PROVE Places'
  BY <1>11 DEF DefinitionError, Raise, EndLane, Goto, At, Fault
<1>12. ASSUME NEW t \in Lanes, Save(t), UNCHANGED driverVars PROVE Places'
  BY <1>12 DEF Save, Goto, At
<1>13. ASSUME NEW t \in Lanes, SaveReply(t), UNCHANGED driverVars PROVE Places'
  BY <1>13 DEF SaveReply, Goto, At
<1>14. ASSUME NEW t \in Lanes, SaveDuplicate(t), UNCHANGED driverVars PROVE Places'
  BY <1>14 DEF SaveDuplicate, Goto, At
<1>15. ASSUME NEW t \in Lanes, SaveVanished(t), UNCHANGED driverVars PROVE Places'
  BY <1>15 DEF SaveVanished, Raise, EndLane, Goto, At
<1>16. ASSUME NEW t \in Lanes, StoreError(t), UNCHANGED driverVars PROVE Places'
  BY <1>16 DEF StoreError, Raise, EndLane, Goto, At, Fault
<1>17. ASSUME NEW m \in Messages, Forget(m), UNCHANGED driverVars PROVE Places'
  BY <1>17 DEF Forget, Fault
<1>18. ASSUME NEW t \in Lanes, EnterReceive(t) PROVE Places'
  BY <1>18 DEF EnterReceive, Goto, At
<1>19. ASSUME NEW t \in Lanes, CancelReceive(t) PROVE Places'
  BY <1>19 DEF CancelReceive, CancelLane, EndLane, Goto
<1>20. ASSUME NEW t \in Lanes, StreamEnd(t) PROVE Places'
  BY <1>20 DEF StreamEnd, Raise, EndLane, Goto, At
<1>21. ASSUME NEW t \in Lanes, AckSend(t) PROVE Places'
  BY <1>21 DEF AckSend, LoopHead, EndLane, Goto, At
<1>22. ASSUME NEW t \in Lanes, AckError(t) PROVE Places'
  BY <1>22 DEF AckError, Raise, EndLane, Goto, At
<1>23. ASSUME NEW t \in Lanes, NEW d \in Messages \X BOOLEAN, Deliver(t, d) PROVE Places'
  BY <1>23 DEF Deliver, FirstStep, Goto, At
<1>24. ASSUME NEW c \in Consumers, Start(c) PROVE Places'
  BY <1>24 DEF Start, StartLanes, LoopHead
<1>25. ASSUME NEW c \in Consumers, StartError(c) PROVE Places'
  BY <1>25 DEF StartError, Fault
<1>26. ASSUME NEW c \in Consumers, Close(c) PROVE Places'
  BY <1>26 DEF Close, RunnerExit, Requeue
<1>27. ASSUME NEW c \in Consumers, Crash(c) PROVE Places'
  BY <1>27 DEF Crash, RunnerCrash, Fault
<1>28. ASSUME NEW c \in Consumers, NEW m \in Messages, Push(c, m) PROVE Places'
  BY <1>28 DEF Push
<1>29. ASSUME NEW c \in Consumers, NEW m \in Messages, BrokerAck(c, m) PROVE Places'
  BY <1>29 DEF BrokerAck
<1>30. ASSUME NEW c \in Consumers, Drop(c) PROVE Places'
  BY <1>30 DEF Drop, Requeue, Fault
<1>31. ASSUME NEW c \in Consumers, Notice(c) PROVE Places'
  BY <1>31 DEF Notice, Fault
<1>32. CASE UNCHANGED vars
  BY <1>32 DEF vars
<1> QED
  BY <1>1, <1>2, <1>3, <1>4, <1>5, <1>6, <1>7, <1>8, <1>8a, <1>9, <1>10, <1>11, <1>12, <1>13, <1>14,
     <1>15, <1>16, <1>17, <1>18, <1>19, <1>20, <1>21, <1>22, <1>23, <1>24, <1>25, <1>26, <1>27,
     <1>28, <1>29, <1>30, <1>31, <1>32
  DEF Next, WorkerStep, LaneStep, BrokerStep

(* What is in the buffer of an open channel is nowhere else.               *)
LEMMA OwnBufferStep ==
  TypeInv /\ SafeInv /\ NewEmpty /\ Places /\ OwnBuffer /\ [Next]_vars => OwnBuffer'
<1> SUFFICES ASSUME TypeInv, SafeInv, NewEmpty, Places, OwnBuffer, [Next]_vars PROVE OwnBuffer'
  OBVIOUS
<1> USE DEF TypeInv, TypeOK, OwnBuffer,
            workerVars, driverVars, runnerVars, laneVars, storeVars, brokerVars, clientVars
<1>1. CASE Publish
  <2>1. PICK n \in Messages : n = published + 1 /\ ready' = ready \cup {n}
    BY <1>1 DEF Publish
  <2>2. \A c \in Consumers : n \notin Marked(c) \cup Unmarked(c)
    BY <2>1 DEF SafeInv, Known
  <2> QED BY <1>1, <2>1, <2>2, SameSets DEF Publish
<1>2. ASSUME NEW c \in Consumers, SetStop(c), UNCHANGED driverVars PROVE OwnBuffer'
  BY <1>2, SameSets DEF SetStop
<1>3. ASSUME NEW c \in Consumers, RunnerStop(c), UNCHANGED driverVars PROVE OwnBuffer'
  BY <1>3, SameSets DEF RunnerStop, Cancel
<1>4. ASSUME NEW c \in Consumers, RunnerFail(c), UNCHANGED driverVars PROVE OwnBuffer'
  BY <1>4, SameSets DEF RunnerFail, Cancel
<1>5. ASSUME NEW c \in Consumers, DrainTimeout(c), UNCHANGED driverVars PROVE OwnBuffer'
  BY <1>5, SameSets DEF DrainTimeout, Cancel
<1>6. ASSUME NEW t \in Lanes, CancelLane(t), UNCHANGED driverVars PROVE OwnBuffer'
  BY <1>6, SameSets DEF CancelLane, EndLane, Goto
<1>7. ASSUME NEW t \in Lanes, SwallowCancel(t), UNCHANGED driverVars PROVE OwnBuffer'
  BY <1>7, SameSets DEF SwallowCancel
<1>8. ASSUME NEW t \in Lanes, Find(t), UNCHANGED driverVars PROVE OwnBuffer'
  BY <1>8, SameSets DEF Find, Goto, At
<1>8a. ASSUME NEW t \in Lanes, FindReply(t), UNCHANGED driverVars PROVE OwnBuffer'
  BY <1>8a, SameSets DEF FindReply, Goto, At
<1>9. ASSUME NEW t \in Lanes, Succeed(t), UNCHANGED driverVars PROVE OwnBuffer'
  BY <1>9, SameSets DEF Succeed, Goto, At
<1>10. ASSUME NEW t \in Lanes, FailJob(t), UNCHANGED driverVars PROVE OwnBuffer'
  BY <1>10, SameSets DEF FailJob, Goto, At
<1>11. ASSUME NEW t \in Lanes, DefinitionError(t), UNCHANGED driverVars PROVE OwnBuffer'
  BY <1>11, SameSets DEF DefinitionError, Raise, EndLane, Goto, At, Fault
<1>12. ASSUME NEW t \in Lanes, Save(t), UNCHANGED driverVars PROVE OwnBuffer'
  BY <1>12, SameSets DEF Save, Goto, At
<1>13. ASSUME NEW t \in Lanes, SaveReply(t), UNCHANGED driverVars PROVE OwnBuffer'
  BY <1>13, SameSets DEF SaveReply, Goto, At
<1>14. ASSUME NEW t \in Lanes, SaveDuplicate(t), UNCHANGED driverVars PROVE OwnBuffer'
  BY <1>14, SameSets DEF SaveDuplicate, Goto, At
<1>15. ASSUME NEW t \in Lanes, SaveVanished(t), UNCHANGED driverVars PROVE OwnBuffer'
  BY <1>15, SameSets DEF SaveVanished, Raise, EndLane, Goto, At
<1>16. ASSUME NEW t \in Lanes, StoreError(t), UNCHANGED driverVars PROVE OwnBuffer'
  BY <1>16, SameSets DEF StoreError, Raise, EndLane, Goto, At, Fault
<1>17. ASSUME NEW m \in Messages, Forget(m), UNCHANGED driverVars PROVE OwnBuffer'
  BY <1>17, SameSets DEF Forget, Fault
<1>18. ASSUME NEW t \in Lanes, EnterReceive(t) PROVE OwnBuffer'
  BY <1>18, SameSets DEF EnterReceive, Goto, At
<1>19. ASSUME NEW t \in Lanes, CancelReceive(t) PROVE OwnBuffer'
  BY <1>19, SameSets DEF CancelReceive, CancelLane, EndLane, Goto
<1>20. ASSUME NEW t \in Lanes, StreamEnd(t) PROVE OwnBuffer'
  BY <1>20, SameSets DEF StreamEnd, Raise, EndLane, Goto, At
<1>21. ASSUME NEW t \in Lanes, AckSend(t) PROVE OwnBuffer'
  BY <1>21, SameSets DEF AckSend, LoopHead, EndLane, Goto, At
<1>22. ASSUME NEW t \in Lanes, AckError(t) PROVE OwnBuffer'
  BY <1>22, SameSets DEF AckError, Raise, EndLane, Goto, At
<1>23. ASSUME NEW t \in Lanes, NEW d \in Messages \X BOOLEAN, Deliver(t, d) PROVE OwnBuffer'
  <2>1. \A c \in Consumers : Marked(c)' \subseteq Marked(c) /\ Unmarked(c)' \subseteq Unmarked(c)
    BY <1>23, DeliverSets
  <2> QED BY <1>23, <2>1 DEF Deliver
<1>24. ASSUME NEW c \in Consumers, Start(c) PROVE OwnBuffer'
  BY <1>24, SameSets DEF Start, StartLanes, LoopHead, NewEmpty, Marked, Unmarked
<1>25. ASSUME NEW c \in Consumers, StartError(c) PROVE OwnBuffer'
  BY <1>25, SameSets DEF StartError, Fault
<1>26. ASSUME NEW c \in Consumers, Close(c) PROVE OwnBuffer'
  <2>1. \A d \in Consumers : Marked(d)' \subseteq Marked(d) /\ Unmarked(d)' \subseteq Unmarked(d)
    BY <1>26, SameSets DEF Close
  <2>2. CASE link[c] = "lost"
    <3>1. UNCHANGED <<ready, unacked, channel>>
      BY <1>26, <2>2 DEF Close
    <3> QED BY <2>1, <3>1
  <2>3. CASE link[c] # "lost"
    <3>1. /\ ready' = ready \cup unacked[c] /\ channel' = [channel EXCEPT ![c] = FALSE]
          /\ unacked' = [unacked EXCEPT ![c] = {}]
      BY <1>26, <2>3 DEF Close, Requeue
    <3> QED BY <2>1, <3>1
  <2> QED BY <2>2, <2>3
<1>27. ASSUME NEW c \in Consumers, Crash(c) PROVE OwnBuffer'
  BY <1>27, SameSets DEF Crash, RunnerCrash, Fault
<1>28. ASSUME NEW c \in Consumers, NEW m \in Messages, Push(c, m) PROVE OwnBuffer'
  <2>1. /\ m \in ready /\ ready' = ready \ {m} /\ channel' = channel /\ channel[c]
        /\ unacked' = [unacked EXCEPT ![c] = @ \cup {m}]
    BY <1>28 DEF Push
  <2>2. \A d \in Consumers : m \notin unacked[d]
    BY <2>1 DEF Places
  <2>3. ASSUME NEW d \in Consumers, channel[d], NEW n \in Marked(d)' \cup Unmarked(d)'
        PROVE  n \notin ready' /\ \A e \in Consumers \ {d} : n \notin unacked'[e]
    <3>1. CASE n \in Marked(d) \cup Unmarked(d)
      BY <2>1, <2>3, <3>1
    <3>2. CASE n \notin Marked(d) \cup Unmarked(d)
      <4>1. n = m /\ d = c
        BY <1>28, <2>3, <3>2, PushSets
      <4> QED BY <2>1, <2>2, <4>1
    <3> QED BY <3>1, <3>2
  <2> QED BY <2>1, <2>3
<1>29. ASSUME NEW c \in Consumers, NEW m \in Messages, BrokerAck(c, m) PROVE OwnBuffer'
  BY <1>29, SameSets DEF BrokerAck
<1>30. ASSUME NEW c \in Consumers, Drop(c) PROVE OwnBuffer'
  BY <1>30, SameSets DEF Drop, Requeue, Fault
<1>31. ASSUME NEW c \in Consumers, Notice(c) PROVE OwnBuffer'
  BY <1>31, SameSets DEF Notice, Fault
<1>32. CASE UNCHANGED vars
  BY <1>32, SameSets DEF vars
<1> QED
  BY <1>1, <1>2, <1>3, <1>4, <1>5, <1>6, <1>7, <1>8, <1>8a, <1>9, <1>10, <1>11, <1>12, <1>13, <1>14,
     <1>15, <1>16, <1>17, <1>18, <1>19, <1>20, <1>21, <1>22, <1>23, <1>24, <1>25, <1>26, <1>27,
     <1>28, <1>29, <1>30, <1>31, <1>32
  DEF Next, WorkerStep, LaneStep, BrokerStep

(* What no step but Publish, Save, Deliver and Push does: show a message   *)
(* to a lane, a buffer or the store, or put one unmarked into the queue.   *)
Calm ==
  /\ recorded' = recorded
  /\ \A t \in Lanes : held'[t] \in {held[t], 0}
  /\ ready' \ redelivered' \subseteq ready \ redelivered
  /\ \A c \in Consumers : /\ unacked'[c] \subseteq unacked[c]
                         /\ Marked(c)' \subseteq Marked(c) /\ Unmarked(c)' \subseteq Unmarked(c)

(* A step that touches neither pushes nor records keeps FirstPush.         *)
LEMMA CalmStep == TypeInv /\ FirstPush /\ Calm => FirstPush'
<1> SUFFICES ASSUME TypeInv, FirstPush, Calm PROVE FirstPush'
  OBVIOUS
<1>1. \A m \in Messages : Unseen(m) => Unseen(m)'
  BY DEF Calm, Unseen
<1>2. ready \subseteq Messages /\ \A c \in Consumers : unacked[c] \subseteq Messages
  BY DEF TypeInv, TypeOK
<1>3. ASSUME NEW m \in ready' \ redelivered'
      PROVE  Unseen(m)' /\ \A c \in Consumers : m \notin Marked(c)' \cup Unmarked(c)'
  BY <1>1, <1>2 DEF FirstPush, Calm
<1>4. ASSUME NEW c \in Consumers, NEW m \in unacked'[c] \cap Unmarked(c)'
      PROVE  /\ Unseen(m)'
             /\ \A d \in Consumers : m \notin Marked(d)' /\ (m \in Unmarked(d)' => d = c)
  BY <1>1, <1>2 DEF FirstPush, Calm
<1> QED
  BY <1>3, <1>4 DEF FirstPush

(* A first push that is still unanswered is of a message without a record. *)
LEMMA FirstPushStep ==
  TypeInv /\ SafeInv /\ Places /\ OwnBuffer /\ FirstPush /\ [Next]_vars => FirstPush'
<1> SUFFICES ASSUME TypeInv, SafeInv, Places, OwnBuffer, FirstPush, [Next]_vars PROVE FirstPush'
  OBVIOUS
<1> USE DEF TypeInv, TypeOK, WorkerTypeOK, Calm,
            workerVars, driverVars, runnerVars, laneVars, storeVars, brokerVars, clientVars
<1>1. CASE Publish
  <2>1. \A m \in Messages : Unseen(m) => Unseen(m)'
    BY <1>1 DEF Publish, Unseen
  <2>2. PICK n \in Messages : n = published + 1 /\ ready' = ready \cup {n}
    BY <1>1 DEF Publish
  <2>3. n \notin recorded /\ \A t \in Lanes : held[t] # n
    BY <2>2 DEF SafeInv, Known
  <2>4. Unseen(n)' /\ \A c \in Consumers : n \notin Marked(c) \cup Unmarked(c) /\ n \notin unacked[c]
    BY <1>1, <2>2, <2>3 DEF Publish, Unseen, SafeInv, Known
  <2>5. \A c \in Consumers : Marked(c)' \subseteq Marked(c) /\ Unmarked(c)' \subseteq Unmarked(c)
    BY <1>1, SameSets DEF Publish
  <2>6. UNCHANGED <<redelivered, unacked>>
    BY <1>1 DEF Publish
  <2>7. ASSUME NEW m \in ready' \ redelivered'
        PROVE  Unseen(m)' /\ \A c \in Consumers : m \notin Marked(c)' \cup Unmarked(c)'
    <3>1. CASE m = n
      BY <2>4, <2>5, <3>1
    <3>2. CASE m \in ready \ redelivered
      <4>1. Unseen(m) /\ \A c \in Consumers : m \notin Marked(c) \cup Unmarked(c)
        BY <3>2 DEF FirstPush
      <4> QED BY <2>1, <2>5, <3>2, <4>1
    <3> QED BY <2>2, <2>6, <2>7, <3>1, <3>2
  <2>8. ASSUME NEW c \in Consumers, NEW m \in unacked'[c] \cap Unmarked(c)'
        PROVE  /\ Unseen(m)'
               /\ \A d \in Consumers : m \notin Marked(d)' /\ (m \in Unmarked(d)' => d = c)
    BY <2>1, <2>5, <2>6 DEF FirstPush
  <2> QED BY <2>7, <2>8 DEF FirstPush
<1>2. ASSUME NEW c \in Consumers, SetStop(c), UNCHANGED driverVars PROVE FirstPush'
  BY <1>2, CalmStep, SameSets DEF SetStop
<1>3. ASSUME NEW c \in Consumers, RunnerStop(c), UNCHANGED driverVars PROVE FirstPush'
  BY <1>3, CalmStep, SameSets DEF RunnerStop, Cancel
<1>4. ASSUME NEW c \in Consumers, RunnerFail(c), UNCHANGED driverVars PROVE FirstPush'
  BY <1>4, CalmStep, SameSets DEF RunnerFail, Cancel
<1>5. ASSUME NEW c \in Consumers, DrainTimeout(c), UNCHANGED driverVars PROVE FirstPush'
  BY <1>5, CalmStep, SameSets DEF DrainTimeout, Cancel
<1>6. ASSUME NEW t \in Lanes, CancelLane(t), UNCHANGED driverVars PROVE FirstPush'
  BY <1>6, CalmStep, SameSets DEF CancelLane, EndLane, Goto
<1>7. ASSUME NEW t \in Lanes, SwallowCancel(t), UNCHANGED driverVars PROVE FirstPush'
  BY <1>7, CalmStep, SameSets DEF SwallowCancel
<1>8. ASSUME NEW t \in Lanes, Find(t), UNCHANGED driverVars PROVE FirstPush'
  BY <1>8, CalmStep, SameSets DEF Find, Goto, At
<1>8a. ASSUME NEW t \in Lanes, FindReply(t), UNCHANGED driverVars PROVE FirstPush'
  BY <1>8a, CalmStep, SameSets DEF FindReply, Goto, At
<1>9. ASSUME NEW t \in Lanes, Succeed(t), UNCHANGED driverVars PROVE FirstPush'
  BY <1>9, CalmStep, SameSets DEF Succeed, Goto, At
<1>10. ASSUME NEW t \in Lanes, FailJob(t), UNCHANGED driverVars PROVE FirstPush'
  BY <1>10, CalmStep, SameSets DEF FailJob, Goto, At
<1>11. ASSUME NEW t \in Lanes, DefinitionError(t), UNCHANGED driverVars PROVE FirstPush'
  BY <1>11, CalmStep, SameSets DEF DefinitionError, Raise, EndLane, Goto, At, Fault
<1>12. ASSUME NEW t \in Lanes, Save(t), UNCHANGED driverVars PROVE FirstPush'
  <2>1. \A m \in Messages : Unseen(m) => Unseen(m)'
    BY <1>12 DEF Save, Unseen
  <2>2. \A c \in Consumers : Marked(c)' \subseteq Marked(c) /\ Unmarked(c)' \subseteq Unmarked(c)
    BY <1>12, SameSets
  <2> QED
    BY <1>12, <2>1, <2>2 DEF FirstPush
<1>13. ASSUME NEW t \in Lanes, SaveReply(t), UNCHANGED driverVars PROVE FirstPush'
  BY <1>13, CalmStep, SameSets DEF SaveReply, Goto, At
<1>14. ASSUME NEW t \in Lanes, SaveDuplicate(t), UNCHANGED driverVars PROVE FirstPush'
  BY <1>14, CalmStep, SameSets DEF SaveDuplicate, Goto, At
<1>15. ASSUME NEW t \in Lanes, SaveVanished(t), UNCHANGED driverVars PROVE FirstPush'
  BY <1>15, CalmStep, SameSets DEF SaveVanished, Raise, EndLane, Goto, At
<1>16. ASSUME NEW t \in Lanes, StoreError(t), UNCHANGED driverVars PROVE FirstPush'
  BY <1>16, CalmStep, SameSets DEF StoreError, Raise, EndLane, Goto, At, Fault
<1>17. ASSUME NEW m \in Messages, Forget(m), UNCHANGED driverVars PROVE FirstPush'
  BY <1>17, CalmStep, SameSets DEF Forget, Fault
<1>18. ASSUME NEW t \in Lanes, EnterReceive(t) PROVE FirstPush'
  BY <1>18, CalmStep, SameSets DEF EnterReceive, Goto, At
<1>19. ASSUME NEW t \in Lanes, CancelReceive(t) PROVE FirstPush'
  BY <1>19, CalmStep, SameSets DEF CancelReceive, CancelLane, EndLane, Goto
<1>20. ASSUME NEW t \in Lanes, StreamEnd(t) PROVE FirstPush'
  BY <1>20, CalmStep, SameSets DEF StreamEnd, Raise, EndLane, Goto, At
<1>21. ASSUME NEW t \in Lanes, AckSend(t) PROVE FirstPush'
  BY <1>21, CalmStep, SameSets DEF AckSend, LoopHead, EndLane, Goto, At
<1>22. ASSUME NEW t \in Lanes, AckError(t) PROVE FirstPush'
  BY <1>22, CalmStep, SameSets DEF AckError, Raise, EndLane, Goto, At
<1>23. ASSUME NEW t \in Lanes, NEW d \in Messages \X BOOLEAN, Deliver(t, d) PROVE FirstPush'
  <2>1. PICK n \in Messages :
          /\ held' = [held EXCEPT ![t] = n]
          /\ \A c \in Consumers \ {Home[t]} : Marked(c)' = Marked(c) /\ Unmarked(c)' = Unmarked(c)
          /\ \/ /\ n \in Marked(Home[t]) /\ Marked(Home[t])' = Marked(Home[t]) \ {n}
                /\ Unmarked(Home[t])' = Unmarked(Home[t])
             \/ /\ n \in Unmarked(Home[t]) /\ Unmarked(Home[t])' = Unmarked(Home[t]) \ {n}
                /\ Marked(Home[t])' = Marked(Home[t])
    BY <1>23, DeliverSets
  <2>2. UNCHANGED <<ready, redelivered, unacked, recorded>>
    BY <1>23 DEF Deliver
  <2>3. \A m \in Messages : Unseen(m) /\ m # n => Unseen(m)'
    BY <2>1, <2>2 DEF Unseen
  <2>4. \A c \in Consumers : Marked(c)' \subseteq Marked(c) /\ Unmarked(c)' \subseteq Unmarked(c)
    BY <2>1
  <2>5. n \notin ready \ redelivered
    BY <2>1 DEF FirstPush
  <2>6. ASSUME NEW c \in Consumers, n \in unacked[c], n \in Unmarked(c)' PROVE FALSE
    BY <2>1, <2>6 DEF FirstPush
  <2> QED
    BY <2>2, <2>3, <2>4, <2>5, <2>6 DEF FirstPush
<1>24. ASSUME NEW c \in Consumers, Start(c) PROVE FirstPush'
  BY <1>24, CalmStep, SameSets DEF Start, StartLanes, LoopHead
<1>25. ASSUME NEW c \in Consumers, StartError(c) PROVE FirstPush'
  BY <1>25, CalmStep, SameSets DEF StartError, Fault
<1>26. ASSUME NEW c \in Consumers, Close(c) PROVE FirstPush'
  BY <1>26, CalmStep, SameSets DEF Close, RunnerExit, Requeue
<1>27. ASSUME NEW c \in Consumers, Crash(c) PROVE FirstPush'
  BY <1>27, CalmStep, SameSets DEF Crash, RunnerCrash, Fault
<1>28. ASSUME NEW c \in Consumers, NEW m \in Messages, Push(c, m) PROVE FirstPush'
  <2>1. /\ m \in ready /\ ready' = ready \ {m} /\ redelivered' = redelivered /\ channel[c]
        /\ unacked' = [unacked EXCEPT ![c] = @ \cup {m}]
    BY <1>28 DEF Push
  <2>2. \A n \in Messages : Unseen(n)' <=> Unseen(n)
    BY <1>28 DEF Push, Unseen
  <2>3. \A d \in Consumers : m \notin unacked[d]
    BY <2>1 DEF Places
  <2>4. m \notin Marked(c) \cup Unmarked(c)
    BY <2>1 DEF OwnBuffer
  <2>5. ASSUME NEW n \in Messages, n # m, NEW d \in Consumers
        PROVE  (n \in Marked(d)' <=> n \in Marked(d)) /\ (n \in Unmarked(d)' <=> n \in Unmarked(d))
    BY <1>28, <2>5, PushSets
  <2>6. ASSUME NEW d \in Consumers, m \in unacked'[d], m \in Unmarked(d)'
        PROVE  /\ Unseen(m)
               /\ \A e \in Consumers : m \notin Marked(e)' /\ (m \in Unmarked(e)' => e = d)
    <3>1. d = c
      BY <2>1, <2>3, <2>6
    <3>2. m \notin redelivered /\ Marked(c)' = Marked(c)
      BY <1>28, <2>4, <2>6, <3>1, PushSets
    <3>3. Unseen(m) /\ \A e \in Consumers : m \notin Marked(e) \cup Unmarked(e)
      BY <2>1, <3>2 DEF FirstPush
    <3> QED BY <1>28, <3>1, <3>2, <3>3, PushSets
  <2>7. \A n \in ready' \ redelivered' : n # m /\ n \in ready \ redelivered
    BY <2>1
  <2>8. \A d \in Consumers : \A n \in unacked'[d] : n # m => n \in unacked[d]
    BY <2>1
  <2>9. ASSUME NEW n \in ready' \ redelivered'
        PROVE  Unseen(n)' /\ \A d \in Consumers : n \notin Marked(d)' \cup Unmarked(d)'
    BY <2>2, <2>5, <2>7 DEF FirstPush
  <2>10. ASSUME NEW d \in Consumers, NEW n \in unacked'[d] \cap Unmarked(d)'
         PROVE  /\ Unseen(n)'
                /\ \A e \in Consumers : n \notin Marked(e)' /\ (n \in Unmarked(e)' => e = d)
    <3>1. CASE n = m
      BY <2>2, <2>6, <3>1
    <3>2. CASE n # m
      <4>1. n \in Messages /\ n \in unacked[d] /\ n \in Unmarked(d)
        BY <2>1, <2>5, <2>8, <3>2
      <4> QED BY <2>2, <2>5, <3>2, <4>1 DEF FirstPush
    <3> QED BY <3>1, <3>2
  <2> QED
    BY <2>9, <2>10 DEF FirstPush
<1>29. ASSUME NEW c \in Consumers, NEW m \in Messages, BrokerAck(c, m) PROVE FirstPush'
  BY <1>29, CalmStep, SameSets DEF BrokerAck
<1>30. ASSUME NEW c \in Consumers, Drop(c) PROVE FirstPush'
  BY <1>30, CalmStep, SameSets DEF Drop, Requeue, Fault
<1>31. ASSUME NEW c \in Consumers, Notice(c) PROVE FirstPush'
  BY <1>31, CalmStep, SameSets DEF Notice, Fault
<1>32. CASE UNCHANGED vars
  BY <1>32, CalmStep, SameSets DEF vars
<1> QED
  BY <1>1, <1>2, <1>3, <1>4, <1>5, <1>6, <1>7, <1>8, <1>8a, <1>9, <1>10, <1>11, <1>12, <1>13, <1>14,
     <1>15, <1>16, <1>17, <1>18, <1>19, <1>20, <1>21, <1>22, <1>23, <1>24, <1>25, <1>26, <1>27,
     <1>28, <1>29, <1>30, <1>31, <1>32
  DEF Next, WorkerStep, LaneStep, BrokerStep

(* Types, safety and pushes, in every state.                               *)
LEMMA PushInvariant == Spec => [](TypeInv /\ SafeInv /\ PushInv)
<1>1. Init => PushInv
  <2>1. Init => \A c \in Consumers : Marked(c) = {} /\ Unmarked(c) = {}
    BY DEF Init, Marked, Unmarked
  <2>2. Init => NewEmpty /\ Places
    BY DEF Init, WorkerInit, NewEmpty, LanesOf, Places
  <2>3. Init => OwnBuffer /\ FirstPush
    BY <2>1 DEF Init, OwnBuffer, FirstPush
  <2> QED BY <2>2, <2>3 DEF PushInv
<1> QED
  BY <1>1, SafeInvariant, NewEmptyStep, PlacesStep, OwnBufferStep, FirstPushStep,
     PTL DEF Spec, PushInv

(* The holder of a message decides to run it only while its failure is not *)
(* on record: execute() skips the look-up of an unmarked message, which    *)
(* the broker has pushed to nobody before.                                 *)
THEOREM RabbitFailuresNotRerun == Spec => NoRerunOfRecordedFailure
<1> DEFINE Start1 == \A t \in Lanes :
                       DecidesToRun(t) /\ held'[t] \in unacked[Home[t]]
                         => held'[t] \notin failures
<1>1. Spec => [](TypeInv /\ SafeInv /\ PushInv)
  BY PushInvariant
<1>2. TypeInv /\ SafeInv /\ PushInv /\ [Next]_vars => [Start1]_vars
  <2> SUFFICES ASSUME TypeInv, SafeInv, PushInv, Next,
                      NEW t \in Lanes, DecidesToRun(t), held'[t] \in unacked[Home[t]]
               PROVE  held'[t] \notin failures
    OBVIOUS
  <2> USE DEF TypeInv, TypeOK, WorkerTypeOK, workerVars, driverVars, runnerVars, laneVars,
              storeVars, brokerVars, clientVars, DecidesToRun
  <2>1. CASE Find(t)
    BY <2>1 DEF Find, Goto
  <2>2. ASSUME NEW d \in Messages \X BOOLEAN, Deliver(t, d) PROVE held'[t] \notin failures
    <3>1. held'[t] \in Unmarked(Home[t])
      BY <2>2, DeliverSets
    <3> QED BY <3>1 DEF PushInv, FirstPush, Unseen, SafeInv
  <2>3. ASSUME NEW u \in Lanes, u # t, Find(u) \/ \E d \in Messages \X BOOLEAN : Deliver(u, d)
        PROVE  FALSE
    BY <2>3 DEF Find, Deliver, Goto
  <2>4. CASE Publish
    BY <2>4 DEF Publish
  <2>5. ASSUME NEW c \in Consumers,
               \/ SetStop(c) \/ RunnerStop(c) \/ RunnerFail(c) \/ DrainTimeout(c)
               \/ Start(c) \/ StartError(c) \/ Close(c) \/ Crash(c) \/ Drop(c) \/ Notice(c)
        PROVE  FALSE
    BY <2>5 DEF SetStop, RunnerStop, RunnerFail, DrainTimeout, Start, StartLanes, LoopHead,
                StartError, Close, RunnerExit, Crash, RunnerCrash, Drop, Notice
  <2>6. ASSUME NEW u \in Lanes,
               \/ CancelLane(u) \/ SwallowCancel(u) \/ FindReply(u) \/ Succeed(u) \/ FailJob(u)
               \/ DefinitionError(u) \/ Save(u) \/ SaveReply(u) \/ SaveDuplicate(u)
               \/ SaveVanished(u) \/ StoreError(u)
        PROVE  FALSE
    BY <2>6 DEF CancelLane, SwallowCancel, FindReply, At, Succeed, FailJob, DefinitionError, Save,
                SaveReply, SaveDuplicate, SaveVanished, StoreError, Raise, EndLane, Goto
  <2>7. ASSUME NEW u \in Lanes,
               EnterReceive(u) \/ CancelReceive(u) \/ StreamEnd(u) \/ AckSend(u) \/ AckError(u)
        PROVE  FALSE
    BY <2>7 DEF EnterReceive, CancelReceive, CancelLane, StreamEnd, AckSend, AckError, LoopHead,
                Raise, EndLane, Goto
  <2>8. ASSUME NEW m \in Messages, Forget(m) PROVE FALSE
    BY <2>8 DEF Forget
  <2>9. ASSUME NEW c \in Consumers, NEW m \in Messages, Push(c, m) \/ BrokerAck(c, m) PROVE FALSE
    BY <2>9 DEF Push, BrokerAck
  <2> QED
    BY <2>1, <2>2, <2>3, <2>4, <2>5, <2>6, <2>7, <2>8, <2>9
    DEF Next, WorkerStep, LaneStep, BrokerStep
<1> QED
  BY <1>1, <1>2, PTL DEF Spec, NoRerunOfRecordedFailure

-----------------------------------------------------------------------------
(* Prefetch.  What a worker has in its buffer, in its lanes and in its     *)
(* unexecuted acknowledgements, the broker counts as unacknowledged, and   *)
(* it pushes only up to the number of lanes; when the channel is gone the  *)
(* first two can only move from the buffer to the lanes and end there.     *)

Busy(c)   == {t \in LanesOf(c) : Executing(t)}
Frames(c) == {m \in Messages : <<c, m>> \in flight}

LoadOK(c) ==
  /\ channel[c] => Cardinality(buffer[c]) + Cardinality(Busy(c)) + Cardinality(Frames(c))
                     <= Cardinality(unacked[c])
  /\ Cardinality(unacked[c]) <= Cardinality(LanesOf(c))
  /\ Cardinality(buffer[c]) + Cardinality(Busy(c)) <= Cardinality(LanesOf(c))

LoadInv == \A c \in Consumers : LoadOK(c)

(* The sets that are counted are finite.                                   *)
LEMMA Finite ==
  TypeInv => \A c \in Consumers :
    /\ IsFiniteSet(buffer[c]) /\ IsFiniteSet(Busy(c)) /\ IsFiniteSet(Frames(c))
    /\ IsFiniteSet(unacked[c]) /\ IsFiniteSet(LanesOf(c))
<1> SUFFICES ASSUME TypeInv, NEW c \in Consumers
             PROVE  /\ IsFiniteSet(buffer[c]) /\ IsFiniteSet(Busy(c)) /\ IsFiniteSet(Frames(c))
                    /\ IsFiniteSet(unacked[c]) /\ IsFiniteSet(LanesOf(c))
  OBVIOUS
<1>1. IsFiniteSet(Messages)
  BY FS_Interval
<1>2. BOOLEAN = {TRUE} \cup {FALSE}
  BY Zenon
<1>3. IsFiniteSet(BOOLEAN)
  <2>1. IsFiniteSet({TRUE})
    BY FS_Singleton, Zenon
  <2>2. IsFiniteSet({TRUE} \cup {FALSE})
    BY <2>1, FS_AddElement, Zenon
  <2> QED BY <1>2, <2>2, Zenon
<1>4. IsFiniteSet(Messages \X BOOLEAN)
  BY <1>1, <1>3, FS_Product
<1>5. IsFiniteSet(buffer[c])
  BY <1>4, FS_Subset DEF TypeInv, TypeOK
<1>6. IsFiniteSet(LanesOf(c)) /\ IsFiniteSet(Busy(c))
  BY LanesAssumption, FS_Subset DEF Busy
<1>7. IsFiniteSet(unacked[c]) /\ IsFiniteSet(Frames(c))
  BY <1>1, FS_Subset DEF TypeInv, TypeOK, Frames
<1> QED
  BY <1>5, <1>6, <1>7

(* Adding an element adds at most one.                                     *)
LEMMA CardinalityAdd ==
  ASSUME NEW S, IsFiniteSet(S), NEW x, NEW T, T \subseteq S \cup {x}
  PROVE  Cardinality(T) \in Nat /\ Cardinality(T) <= Cardinality(S) + 1
<1>1. Cardinality(S) \in Nat
  BY FS_CardinalityType
<1>2. IsFiniteSet(S \cup {x}) /\ Cardinality(S \cup {x}) <= Cardinality(S) + 1
  BY <1>1, FS_AddElement
<1>3. IsFiniteSet(T) /\ Cardinality(T) <= Cardinality(S \cup {x})
  BY <1>2, FS_Subset
<1> QED
  BY <1>1, <1>2, <1>3, FS_CardinalityType

(* Removing an element removes one.                                        *)
LEMMA CardinalityRemove ==
  ASSUME NEW S, IsFiniteSet(S), NEW x \in S, NEW T, T \subseteq S \ {x}
  PROVE  Cardinality(T) \in Nat /\ Cardinality(T) + 1 <= Cardinality(S)
<1>1. Cardinality(S) \in Nat
  BY FS_CardinalityType
<1>2. IsFiniteSet(S \ {x}) /\ Cardinality(S \ {x}) = Cardinality(S) - 1
  BY FS_RemoveElement
<1>3. IsFiniteSet(T) /\ Cardinality(T) <= Cardinality(S \ {x})
  BY <1>2, FS_Subset
<1> QED
  BY <1>1, <1>2, <1>3, FS_CardinalityType

(* A step that adds nothing to a worker's load.                            *)
Quiet(c) ==
  /\ buffer'[c] \subseteq buffer[c]
  /\ Busy(c)' \subseteq Busy(c)
  /\ Frames(c)' \subseteq Frames(c)
  /\ \/ unacked'[c] = unacked[c] /\ (channel'[c] => channel[c])
     \/ unacked'[c] = {} /\ ~channel'[c]

(* A step that leaves a channel and its lanes alone keeps their load.      *)
LEMMA QuietStep ==
  TypeInv => \A c \in Consumers : LoadOK(c) /\ Quiet(c) => LoadOK(c)'
<1> SUFFICES ASSUME TypeInv, NEW c \in Consumers, LoadOK(c), Quiet(c) PROVE LoadOK(c)'
  OBVIOUS
<1>1. /\ IsFiniteSet(buffer[c]) /\ IsFiniteSet(Busy(c)) /\ IsFiniteSet(Frames(c))
      /\ IsFiniteSet(unacked[c]) /\ IsFiniteSet(LanesOf(c))
  BY Finite
<1>2. /\ Cardinality(buffer'[c]) <= Cardinality(buffer[c]) /\ Cardinality(buffer'[c]) \in Nat
      /\ Cardinality(Busy(c)') <= Cardinality(Busy(c)) /\ Cardinality(Busy(c)') \in Nat
      /\ Cardinality(Frames(c)') <= Cardinality(Frames(c)) /\ Cardinality(Frames(c)') \in Nat
  BY <1>1, FS_Subset, FS_CardinalityType DEF Quiet
<1>3. /\ Cardinality(buffer[c]) \in Nat /\ Cardinality(Busy(c)) \in Nat
      /\ Cardinality(Frames(c)) \in Nat /\ Cardinality(unacked[c]) \in Nat
      /\ Cardinality(LanesOf(c)) \in Nat
  BY <1>1, FS_CardinalityType
<1>4. Cardinality({}) = 0
  BY FS_EmptySet
<1>5. LanesOf(c)' = LanesOf(c)
  BY DEF LanesOf
<1>6. CASE unacked'[c] = unacked[c] /\ (channel'[c] => channel[c])
  BY <1>2, <1>3, <1>5, <1>6 DEF LoadOK
<1>7. CASE unacked'[c] = {} /\ ~channel'[c]
  BY <1>2, <1>3, <1>4, <1>5, <1>7 DEF LoadOK
<1> QED
  BY <1>6, <1>7 DEF Quiet

(* LoadInv is inductive: what is pushed fits the lanes.                    *)
LEMMA LoadInvStep == TypeInv /\ NewEmpty /\ Places /\ LoadInv /\ [Next]_vars => LoadInv'
<1> SUFFICES ASSUME TypeInv, NewEmpty, Places, LoadInv, [Next]_vars PROVE LoadInv'
  OBVIOUS
<1> USE DEF TypeInv, TypeOK, WorkerTypeOK, LoadInv, workerVars, driverVars, runnerVars, laneVars,
            storeVars, brokerVars, clientVars
<1>1. CASE Publish
  BY <1>1, QuietStep DEF Publish, Quiet, Busy, Frames, Executing
<1>2. ASSUME NEW c \in Consumers, SetStop(c), UNCHANGED driverVars PROVE LoadInv'
  BY <1>2, QuietStep DEF SetStop, Quiet, Busy, Frames, Executing
<1>3. ASSUME NEW c \in Consumers, RunnerStop(c), UNCHANGED driverVars PROVE LoadInv'
  BY <1>3, QuietStep DEF RunnerStop, Cancel, Quiet, Busy, Frames, Executing
<1>4. ASSUME NEW c \in Consumers, RunnerFail(c), UNCHANGED driverVars PROVE LoadInv'
  BY <1>4, QuietStep DEF RunnerFail, Cancel, Quiet, Busy, Frames, Executing
<1>5. ASSUME NEW c \in Consumers, DrainTimeout(c), UNCHANGED driverVars PROVE LoadInv'
  BY <1>5, QuietStep DEF DrainTimeout, Cancel, Quiet, Busy, Frames, Executing
<1>6. ASSUME NEW t \in Lanes, CancelLane(t), UNCHANGED driverVars PROVE LoadInv'
  BY <1>6, QuietStep DEF CancelLane, EndLane, Goto, Quiet, Busy, Frames, Executing, Ended
<1>7. ASSUME NEW t \in Lanes, SwallowCancel(t), UNCHANGED driverVars PROVE LoadInv'
  BY <1>7, QuietStep DEF SwallowCancel, Quiet, Busy, Frames, Executing
<1>8. ASSUME NEW t \in Lanes, Find(t), UNCHANGED driverVars PROVE LoadInv'
  BY <1>8, QuietStep DEF Find, Goto, At, Quiet, Busy, Frames, Executing
<1>8a. ASSUME NEW t \in Lanes, FindReply(t), UNCHANGED driverVars PROVE LoadInv'
  BY <1>8a, QuietStep DEF FindReply, Goto, At, Quiet, Busy, Frames, Executing
<1>9. ASSUME NEW t \in Lanes, Succeed(t), UNCHANGED driverVars PROVE LoadInv'
  BY <1>9, QuietStep DEF Succeed, Goto, At, Quiet, Busy, Frames, Executing
<1>10. ASSUME NEW t \in Lanes, FailJob(t), UNCHANGED driverVars PROVE LoadInv'
  BY <1>10, QuietStep DEF FailJob, Goto, At, Quiet, Busy, Frames, Executing
<1>11. ASSUME NEW t \in Lanes, DefinitionError(t), UNCHANGED driverVars PROVE LoadInv'
  BY <1>11, QuietStep DEF DefinitionError, Raise, EndLane, Goto, At, Fault, Quiet, Busy, Frames,
    Executing
<1>12. ASSUME NEW t \in Lanes, Save(t), UNCHANGED driverVars PROVE LoadInv'
  BY <1>12, QuietStep DEF Save, Goto, At, Quiet, Busy, Frames, Executing
<1>13. ASSUME NEW t \in Lanes, SaveReply(t), UNCHANGED driverVars PROVE LoadInv'
  BY <1>13, QuietStep DEF SaveReply, Goto, At, Quiet, Busy, Frames, Executing
<1>14. ASSUME NEW t \in Lanes, SaveDuplicate(t), UNCHANGED driverVars PROVE LoadInv'
  BY <1>14, QuietStep DEF SaveDuplicate, Goto, At, Quiet, Busy, Frames, Executing
<1>15. ASSUME NEW t \in Lanes, SaveVanished(t), UNCHANGED driverVars PROVE LoadInv'
  BY <1>15, QuietStep DEF SaveVanished, Raise, EndLane, Goto, At, Quiet, Busy, Frames, Executing
<1>16. ASSUME NEW t \in Lanes, StoreError(t), UNCHANGED driverVars PROVE LoadInv'
  BY <1>16, QuietStep DEF StoreError, Raise, EndLane, Goto, At, Fault, Quiet, Busy, Frames,
    Executing
<1>17. ASSUME NEW m \in Messages, Forget(m), UNCHANGED driverVars PROVE LoadInv'
  BY <1>17, QuietStep DEF Forget, Fault, Quiet, Busy, Frames, Executing
<1>18. ASSUME NEW t \in Lanes, EnterReceive(t) PROVE LoadInv'
  BY <1>18, QuietStep DEF EnterReceive, Goto, At, Quiet, Busy, Frames, Executing
<1>19. ASSUME NEW t \in Lanes, CancelReceive(t) PROVE LoadInv'
  BY <1>19, QuietStep DEF CancelReceive, CancelLane, EndLane, Goto, Quiet, Busy, Frames, Executing,
    Ended
<1>20. ASSUME NEW t \in Lanes, StreamEnd(t) PROVE LoadInv'
  BY <1>20, QuietStep DEF StreamEnd, Raise, EndLane, Goto, At, Quiet, Busy, Frames, Executing
<1>21. ASSUME NEW t \in Lanes, AckSend(t) PROVE LoadInv'
  <2> DEFINE c == Home[t]
  <2>1. ASSUME NEW e \in Consumers \ {c} PROVE LoadOK(e)'
    BY <1>21, QuietStep DEF AckSend, LoopHead, EndLane, Goto, LanesOf, Quiet, Busy, Frames,
      Executing
  <2>2. /\ IsFiniteSet(buffer[c]) /\ IsFiniteSet(Busy(c)) /\ IsFiniteSet(Frames(c))
        /\ IsFiniteSet(unacked[c]) /\ IsFiniteSet(LanesOf(c))
    BY Finite
  <2>3. /\ Cardinality(buffer[c]) \in Nat /\ Cardinality(Busy(c)) \in Nat
        /\ Cardinality(Frames(c)) \in Nat /\ Cardinality(unacked[c]) \in Nat
        /\ Cardinality(LanesOf(c)) \in Nat
    BY <2>2, FS_CardinalityType
  <2>4. t \in Busy(c) /\ Busy(c)' \subseteq Busy(c) \ {t} /\ UNCHANGED <<unacked, buffer, channel>>
    BY <1>21 DEF AckSend, LoopHead, EndLane, Goto, At, Busy, LanesOf, Executing
  <2>5. Cardinality(Busy(c)') \in Nat /\ Cardinality(Busy(c)') + 1 <= Cardinality(Busy(c))
    BY <2>2, <2>4, CardinalityRemove
  <2>6. Frames(c)' \subseteq Frames(c) \cup {held[t]}
    BY <1>21 DEF AckSend, Frames
  <2>7. Cardinality(Frames(c)') \in Nat /\ Cardinality(Frames(c)') <= Cardinality(Frames(c)) + 1
    BY <2>2, <2>6, CardinalityAdd
  <2>8. LanesOf(c)' = LanesOf(c)
    BY DEF LanesOf
  <2>9. LoadOK(c)'
    BY <2>3, <2>4, <2>5, <2>7, <2>8 DEF LoadOK
  <2> QED BY <2>1, <2>9
<1>22. ASSUME NEW t \in Lanes, AckError(t) PROVE LoadInv'
  BY <1>22, QuietStep DEF AckError, Raise, EndLane, Goto, At, Quiet, Busy, Frames, Executing
<1>23. ASSUME NEW t \in Lanes, NEW d \in Messages \X BOOLEAN, Deliver(t, d) PROVE LoadInv'
  <2> DEFINE c == Home[t]
  <2>1. ASSUME NEW e \in Consumers \ {c} PROVE LoadOK(e)'
    BY <1>23, QuietStep DEF Deliver, Goto, LanesOf, Quiet, Busy, Frames, Executing
  <2>2. /\ IsFiniteSet(buffer[c]) /\ IsFiniteSet(Busy(c)) /\ IsFiniteSet(Frames(c))
        /\ IsFiniteSet(unacked[c]) /\ IsFiniteSet(LanesOf(c))
    BY Finite
  <2>3. /\ Cardinality(buffer[c]) \in Nat /\ Cardinality(Busy(c)) \in Nat
        /\ Cardinality(Frames(c)) \in Nat /\ Cardinality(unacked[c]) \in Nat
        /\ Cardinality(LanesOf(c)) \in Nat
    BY <2>2, FS_CardinalityType
  <2>4. d \in buffer[c] /\ buffer'[c] = buffer[c] \ {d} /\ UNCHANGED <<unacked, flight, channel>>
    BY <1>23 DEF Deliver
  <2>5. Cardinality(buffer'[c]) \in Nat /\ Cardinality(buffer'[c]) + 1 <= Cardinality(buffer[c])
    BY <2>2, <2>4, CardinalityRemove
  <2>6. Busy(c)' \subseteq Busy(c) \cup {t}
    BY <1>23 DEF Deliver, Goto, Busy, LanesOf, Executing
  <2>7. Cardinality(Busy(c)') \in Nat /\ Cardinality(Busy(c)') <= Cardinality(Busy(c)) + 1
    BY <2>2, <2>6, CardinalityAdd
  <2>8. Frames(c)' = Frames(c) /\ LanesOf(c)' = LanesOf(c)
    BY <2>4 DEF Frames, LanesOf
  <2>9. LoadOK(c)'
    BY <2>3, <2>4, <2>5, <2>7, <2>8 DEF LoadOK
  <2> QED BY <2>1, <2>9
<1>24. ASSUME NEW c \in Consumers, Start(c) PROVE LoadInv'
  <2>1. ASSUME NEW e \in Consumers \ {c} PROVE LoadOK(e)'
    BY <1>24, QuietStep DEF Start, StartLanes, LanesOf, Quiet, Busy, Frames, Executing
  <2>2. /\ IsFiniteSet(buffer[c]) /\ IsFiniteSet(Busy(c)) /\ IsFiniteSet(Frames(c))
        /\ IsFiniteSet(unacked[c]) /\ IsFiniteSet(LanesOf(c))
    BY Finite
  <2>3. /\ Cardinality(buffer[c]) \in Nat /\ Cardinality(Busy(c)) \in Nat
        /\ Cardinality(Frames(c)) \in Nat /\ Cardinality(unacked[c]) \in Nat
        /\ Cardinality(LanesOf(c)) \in Nat
    BY <2>2, FS_CardinalityType
  <2>4. buffer'[c] = {} /\ Busy(c)' = {} /\ Frames(c)' = {} /\ unacked'[c] = unacked[c]
    BY <1>24 DEF Start, StartLanes, LoopHead, NewEmpty, Places, Busy, Executing, LanesOf, Frames
  <2>5. Cardinality({}) = 0 /\ LanesOf(c)' = LanesOf(c)
    BY FS_EmptySet DEF LanesOf
  <2>6. LoadOK(c)'
    BY <2>3, <2>4, <2>5 DEF LoadOK
  <2> QED BY <2>1, <2>6
<1>25. ASSUME NEW c \in Consumers, StartError(c) PROVE LoadInv'
  BY <1>25, QuietStep DEF StartError, Fault, Quiet, Busy, Frames, Executing
<1>26. ASSUME NEW c \in Consumers, Close(c) PROVE LoadInv'
  BY <1>26, QuietStep DEF Close, RunnerExit, Requeue, Quiet, Busy, Frames, Executing, Ended
<1>27. ASSUME NEW c \in Consumers, Crash(c) PROVE LoadInv'
  <2>1. ASSUME NEW d \in Consumers PROVE Quiet(d)
    <3>1. Busy(d)' \subseteq Busy(d)
      BY <1>27 DEF Crash, RunnerCrash, Busy, LanesOf, Executing
    <3>2. buffer'[d] \subseteq buffer[d]
      BY <1>27 DEF Crash
    <3> QED BY <1>27, <3>1, <3>2 DEF Crash, Quiet, Frames
  <2> QED BY <2>1, QuietStep
<1>28. ASSUME NEW c \in Consumers, NEW m \in Messages, Push(c, m) PROVE LoadInv'
  <2>1. ASSUME NEW d \in Consumers \ {c} PROVE LoadOK(d)'
    BY <1>28, QuietStep DEF Push, Quiet, Busy, Frames, Executing
  <2>2. m \notin unacked[c] /\ unacked'[c] = unacked[c] \cup {m} /\ channel[c]
        /\ Cardinality(unacked[c]) < Cardinality(LanesOf(c))
    BY <1>28 DEF Push, Prefetch, Places
  <2>3. /\ IsFiniteSet(buffer[c]) /\ IsFiniteSet(Busy(c)) /\ IsFiniteSet(Frames(c))
        /\ IsFiniteSet(unacked[c]) /\ IsFiniteSet(LanesOf(c))
    BY Finite
  <2>4. /\ Cardinality(buffer[c]) \in Nat /\ Cardinality(Busy(c)) \in Nat
        /\ Cardinality(Frames(c)) \in Nat /\ Cardinality(unacked[c]) \in Nat
        /\ Cardinality(LanesOf(c)) \in Nat
    BY <2>3, FS_CardinalityType
  <2>5. Cardinality(unacked'[c]) = Cardinality(unacked[c]) + 1
    BY <2>2, <2>3, FS_AddElement
  <2>6. PICK p : buffer'[c] \subseteq buffer[c] \cup {p}
    <3>1. PICK p : buffer' = [buffer EXCEPT ![c] = @ \cup {p}]
      BY <1>28, PushFlag
    <3> QED BY <3>1
  <2>7. Cardinality(buffer'[c]) \in Nat /\ Cardinality(buffer'[c]) <= Cardinality(buffer[c]) + 1
    BY <2>3, <2>6, CardinalityAdd
  <2>8. Busy(c)' = Busy(c) /\ Frames(c)' = Frames(c) /\ LanesOf(c)' = LanesOf(c)
    BY <1>28 DEF Push, Busy, Executing, Frames, LanesOf
  <2>9. LoadOK(c)'
    BY <2>2, <2>4, <2>5, <2>7, <2>8 DEF LoadOK
  <2> QED BY <2>1, <2>9
<1>29. ASSUME NEW c \in Consumers, NEW m \in Messages, BrokerAck(c, m) PROVE LoadInv'
  <2>1. ASSUME NEW e \in Consumers \ {c} PROVE LoadOK(e)'
    BY <1>29, QuietStep DEF BrokerAck, Quiet, Busy, Frames, Executing
  <2>2. /\ IsFiniteSet(buffer[c]) /\ IsFiniteSet(Busy(c)) /\ IsFiniteSet(Frames(c))
        /\ IsFiniteSet(unacked[c]) /\ IsFiniteSet(LanesOf(c))
    BY Finite
  <2>3. /\ Cardinality(buffer[c]) \in Nat /\ Cardinality(Busy(c)) \in Nat
        /\ Cardinality(Frames(c)) \in Nat /\ Cardinality(unacked[c]) \in Nat
        /\ Cardinality(LanesOf(c)) \in Nat
    BY <2>2, FS_CardinalityType
  <2>4. /\ m \in Frames(c) /\ Frames(c)' = Frames(c) \ {m}
        /\ unacked'[c] = unacked[c] \ {m} /\ channel[c] /\ UNCHANGED <<buffer, channel>>
    BY <1>29 DEF BrokerAck, Frames
  <2>5. Cardinality(Frames(c)') \in Nat /\ Cardinality(Frames(c)') + 1 <= Cardinality(Frames(c))
    BY <2>2, <2>4, CardinalityRemove
  <2>6. /\ Cardinality(unacked'[c]) \in Nat /\ Cardinality(unacked'[c]) <= Cardinality(unacked[c])
        /\ Cardinality(unacked'[c]) >= Cardinality(unacked[c]) - 1
    <3>1. Cardinality(unacked[c] \ {m})
            = IF m \in unacked[c] THEN Cardinality(unacked[c]) - 1 ELSE Cardinality(unacked[c])
      BY <2>2, FS_RemoveElement
    <3>2. IsFiniteSet(unacked[c] \ {m})
      BY <2>2, FS_RemoveElement
    <3>3. Cardinality(unacked[c] \ {m}) \in Nat
      BY <3>2, FS_CardinalityType
    <3> QED BY <2>3, <2>4, <3>1, <3>3
  <2>7. Busy(c)' = Busy(c) /\ LanesOf(c)' = LanesOf(c)
    BY <1>29 DEF BrokerAck, Busy, Executing, LanesOf
  <2>8. LoadOK(c)'
    BY <2>3, <2>4, <2>5, <2>6, <2>7 DEF LoadOK
  <2> QED BY <2>1, <2>8
<1>30. ASSUME NEW c \in Consumers, Drop(c) PROVE LoadInv'
  BY <1>30, QuietStep DEF Drop, Requeue, Fault, Quiet, Busy, Frames, Executing
<1>31. ASSUME NEW c \in Consumers, Notice(c) PROVE LoadInv'
  BY <1>31, QuietStep DEF Notice, Fault, Quiet, Busy, Frames, Executing
<1>32. CASE UNCHANGED vars
  BY <1>32, QuietStep DEF vars, Quiet, Busy, Frames, Executing
<1> QED
  BY <1>1, <1>2, <1>3, <1>4, <1>5, <1>6, <1>7, <1>8, <1>8a, <1>9, <1>10, <1>11, <1>12, <1>13, <1>14,
     <1>15, <1>16, <1>17, <1>18, <1>19, <1>20, <1>21, <1>22, <1>23, <1>24, <1>25, <1>26, <1>27,
     <1>28, <1>29, <1>30, <1>31, <1>32
  DEF Next, WorkerStep, LaneStep, BrokerStep

(* A buffered message never waits behind the busy lanes of its worker: for *)
(* any number of lanes, what a running worker has buffered does not exceed *)
(* its idle lanes, so the prefetch keeps nothing from the other workers.   *)
THEOREM BuffersHaveIdleLanes == Spec => []NoneHeldBack
<1>1. Init => LoadInv
  <2> SUFFICES ASSUME Init, NEW c \in Consumers PROVE LoadOK(c)
    BY DEF LoadInv
  <2>1. ~channel[c] /\ buffer[c] = {} /\ Busy(c) = {} /\ unacked[c] = {}
    BY DEF Init, WorkerInit, Busy, LanesOf, Executing
  <2>2. Cardinality({}) = 0 /\ Cardinality(LanesOf(c)) \in Nat
    BY FS_EmptySet, FS_CardinalityType, LanesAssumption
  <2> QED BY <2>1, <2>2 DEF LoadOK
<1>2. Spec => [](TypeInv /\ SafeInv /\ PushInv)
  BY PushInvariant
<1>3. TypeInv /\ LoadInv => NoneHeldBack
  <2> SUFFICES ASSUME TypeInv, LoadInv, NEW c \in Consumers
               PROVE  Cardinality(buffer[c]) <= Cardinality({t \in LanesOf(c) : ~Executing(t)})
    BY DEF NoneHeldBack
  <2> DEFINE Idle == {t \in LanesOf(c) : ~Executing(t)}
  <2>1. IsFiniteSet(buffer[c]) /\ IsFiniteSet(Busy(c)) /\ IsFiniteSet(LanesOf(c))
    BY Finite
  <2>2. IsFiniteSet(Idle)
    BY <2>1, FS_Subset
  <2>3. LanesOf(c) = Busy(c) \cup Idle /\ Busy(c) \cap Idle = {}
    BY DEF Busy
  <2>4. Cardinality(LanesOf(c)) = Cardinality(Busy(c)) + Cardinality(Idle) - Cardinality({})
    BY <2>1, <2>2, <2>3, FS_Union
  <2>5. /\ Cardinality(buffer[c]) \in Nat /\ Cardinality(Busy(c)) \in Nat
        /\ Cardinality(Idle) \in Nat /\ Cardinality({}) = 0
    BY <2>1, <2>2, FS_CardinalityType, FS_EmptySet
  <2>6. Cardinality(buffer[c]) + Cardinality(Busy(c)) <= Cardinality(LanesOf(c))
    BY DEF LoadInv, LoadOK
  <2> HIDE DEF Idle
  <2>7. Cardinality(buffer[c]) <= Cardinality(Idle)
    BY <2>4, <2>5, <2>6
  <2> QED BY <2>7 DEF Idle
<1> QED
  BY <1>1, <1>2, <1>3, LoadInvStep, PTL DEF Spec, PushInv
=============================================================================
