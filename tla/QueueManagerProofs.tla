------------------------- MODULE QueueManagerProofs -------------------------
(***************************************************************************)
(* Theorems about the queue manager and its lazily created backends, for   *)
(* any number of tasks, handles and backends.                              *)
(***************************************************************************)
EXTENDS QueueManager, TLAPS

Holding == {"creating", "releasing"}            \* a task with a handle's lock
Emptying == {"handles", "close", "releasing"}   \* aclose(), past the consumers
AclosePcs == Emptying \cup {"consumers"}

(* A handle's lock is held by one task, which finds the handle empty while *)
(* it awaits the factory and full while it awaits the closer.              *)
LockInv ==
  /\ \A t, u \in Tasks : t # u /\ pc[t] \in Holding /\ pc[u] \in Holding => on[t] # on[u]
  /\ \A t \in Tasks : pc[t] = "creating" => value[on[t]] = 0
  /\ \A t \in Tasks : pc[t] = "releasing" => value[on[t]] # 0

TypeInv == TypeOK /\ LockInv

(* What a handle refers to exists and is in no other handle.               *)
References ==
  /\ released \subseteq 1..made
  /\ \A h \in Handles : value[h] \in 0..made /\ value[h] \notin released
  /\ \A g, h \in Handles : g # h /\ value[g] = value[h] => value[g] = 0

(* aclose() has closed the entry and sealed every handle.                  *)
Sealing ==
  /\ closed => \A h \in Handles : sealed[h]
  /\ \A t \in Tasks : pc[t] \in AclosePcs => closed
  /\ clean \/ released # {} => closed

(* Nobody is creating a backend in a handle aclose() has been through.     *)
Emptied ==
  \A t, u \in Tasks :
    pc[t] \in Emptying /\ pc[u] = "creating" =>
      on[u] \in left[t] \/ (pc[t] = "close" /\ on[u] = on[t])

(* Once empty, the handles stay empty.                                     *)
StayEmpty ==
  clean => /\ \A h \in Handles : value[h] = 0
           /\ \A t \in Tasks : pc[t] # "creating"

HandleInv == References /\ Sealing /\ Emptied /\ StayEmpty /\ NoLeakedBackend

(* A "consume" block with a working consumer.                              *)
Working(t) == pc[t] = "yielded" /\ t \in open \ broken

(* aclose() finds every such consumer in its list, and none is left when   *)
(* it goes on to the handles.                                              *)
ConsumerInv ==
  /\ \A t \in Tasks : Working(t) => t \in consumers
  /\ \A t, u \in Tasks : pc[u] = "consumers" /\ Working(t) => t \in todo[u]
  /\ \A t, u \in Tasks : pc[u] \in Emptying => ~Working(t)
  /\ \A t \in Tasks : released # {} => ~Working(t)

USE MaxMadeAssumption DEF Holding, Emptying, AclosePcs, LazyPcs, Pcs

-----------------------------------------------------------------------------
(* Everything holds of a manager that has created nothing.                 *)
LEMMA InitInv == Init => TypeInv /\ HandleInv /\ ConsumerInv
<1> SUFFICES ASSUME Init PROVE TypeInv /\ HandleInv /\ ConsumerInv
  OBVIOUS
<1> USE DEF Init, LazyInit
<1>1. TypeInv
  <2>1. LazyTypeOK
    BY DEF LazyTypeOK
  <2>2. /\ pc \in [Tasks -> Pcs] /\ using \in [Tasks -> 0..MaxMade]
        /\ todo \in [Tasks -> SUBSET Tasks] /\ left \in [Tasks -> SUBSET Handles]
    OBVIOUS
  <2>3. LockInv
    BY DEF LockInv
  <2> QED
    BY <2>1, <2>2, <2>3 DEF TypeInv, TypeOK
<1>2. HandleInv
  BY DEF HandleInv, References, Sealing, Emptied, StayEmpty, NoLeakedBackend
<1>3. ConsumerInv
  BY DEF ConsumerInv, Working
<1> QED
  BY <1>1, <1>2, <1>3

(* No step breaks the types or has two holders of a lock.                  *)
LEMMA TypeInvStep == TypeInv /\ [Next]_vars => TypeInv'
<1> SUFFICES ASSUME TypeInv, [Next]_vars PROVE TypeInv'
  OBVIOUS
<1> USE DEF TypeInv, TypeOK, LazyTypeOK, LockInv, managerVars, lazyVars
<1>1. ASSUME NEW t \in Tasks, NEW h \in Handles, Consume(t, h) PROVE TypeInv'
  BY <1>1 DEF Consume, At, Goto
<1>2. ASSUME NEW t \in Tasks, GetMiss(t), UNCHANGED managerVars PROVE TypeInv'
  BY <1>2 DEF GetMiss, At, Goto, LockFree
<1>3. ASSUME NEW t \in Tasks, GetBackend(t) PROVE TypeInv'
  <2>1. CASE GetHit(t, "subscribe") /\ using' = [using EXCEPT ![t] = value[on[t]]]
    BY <1>3, <2>1 DEF GetBackend, At, Goto, GetHit
  <2>2. CASE GetCreated(t, "subscribe") /\ using' = [using EXCEPT ![t] = made + 1]
    BY <1>3, <2>2 DEF GetBackend, At, Goto, GetCreated, AfterCreate
  <2> QED
    BY <1>3, <2>1, <2>2 DEF GetBackend
<1>4. ASSUME NEW t \in Tasks, GetRaises(t) PROVE TypeInv'
  <2>1. CASE GetSealed(t)
    BY <1>4, <2>1 DEF GetRaises, At, Goto, GetSealed
  <2>2. CASE GetFailed(t)
    BY <1>4, <2>2 DEF GetRaises, At, Goto, GetFailed
  <2> QED
    BY <1>4, <2>1, <2>2 DEF GetRaises
<1>5. ASSUME NEW t \in Tasks, Yield(t) PROVE TypeInv'
  BY <1>5 DEF Yield, At, Goto
<1>6. ASSUME NEW t \in Tasks, Discard(t) PROVE TypeInv'
  BY <1>6 DEF Discard, At, Goto
<1>7. ASSUME NEW t \in Tasks, SubscribeFails(t) PROVE TypeInv'
  BY <1>7 DEF SubscribeFails, At, Goto
<1>8. ASSUME NEW t \in Tasks, EndBlock(t) PROVE TypeInv'
  BY <1>8 DEF EndBlock, At, Goto
<1>9. ASSUME NEW t \in Tasks, ConsumerClosed(t) PROVE TypeInv'
  BY <1>9 DEF ConsumerClosed, At, Goto
<1>10. ASSUME NEW t \in Tasks, Aclose(t) PROVE TypeInv'
  BY <1>10 DEF Aclose, At, Goto, BeginClose
<1>11. ASSUME NEW t \in Tasks, NEW c \in Tasks, AcloseConsumer(t, c) PROVE TypeInv'
  BY <1>11 DEF AcloseConsumer, At, Goto
<1>12. ASSUME NEW t \in Tasks, AcloseConsumersDone(t) PROVE TypeInv'
  BY <1>12 DEF AcloseConsumersDone, At, Goto
<1>13. ASSUME NEW t \in Tasks, NEW h \in Handles, AcloseNext(t, h) PROVE TypeInv'
  BY <1>13 DEF AcloseNext, At, Goto
<1>14. ASSUME NEW t \in Tasks, AcloseHandle(t) PROVE TypeInv'
  <2>1. CASE CloseNothing(t, "handles")
    BY <1>14, <2>1 DEF AcloseHandle, At, Goto, CloseNothing
  <2>2. CASE CloseLock(t)
    BY <1>14, <2>2 DEF AcloseHandle, At, Goto, CloseLock, LockFree
  <2>3. CASE Released(t, "handles")
    <3>1. value[on[t]] \in 1..MaxMade
      BY <2>3 DEF Released, At
    <3>2. TypeOK'
      <4>1. released' \in SUBSET (1..MaxMade)
        BY <2>3, <3>1 DEF Released
      <4>2. value' \in [Handles -> 0..MaxMade]
        BY <2>3 DEF Released
      <4> QED
        BY <1>14, <2>3, <4>1, <4>2 DEF AcloseHandle, Goto, Released
    <3>3. LockInv'
      BY <1>14, <2>3, <3>1 DEF AcloseHandle, At, Goto, Released
    <3> QED
      BY <3>2, <3>3
  <2>4. CASE ReleaseFailed(t, "handles")
    BY <1>14, <2>4 DEF AcloseHandle, At, Goto, ReleaseFailed
  <2> QED
    BY <1>14, <2>1, <2>2, <2>3, <2>4 DEF AcloseHandle
<1>15. ASSUME NEW t \in Tasks, AcloseReturn(t) PROVE TypeInv'
  BY <1>15 DEF AcloseReturn, At, Goto
<1>16. CASE UNCHANGED vars
  BY <1>16 DEF vars
<1> QED
  BY <1>1, <1>2, <1>3, <1>4, <1>5, <1>6, <1>7, <1>8, <1>9, <1>10, <1>11, <1>12,
     <1>13, <1>14, <1>15, <1>16 DEF Next, TaskStep

(* No step leaves a backend outside the handles.                           *)
LEMMA HandleInvStep == TypeInv /\ HandleInv /\ [Next]_vars => HandleInv'
<1> SUFFICES ASSUME TypeInv, HandleInv, [Next]_vars PROVE HandleInv'
  OBVIOUS
<1> USE DEF TypeInv, TypeOK, LazyTypeOK, LockInv, managerVars, lazyVars,
            HandleInv, References, Sealing, Emptied, StayEmpty, NoLeakedBackend
<1>1. ASSUME NEW t \in Tasks, NEW h \in Handles, Consume(t, h) PROVE HandleInv'
  BY <1>1 DEF Consume, At, Goto
<1>2. ASSUME NEW t \in Tasks, GetMiss(t), UNCHANGED managerVars PROVE HandleInv'
  BY <1>2 DEF GetMiss, At, Goto, LockFree
<1>3. ASSUME NEW t \in Tasks, GetBackend(t) PROVE HandleInv'
  <2>1. References'
    <3>1. CASE GetHit(t, "subscribe") /\ using' = [using EXCEPT ![t] = value[on[t]]]
      BY <1>3, <3>1 DEF GetBackend, At, Goto, GetHit
    <3>2. CASE GetCreated(t, "subscribe") /\ using' = [using EXCEPT ![t] = made + 1]
      BY <1>3, <3>2 DEF GetBackend, At, Goto, GetCreated, AfterCreate
    <3> QED
      BY <1>3, <3>1, <3>2 DEF GetBackend
  <2>2. Sealing'
    BY <1>3 DEF GetBackend, At, Goto, GetHit, GetCreated, AfterCreate, LockFree
  <2>3. Emptied'
    BY <1>3 DEF GetBackend, At, Goto, GetHit, GetCreated, AfterCreate, LockFree
  <2>4. StayEmpty'
    BY <1>3 DEF GetBackend, At, Goto, GetHit, GetCreated, AfterCreate, LockFree
  <2>5. NoLeakedBackend'
    BY <1>3 DEF GetBackend, At, Goto, GetHit, GetCreated, AfterCreate, LockFree
  <2> QED
    BY <2>1, <2>2, <2>3, <2>4, <2>5
<1>4. ASSUME NEW t \in Tasks, GetRaises(t) PROVE HandleInv'
  <2>1. References'
    <3>1. CASE GetSealed(t)
      BY <1>4, <3>1 DEF GetRaises, At, Goto, GetSealed
    <3>2. CASE GetFailed(t)
      BY <1>4, <3>2 DEF GetRaises, At, Goto, GetFailed
    <3> QED
      BY <1>4, <3>1, <3>2 DEF GetRaises
  <2>2. Sealing'
    BY <1>4 DEF GetRaises, At, Goto, GetSealed, GetFailed
  <2>3. Emptied'
    BY <1>4 DEF GetRaises, At, Goto, GetSealed, GetFailed
  <2>4. StayEmpty'
    BY <1>4 DEF GetRaises, At, Goto, GetSealed, GetFailed
  <2>5. NoLeakedBackend'
    BY <1>4 DEF GetRaises, At, Goto, GetSealed, GetFailed
  <2> QED
    BY <2>1, <2>2, <2>3, <2>4, <2>5
<1>5. ASSUME NEW t \in Tasks, Yield(t) PROVE HandleInv'
  BY <1>5 DEF Yield, At, Goto
<1>6. ASSUME NEW t \in Tasks, Discard(t) PROVE HandleInv'
  BY <1>6 DEF Discard, At, Goto
<1>7. ASSUME NEW t \in Tasks, SubscribeFails(t) PROVE HandleInv'
  BY <1>7 DEF SubscribeFails, At, Goto
<1>8. ASSUME NEW t \in Tasks, EndBlock(t) PROVE HandleInv'
  BY <1>8 DEF EndBlock, At, Goto
<1>9. ASSUME NEW t \in Tasks, ConsumerClosed(t) PROVE HandleInv'
  BY <1>9 DEF ConsumerClosed, At, Goto
<1>10. ASSUME NEW t \in Tasks, Aclose(t) PROVE HandleInv'
  <2>1. References'
    BY <1>10 DEF Aclose, At, Goto, BeginClose
  <2>2. Sealing'
    BY <1>10 DEF Aclose, At, Goto, BeginClose
  <2>3. Emptied'
    BY <1>10 DEF Aclose, At, Goto, BeginClose
  <2>4. StayEmpty'
    BY <1>10 DEF Aclose, At, Goto, BeginClose
  <2>5. NoLeakedBackend'
    BY <1>10 DEF Aclose, At, Goto, BeginClose
  <2> QED
    BY <2>1, <2>2, <2>3, <2>4, <2>5
<1>11. ASSUME NEW t \in Tasks, NEW c \in Tasks, AcloseConsumer(t, c) PROVE HandleInv'
  BY <1>11 DEF AcloseConsumer, At, Goto
<1>12. ASSUME NEW t \in Tasks, AcloseConsumersDone(t) PROVE HandleInv'
  BY <1>12 DEF AcloseConsumersDone, At, Goto
<1>13. ASSUME NEW t \in Tasks, NEW h \in Handles, AcloseNext(t, h) PROVE HandleInv'
  BY <1>13 DEF AcloseNext, At, Goto
<1>14. ASSUME NEW t \in Tasks, AcloseHandle(t) PROVE HandleInv'
  <2>1. References'
    <3>1. CASE CloseNothing(t, "handles")
      BY <1>14, <3>1 DEF AcloseHandle, At, Goto, CloseNothing
    <3>2. CASE CloseLock(t)
      BY <1>14, <3>2 DEF AcloseHandle, At, Goto, CloseLock, LockFree
    <3>3. CASE Released(t, "handles")
      <4>1. value[on[t]] \in 1..made /\ released' = released \cup {value[on[t]]}
        BY <3>3 DEF Released, At
      <4>2. value' = [value EXCEPT ![on[t]] = 0] /\ made' = made /\ on[t] \in Handles
        BY <3>3 DEF Released
      <4>3. released' \subseteq 1..made'
        BY <4>1, <4>2
      <4>4. ASSUME NEW h \in Handles
           PROVE  value'[h] \in 0..made' /\ value'[h] \notin released'
        <5>1. CASE h = on[t]
          BY <4>1, <4>2, <5>1
        <5>2. CASE h # on[t]
          BY <4>1, <4>2, <5>2
        <5> QED
          BY <5>1, <5>2
      <4>5. ASSUME NEW g \in Handles, NEW h \in Handles, g # h, value'[g] = value'[h]
           PROVE  value'[g] = 0
        BY <4>2, <4>5
      <4> QED
        BY <4>3, <4>4, <4>5
    <3>4. CASE ReleaseFailed(t, "handles")
      BY <1>14, <3>4 DEF AcloseHandle, At, Goto, ReleaseFailed
    <3> QED
      BY <1>14, <3>1, <3>2, <3>3, <3>4 DEF AcloseHandle
  <2>2. Sealing'
    BY <1>14 DEF AcloseHandle, At, Goto, CloseNothing, CloseLock, Released, ReleaseFailed, LockFree
  <2>3. Emptied'
    BY <1>14 DEF AcloseHandle, At, Goto, CloseNothing, CloseLock, Released, ReleaseFailed, LockFree
  <2>4. StayEmpty'
    BY <1>14 DEF AcloseHandle, At, Goto, CloseNothing, CloseLock, Released, ReleaseFailed, LockFree
  <2>5. NoLeakedBackend'
    BY <1>14 DEF AcloseHandle, At, Goto, CloseNothing, CloseLock, Released, ReleaseFailed, LockFree
  <2> QED
    BY <2>1, <2>2, <2>3, <2>4, <2>5
<1>15. ASSUME NEW t \in Tasks, AcloseReturn(t) PROVE HandleInv'
  <2>1. References'
    BY <1>15 DEF AcloseReturn, At, Goto
  <2>2. Sealing'
    BY <1>15 DEF AcloseReturn, At, Goto
  <2>3. Emptied'
    BY <1>15 DEF AcloseReturn, At, Goto
  <2>4. StayEmpty'
    BY <1>15 DEF AcloseReturn, At, Goto
  <2>5. NoLeakedBackend'
    BY <1>15 DEF AcloseReturn, At, Goto
  <2> QED
    BY <2>1, <2>2, <2>3, <2>4, <2>5
<1>16. CASE UNCHANGED vars
  BY <1>16 DEF vars
<1> QED
  BY <1>1, <1>2, <1>3, <1>4, <1>5, <1>6, <1>7, <1>8, <1>9, <1>10, <1>11, <1>12,
     <1>13, <1>14, <1>15, <1>16 DEF Next, TaskStep

(* No step leaves a working consumer off the list.                         *)
LEMMA ConsumerInvStep == TypeInv /\ Sealing /\ ConsumerInv /\ [Next]_vars => ConsumerInv'
<1> SUFFICES ASSUME TypeInv, Sealing, ConsumerInv, [Next]_vars PROVE ConsumerInv'
  OBVIOUS
<1> USE DEF TypeInv, TypeOK, LazyTypeOK, managerVars, lazyVars, Sealing, ConsumerInv, Working
<1>1. ASSUME NEW t \in Tasks, NEW h \in Handles, Consume(t, h) PROVE ConsumerInv'
  BY <1>1 DEF Consume, At, Goto
<1>2. ASSUME NEW t \in Tasks, GetMiss(t), UNCHANGED managerVars PROVE ConsumerInv'
  BY <1>2 DEF GetMiss, At, Goto, LockFree
<1>3. ASSUME NEW t \in Tasks, GetBackend(t) PROVE ConsumerInv'
  BY <1>3 DEF GetBackend, At, Goto, GetHit, GetCreated, AfterCreate, LockFree
<1>4. ASSUME NEW t \in Tasks, GetRaises(t) PROVE ConsumerInv'
  BY <1>4 DEF GetRaises, At, Goto, GetSealed, GetFailed
<1>5. ASSUME NEW t \in Tasks, Yield(t) PROVE ConsumerInv'
  BY <1>5 DEF Yield, At, Goto
<1>6. ASSUME NEW t \in Tasks, Discard(t) PROVE ConsumerInv'
  BY <1>6 DEF Discard, At, Goto
<1>7. ASSUME NEW t \in Tasks, SubscribeFails(t) PROVE ConsumerInv'
  BY <1>7 DEF SubscribeFails, At, Goto
<1>8. ASSUME NEW t \in Tasks, EndBlock(t) PROVE ConsumerInv'
  BY <1>8 DEF EndBlock, At, Goto
<1>9. ASSUME NEW t \in Tasks, ConsumerClosed(t) PROVE ConsumerInv'
  BY <1>9 DEF ConsumerClosed, At, Goto
<1>10. ASSUME NEW t \in Tasks, Aclose(t) PROVE ConsumerInv'
  BY <1>10 DEF Aclose, At, Goto, BeginClose
<1>11. ASSUME NEW t \in Tasks, NEW c \in Tasks, AcloseConsumer(t, c) PROVE ConsumerInv'
  BY <1>11 DEF AcloseConsumer, At, Goto
<1>12. ASSUME NEW t \in Tasks, AcloseConsumersDone(t) PROVE ConsumerInv'
  BY <1>12 DEF AcloseConsumersDone, At, Goto
<1>13. ASSUME NEW t \in Tasks, NEW h \in Handles, AcloseNext(t, h) PROVE ConsumerInv'
  BY <1>13 DEF AcloseNext, At, Goto
<1>14. ASSUME NEW t \in Tasks, AcloseHandle(t) PROVE ConsumerInv'
  BY <1>14 DEF AcloseHandle, At, Goto, CloseNothing, CloseLock, Released, ReleaseFailed, LockFree
<1>15. ASSUME NEW t \in Tasks, AcloseReturn(t) PROVE ConsumerInv'
  BY <1>15 DEF AcloseReturn, At, Goto
<1>16. CASE UNCHANGED vars
  BY <1>16 DEF vars
<1> QED
  BY <1>1, <1>2, <1>3, <1>4, <1>5, <1>6, <1>7, <1>8, <1>9, <1>10, <1>11, <1>12,
     <1>13, <1>14, <1>15, <1>16 DEF Next, TaskStep

-----------------------------------------------------------------------------
(* Theorems.                                                               *)

(* All three, in every state.                                              *)
LEMMA ManagerInvariant == Spec => []TypeInv /\ []HandleInv /\ []ConsumerInv
<1>1. Spec => []TypeInv
  BY InitInv, TypeInvStep, PTL DEF Spec
<1>2. Spec => []HandleInv
  BY <1>1, InitInv, HandleInvStep, PTL DEF Spec
<1>3. HandleInv => Sealing
  BY DEF HandleInv
<1>4. Spec => []ConsumerInv
  BY <1>1, <1>2, <1>3, InitInv, ConsumerInvStep, PTL DEF Spec
<1> QED
  BY <1>1, <1>2, <1>4, PTL

(* Every variable keeps its type; in particular a handle is never asked to *)
(* close a resource it does not have.                                      *)
THEOREM ManagerTypeCorrect == Spec => []TypeOK
BY ManagerInvariant, PTL DEF TypeInv

(* No backend leaks: what was created is released or still in its handle,  *)
(* whatever getters and closers run at once and whatever closing fails.    *)
THEOREM BackendsNotLeaked == Spec => []NoLeakedBackend
BY ManagerInvariant, PTL DEF HandleInv

(* After an aclose() that left no handle full there is no backend and      *)
(* there will be none.                                                     *)
THEOREM StaysClosed == Spec => []ClosedForGood
<1>1. TypeInv /\ HandleInv => ClosedForGood
  <2> SUFFICES ASSUME TypeInv, HandleInv, clean PROVE released = 1..made
    BY DEF ClosedForGood, HandleInv, StayEmpty
  <2>1. \A i \in (1..made) \ released : FALSE
    BY DEF TypeInv, TypeOK, LazyTypeOK, HandleInv, StayEmpty, NoLeakedBackend
  <2>2. released \subseteq 1..made
    BY DEF HandleInv, References
  <2> QED
    BY <2>1, <2>2
<1> QED
  BY <1>1, ManagerInvariant, PTL

(* A block never has a working consumer on a released backend.             *)
THEOREM BlocksKeepBackends == Spec => []BlockHasItsBackend
<1>1. ConsumerInv => BlockHasItsBackend
  BY DEF ConsumerInv, Working, BlockHasItsBackend, At
<1> QED
  BY <1>1, ManagerInvariant, PTL

(* No backend is handed out once aclose() has begun.                       *)
THEOREM NoEscape == Spec => NothingEscapes
<1>1. TypeInv /\ HandleInv /\ [Next]_vars =>
        [\A t \in Tasks : pc[t] # "subscribe" /\ pc'[t] = "subscribe" => ~closed]_vars
  BY DEF TypeInv, TypeOK, LazyTypeOK, HandleInv, Sealing, vars, Next, TaskStep, At, Goto,
         Consume, GetMiss, GetBackend, GetHit, GetCreated, AfterCreate, GetRaises, GetSealed,
         GetFailed, Yield, Discard, SubscribeFails, EndBlock, ConsumerClosed, Aclose,
         AcloseConsumer, AcloseConsumersDone, AcloseNext, AcloseHandle, CloseNothing,
         CloseLock, Released, ReleaseFailed, AcloseReturn
<1> QED
  BY <1>1, ManagerInvariant, PTL DEF Spec, NothingEscapes
=============================================================================
