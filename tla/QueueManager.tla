---------------------------- MODULE QueueManager ----------------------------
(***************************************************************************)
(* QueueManager (infrastructure/queue/manager.py): named backends behind   *)
(* AsyncLazy handles, consumers registered for the time of a "consume"     *)
(* block, and aclose(), which may start while other tasks are anywhere in  *)
(* consume() and may be called again after a failure.                      *)
(*                                                                         *)
(* A task has at most one consumer, which therefore goes by its name; a    *)
(* task whose consumer could not be closed is not used for another one.    *)
(***************************************************************************)
EXTENDS AsyncLazy

VARIABLES
  closed,      \* QueueManager._closed
  consumers,   \* QueueManager._consumers
  open,        \* consumers that exist and are not closed
  broken,      \* consumers whose aclose() raised
  using,       \* using[t]: the backend of t's consume(), 0 for none
  todo,        \* todo[t]: consumers aclose() of t has yet to close
  left,        \* left[t]: handles aclose() of t has yet to close
  clean        \* history: a call of aclose() has ended with no handle full

managerVars == <<closed, consumers, open, broken, using, todo, left, clean>>
vars == <<lazyVars, pc, on, managerVars>>

(* Beside AsyncLazy's:                                                     *)
(*   subscribe  consume(): awaiting backend.consumer()                     *)
(*   yielded    consume(): the block is running                            *)
(*   leaving    consume(): awaiting consumer.aclose() in its "finally"     *)
(*   discard    consume(): closed meanwhile, awaiting consumer.aclose()    *)
(*   consumers  aclose(): awaiting aclose() of the consumers in turn       *)
(*   handles    aclose(): between two handles                              *)
Pcs == LazyPcs \cup {"idle", "subscribe", "yielded", "leaving", "discard",
                     "consumers", "handles"}

TypeOK ==
  /\ LazyTypeOK
  /\ pc \in [Tasks -> Pcs]
  /\ closed \in BOOLEAN /\ clean \in BOOLEAN
  /\ consumers \in SUBSET Tasks /\ open \in SUBSET Tasks /\ broken \in SUBSET Tasks
  /\ using \in [Tasks -> 0..MaxMade]
  /\ todo \in [Tasks -> SUBSET Tasks]
  /\ left \in [Tasks -> SUBSET Handles]

Init ==
  /\ LazyInit
  /\ pc = [t \in Tasks |-> "idle"]
  /\ \E h \in Handles : on = [t \in Tasks |-> h]
  /\ closed = FALSE /\ clean = FALSE
  /\ consumers = {} /\ open = {} /\ broken = {}
  /\ using = [t \in Tasks |-> 0]
  /\ todo = [t \in Tasks |-> {}]
  /\ left = [t \in Tasks |-> {}]

-----------------------------------------------------------------------------
(* consume()                                                               *)

(* resolve_name: refused once the manager is closed; then AsyncLazy.get.   *)
Consume(t, h) ==
  /\ At(t, "idle") /\ t \notin open \cup broken /\ ~closed
  /\ Goto(t, "get")
  /\ on' = [on EXCEPT ![t] = h]
  /\ UNCHANGED <<lazyVars, managerVars>>

(* _get_backend returns: backend.consumer() is called on the result.       *)
GetBackend(t) ==
  /\ \/ GetHit(t, "subscribe") /\ using' = [using EXCEPT ![t] = value[on[t]]]
     \/ GetCreated(t, "subscribe") /\ using' = [using EXCEPT ![t] = made + 1]
  /\ UNCHANGED <<closed, consumers, open, broken, todo, left, clean>>

GetRaises(t) ==
  /\ GetSealed(t) \/ GetFailed(t)
  /\ UNCHANGED managerVars

(* Mutant: the manager is not looked at again.                             *)
YieldLate(t) ==
  /\ At(t, "subscribe")
  /\ open' = open \cup {t}
  /\ consumers' = consumers \cup {t}
  /\ Goto(t, "yielded")
  /\ UNCHANGED <<lazyVars, on, closed, broken, using, todo, left, clean>>

(* The consumer is there and the manager is open: register and yield it.   *)
Yield(t) ==
  /\ At(t, "subscribe") /\ ~closed
  /\ open' = open \cup {t}
  /\ consumers' = consumers \cup {t}
  /\ Goto(t, "yielded")
  /\ UNCHANGED <<lazyVars, on, closed, broken, using, todo, left, clean>>

(* Mutant: the late consumer is dropped without being closed.              *)
DiscardDropped(t) ==
  /\ At(t, "subscribe") /\ closed
  /\ open' = open \cup {t}
  /\ Goto(t, "idle")
  /\ UNCHANGED <<lazyVars, on, closed, consumers, broken, using, todo, left, clean>>

(* The manager was closed while the consumer was being created.            *)
Discard(t) ==
  /\ At(t, "subscribe") /\ closed
  /\ open' = open \cup {t}
  /\ Goto(t, "discard")
  /\ UNCHANGED <<lazyVars, on, closed, consumers, broken, using, todo, left, clean>>

(* backend.consumer() raises, or the task is cancelled in it.              *)
SubscribeFails(t) ==
  /\ At(t, "subscribe")
  /\ using' = [using EXCEPT ![t] = 0]
  /\ Goto(t, "idle")
  /\ UNCHANGED <<lazyVars, on, closed, consumers, open, broken, todo, left, clean>>

(* The block ends, normally or not.                                        *)
EndBlock(t) ==
  /\ At(t, "yielded")
  /\ Goto(t, "leaving")
  /\ UNCHANGED <<lazyVars, on, managerVars>>

(* consumer.aclose() has returned or raised, and the consumer is struck    *)
(* off the list if it is still on it.                                      *)
ConsumerClosed(t) ==
  /\ pc[t] \in {"leaving", "discard"}
  /\ \/ open' = open \ {t} /\ UNCHANGED broken
     \/ broken' = broken \cup {t} /\ UNCHANGED open
  /\ consumers' = consumers \ {t}
  /\ using' = [using EXCEPT ![t] = 0]
  /\ Goto(t, "idle")
  /\ UNCHANGED <<lazyVars, on, closed, todo, left, clean>>

-----------------------------------------------------------------------------
(* aclose()                                                                *)

(* Up to the first await: close the entry, seal every handle, take a copy  *)
(* of the list of consumers.                                               *)
Aclose(t) ==
  /\ At(t, "idle")
  /\ closed' = TRUE
  /\ BeginClose(Handles)
  /\ todo' = [todo EXCEPT ![t] = consumers]
  /\ Goto(t, "consumers")
  /\ UNCHANGED <<value, made, released, on, consumers, open, broken, using, left, clean>>

(* The next consumer of the copy is closed, or raises.                     *)
AcloseConsumer(t, c) ==
  /\ At(t, "consumers") /\ c \in todo[t]
  /\ todo' = [todo EXCEPT ![t] = @ \ {c}]
  /\ \/ open' = open \ {c} /\ UNCHANGED broken
     \/ broken' = broken \cup {c} /\ UNCHANGED open
  /\ UNCHANGED <<lazyVars, pc, on, closed, consumers, using, left, clean>>

(* All of them are done: clear the list and go on to the handles.          *)
AcloseConsumersDone(t) ==
  /\ At(t, "consumers") /\ todo[t] = {}
  /\ consumers' = {}
  /\ left' = [left EXCEPT ![t] = Handles]
  /\ Goto(t, "handles")
  /\ UNCHANGED <<lazyVars, on, closed, open, broken, using, todo, clean>>

AcloseNext(t, h) ==
  /\ At(t, "handles") /\ h \in left[t]
  /\ left' = [left EXCEPT ![t] = @ \ {h}]
  /\ on' = [on EXCEPT ![t] = h]
  /\ Goto(t, "close")
  /\ UNCHANGED <<lazyVars, closed, consumers, open, broken, using, todo, clean>>

AcloseHandle(t) ==
  /\ \/ CloseNothing(t, "handles") \/ CloseLock(t)
     \/ Released(t, "handles") \/ ReleaseFailed(t, "handles")
  /\ UNCHANGED managerVars

(* aclose() returns, or raises what has gone wrong on the way.             *)
AcloseReturn(t) ==
  /\ At(t, "handles") /\ left[t] = {}
  /\ clean' = (clean \/ \A h \in Handles : value[h] = 0)
  /\ Goto(t, "idle")
  /\ UNCHANGED <<lazyVars, on, closed, consumers, open, broken, using, todo, left>>

-----------------------------------------------------------------------------
TaskStep(t) ==
  \/ (GetMiss(t) /\ UNCHANGED managerVars) \/ GetBackend(t) \/ GetRaises(t)
  \/ Yield(t) \/ Discard(t) \/ SubscribeFails(t) \/ ConsumerClosed(t)
  \/ \E c \in Tasks : AcloseConsumer(t, c)
  \/ \E h \in Handles : AcloseNext(t, h)
  \/ AcloseConsumersDone(t) \/ AcloseHandle(t) \/ AcloseReturn(t)

Next == \E t \in Tasks : \/ \E h \in Handles : Consume(t, h)
                         \/ EndBlock(t) \/ Aclose(t) \/ TaskStep(t)

Spec == Init /\ [][Next]_vars

(* A task that is not blocked runs, remote calls end (in success or not),  *)
(* and asyncio.Lock is first come, first served.  Nobody need call         *)
(* consume() or aclose(), and a block may run for ever.                    *)
FairSpec == Spec /\ \A t \in Tasks : SF_vars(TaskStep(t))

-----------------------------------------------------------------------------
(* Properties.                                                             *)

(* No backend is handed out once aclose() has begun, neither to a task     *)
(* that waited for the lock nor to the one whose factory was under way.    *)
NothingEscapes ==
  [][\A t \in Tasks : pc[t] # "subscribe" /\ pc'[t] = "subscribe" => ~closed]_vars

(* Every backend that was created and not released is still referenced by  *)
(* its handle, so that a later aclose() can release it, and every handle   *)
(* has at most one.                                                        *)
NoLeakedBackend ==
  \A i \in (1..made) \ released : \E h \in Handles : value[h] = i

(* When a call of aclose() has found every handle empty, no backend exists *)
(* and none is created ever after.                                         *)
ClosedForGood ==
  clean => released = 1..made /\ \A t \in Tasks : pc[t] # "creating"

(* A running "consume" block never has an open consumer on a released      *)
(* backend (unless closing the consumer failed): aclose() has closed it    *)
(* before, also when the block was entered while aclose() was starting.    *)
BlockHasItsBackend ==
  \A t \in Tasks : At(t, "yielded") /\ t \in open \ broken => using[t] \notin released

(* Once aclose() has begun, every consumer is closed eventually, the one   *)
(* that was still being created included (or closing it has failed).       *)
ConsumersEventuallyClosed == closed ~> open \subseteq broken

(* The comment in aclose(): consumers are closed first, so that the shared *)
(* backend is not used once it has been released.  Violated by a consumer  *)
(* that is being created while aclose() runs: it is not on the list yet.   *)
ConsumersCloseFirst ==
  \A t \in Tasks : pc[t] \in {"subscribe", "discard"} => using[t] \notin released
=============================================================================
