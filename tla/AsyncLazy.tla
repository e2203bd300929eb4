----------------------------- MODULE AsyncLazy -----------------------------
(***************************************************************************)
(* Lazily created shared resources: AsyncLazy                              *)
(* (infrastructure/resources/lazy.py), the handle behind every named       *)
(* connection of the managers.  A manager's module EXTENDS this one and    *)
(* adds what its tasks do with a resource.                                 *)
(*                                                                         *)
(* A step of a task is the code between two awaits.  A handle's lock is    *)
(* held exactly by the task that awaits its factory or its closer, so it   *)
(* has no variable of its own.                                             *)
(***************************************************************************)
EXTENDS Naturals, FiniteSets

CONSTANTS Tasks,      \* asyncio tasks of one process
          Handles,    \* the AsyncLazy objects of one manager
          MaxMade     \* bound: resources ever created

ASSUME MaxMadeAssumption == MaxMade \in Nat

VARIABLES
  sealed,    \* sealed[h]: AsyncLazy._closed
  value,     \* value[h]: AsyncLazy._value, 0 for None
  made,      \* resources created so far: 1..made
  released,  \* resources whose closer has completed
  pc,        \* pc[t]: the await at which task t is
  on         \* on[t]: the handle task t is at

lazyVars == <<sealed, value, made, released>>

LazyPcs == {"get", "creating", "close", "releasing"}

LazyInit == /\ sealed = [h \in Handles |-> FALSE]
            /\ value = [h \in Handles |-> 0]
            /\ made = 0 /\ released = {}

LazyTypeOK == /\ sealed \in [Handles -> BOOLEAN]
              /\ value \in [Handles -> 0..MaxMade]
              /\ made \in 0..MaxMade
              /\ released \in SUBSET (1..MaxMade)
              /\ on \in [Tasks -> Handles]

At(t, where)   == pc[t] = where
Goto(t, where) == pc' = [pc EXCEPT ![t] = where]

LockFree(h) == \A t \in Tasks : ~(pc[t] \in {"creating", "releasing"} /\ on[t] = h)

(* begin_close of a set of handles.                                        *)
BeginClose(hs) == sealed' = [h \in Handles |-> sealed[h] \/ h \in hs]

(* get(): the lock is ours and there is no resource yet.                   *)
GetMiss(t) ==
  /\ At(t, "get") /\ LockFree(on[t]) /\ ~sealed[on[t]] /\ value[on[t]] = 0
  /\ Goto(t, "creating")
  /\ UNCHANGED <<lazyVars, on>>

(* get(): the resource exists and is returned to the caller at "next".     *)
GetHit(t, next) ==
  /\ At(t, "get") /\ LockFree(on[t]) /\ ~sealed[on[t]] /\ value[on[t]] # 0
  /\ Goto(t, next)
  /\ UNCHANGED <<lazyVars, on>>

(* get(): closing has begun while the task waited for the lock.            *)
GetSealed(t) ==
  /\ At(t, "get") /\ LockFree(on[t]) /\ sealed[on[t]]
  /\ Goto(t, "idle")
  /\ UNCHANGED <<lazyVars, on>>

(* Mutant: closing is not looked at again after the factory.               *)
AfterCreateTrusting(t, next) == next

(* Where get() goes with a new resource: back to the caller, or, when      *)
(* closing has begun in the meantime, an error.                            *)
AfterCreate(t, next) == IF sealed[on[t]] THEN "idle" ELSE next

(* get(): the factory returns.  The resource is kept in either case.       *)
GetCreated(t, next) ==
  /\ At(t, "creating") /\ made < MaxMade
  /\ made' = made + 1
  /\ value' = [value EXCEPT ![on[t]] = made + 1]
  /\ Goto(t, AfterCreate(t, next))
  /\ UNCHANGED <<sealed, released, on>>

(* get(): the factory fails or is cancelled.                               *)
GetFailed(t) ==
  /\ At(t, "creating")
  /\ Goto(t, "idle")
  /\ UNCHANGED <<lazyVars, on>>

(* aclose() of a handle: nothing to close.                                 *)
CloseNothing(t, next) ==
  /\ At(t, "close") /\ LockFree(on[t]) /\ value[on[t]] = 0
  /\ Goto(t, next)
  /\ UNCHANGED <<lazyVars, on>>

(* aclose(): the lock is ours and there is a resource to close.            *)
CloseLock(t) ==
  /\ At(t, "close") /\ LockFree(on[t]) /\ value[on[t]] # 0
  /\ Goto(t, "releasing")
  /\ UNCHANGED <<lazyVars, on>>

(* aclose(): the closer succeeds and the reference is dropped ...          *)
Released(t, next) ==
  /\ At(t, "releasing")
  /\ released' = released \cup {value[on[t]]}
  /\ value' = [value EXCEPT ![on[t]] = 0]
  /\ Goto(t, next)
  /\ UNCHANGED <<sealed, made, on>>

(* ... or fails and the reference is kept.                                 *)
ReleaseFailed(t, next) ==
  /\ At(t, "releasing")
  /\ Goto(t, next)
  /\ UNCHANGED <<lazyVars, on>>
=============================================================================
