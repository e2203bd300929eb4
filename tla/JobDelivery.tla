---------------------------- MODULE JobDelivery ----------------------------
(***************************************************************************)
(* What the queue promises a producer, whatever the backend: a published   *)
(* message stays live until a worker removes it from the backend, and it   *)
(* is removed only once its job has succeeded or its failure has been      *)
(* written to the failed-job store ("at least once": a live message may be *)
(* run any number of times, so Succeed and Record may both happen).        *)
(* The driver modules are shown to implement this specification.           *)
(***************************************************************************)
CONSTANT Messages     \* the messages that may ever be published

VARIABLES status,     \* status[m]: "unsent", "live" or "settled"
          succeeded,  \* messages whose handler has completed
          recorded    \* messages whose failure has (ever) been persisted

vars == <<status, succeeded, recorded>>

Init == /\ status = [m \in Messages |-> "unsent"]
        /\ succeeded = {}
        /\ recorded = {}

Publish(m) == /\ status[m] = "unsent"
              /\ status' = [status EXCEPT ![m] = "live"]
              /\ UNCHANGED <<succeeded, recorded>>

Succeed(m) == /\ status[m] # "unsent"
              /\ succeeded' = succeeded \cup {m}
              /\ UNCHANGED <<status, recorded>>

Record(m) == /\ status[m] # "unsent"
             /\ recorded' = recorded \cup {m}
             /\ UNCHANGED <<status, succeeded>>

Settle(m) == /\ status[m] = "live"
             /\ m \in succeeded \cup recorded
             /\ status' = [status EXCEPT ![m] = "settled"]
             /\ UNCHANGED <<succeeded, recorded>>

Next == \E m \in Messages : Publish(m) \/ Succeed(m) \/ Record(m) \/ Settle(m)

Spec == Init /\ [][Next]_vars
=============================================================================
