--------------------------- MODULE MCKafkaWorker ---------------------------
(* Small instances of KafkaWorker for TLC.                                 *)
EXTENDS KafkaWorker, TLC

CONSTANTS c1, c2, t1, t2, t3, p1

(* Two workers with one lane each; a worker with two lanes beside one with *)
(* a single lane.                                                          *)
HomeOneLane    == t1 :> c1 @@ t2 :> c2
HomeThreeLanes == t1 :> c1 @@ t2 :> c1 @@ t3 :> c2

(* The two lanes of c1 are interchangeable.                                *)
SwapLanes == Permutations({t1, t2})

OnePartition == [m \in Messages |-> p1]

(* Nobody stops a worker: for the run that is about crashes.               *)
NoStop == stop' = stop

(* Only c2 is told to stop, and only in a behaviour without faults.        *)
StopOrFault == ~stop'[c1] /\ (stop'[c2] => faults' = 0)
=============================================================================
