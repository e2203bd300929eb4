--------------------------- MODULE MCRabbitWorker ---------------------------
(* A small instance of RabbitWorker for TLC: two workers with a lane each. *)
EXTENDS RabbitWorker, TLC

CONSTANTS c1, c2, t1, t2

HomeOneLane == t1 :> c1 @@ t2 :> c2

(* Only c1 is ever told to stop.                                           *)
StopOnlyFirst == ~stop'[c2]
=============================================================================
