--------------------------- MODULE MCRedisWorker ---------------------------
(* Small instances of RedisWorker for TLC.                                 *)
EXTENDS RedisWorker, TLC

CONSTANTS c1, c2, t1, t2, t3

(* Two workers with one lane each, one worker with two lanes, and both.    *)
HomeOneLane    == t1 :> c1 @@ t2 :> c2
HomeTwoLanes   == t1 :> c1 @@ t2 :> c1
HomeThreeLanes == t1 :> c1 @@ t2 :> c1 @@ t3 :> c2

(* The two lanes of one worker are interchangeable.                        *)
SwapLanes == Permutations({t1, t2})

(* Only c1 is ever told to stop.                                           *)
StopOnlyFirst == ~stop'[c2]
=============================================================================
