--------------------------- MODULE MCQueueManager ---------------------------
(* Small instances of QueueManager for TLC.                                *)
EXTENDS QueueManager, TLC

CONSTANTS t1, t2, t3, h1

(* Tasks are interchangeable, and so are handles.                          *)
Interchangeable == {p @@ q : p \in Permutations(Tasks), q \in Permutations(Handles)}
=============================================================================
