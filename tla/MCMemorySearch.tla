--------------------------- MODULE MCMemorySearch ---------------------------
(* MemorySearch on two processes and two memories: the words find m1, and so *)
(* does the graph; m2 supersedes it and has only a vector to be found by.   *)
EXTENDS MemorySearch, TLC

CONSTANTS m1, m2

Successor == [m \in Memory |-> IF m = m2 THEN m1 ELSE NULL]

\* The pools are as small as the limit: each of them is at some time too small.
PoolOf == [limit \in Limits |-> limit]

Symmetric == Permutations(Process)
=============================================================================
