--------------------------- MODULE MCMemoryHealth ---------------------------
(* MemoryHealth on two processes and two memories that support one identity, *)
(* each of which can be archived, restored, retrieved and evaluated.         *)
EXTENDS MemoryHealth, TLC

CONSTANTS database

BothSupport == [m \in Memory |-> {database}]

Calls == [op: {"archive", "restore", "record"}, memories: {{m} : m \in Memory}]
         \cup {[op |-> "record", memories |-> Memory],
               [op |-> "evaluate", memories |-> Memory]}

Symmetric == Permutations(Process) \cup Permutations(Memory)
=============================================================================
