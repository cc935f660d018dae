----------------------------- MODULE MCNetAgent -----------------------------
(* Instances of NetAgent for model checking.                               *)
EXTENDS NetAgent

CONSTANTS t1, t2

(* One socket; CPUs 2i and 2i + 1 are hyperthreads. *)
MCSiblings == [c \in CPU |-> {d \in CPU : d \div 2 = c \div 2}]
MCL3 == [c \in CPU |-> CPU]
MCNuma == [c \in CPU |-> 0]

MCAnyCpu == [t \in Task |-> CPU]

(* t1 may use CPUs 2 and 3, t2 every CPU but the agent's home. *)
MCPinned == [t \in Task |-> IF t = t1 THEN {2, 3} ELSE CPU \ {0}]

=============================================================================
