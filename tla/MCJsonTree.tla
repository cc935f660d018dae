----------------------------- MODULE MCJsonTree -----------------------------
(***************************************************************************)
(* A small instance of JsonTree for TLC.                                   *)
(***************************************************************************)
EXTENDS JsonTree

(* Every name is in lower case.                                            *)
MCFold == [k \in Key |-> k]

(* The cells of the heap are interchangeable: nothing depends on which of  *)
(* the free ones the allocator picks.                                      *)
MCHeapSymmetry == Permutations(Item)

=============================================================================
