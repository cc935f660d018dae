------------------------------ MODULE MCEngine ------------------------------
(***************************************************************************)
(* Small instances of Engine for TLC.                                      *)
(***************************************************************************)
EXTENDS Engine

Rule(ip, depth, action) == [ip |-> ip, depth |-> depth, action |-> action]
File(rs) == [parsed |-> TRUE, rules |-> rs]

(* A rule that rejects half of the addresses with an exception; two rules *)
(* for one prefix, with numbers that do not fit eight bits; no rule.       *)
MCValid == {
    File(<<Rule(2, 1, 1), Rule(3, 2, 0)>>),
    File(<<Rule(2, 1, 256), Rule(2, 257, 1)>>),
    File(<<>>)}

(* No JSON, a rule without an action, an address that does not parse, and  *)
(* a depth the table refuses.                                              *)
MCInvalid == {
    [parsed |-> FALSE, rules |-> <<>>],
    File(<<Rule(2, 1, 1), Rule(3, 2, Missing)>>),
    File(<<Rule(Garbled, 1, 1)>>),
    File(<<Rule(2, 0, 1)>>)}

MCFiles == MCValid \cup MCInvalid

(* The expected lcores, one too few, and the right number with a gap.      *)
MCLcores == {0 .. KNI_KTHREAD, 0 .. KNI_KTHREAD - 1, 1 .. KNI_KTHREAD + 1}

=============================================================================
