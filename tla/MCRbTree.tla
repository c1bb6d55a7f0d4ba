------------------------------- MODULE MCRbTree -------------------------------
(* An instance of RbTree for TLC: pairs of equal keys. *)
EXTENDS RbTree

NumberedNodes == 1 .. 8

PairedKeys == [n \in NumberedNodes |-> (n + 1) \div 2]
=============================================================================
