------------------------------ MODULE MCNamespace ------------------------------
(* Namespace on a small tree, for TLC. *)
EXTENDS Namespace

\* The root 0 has the children 1, 2 and 3; 4 is in 1.
MCTree == [n \in 1 .. 4 |-> IF n = 4 THEN 1 ELSE 0]

=============================================================================
