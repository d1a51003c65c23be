----------------------------- MODULE MCConsole -----------------------------
(* Console for TLC. *)
EXTENDS Console, TLC

\* Tabs and messages are interchangeable.
Symmetry == Permutations(Tab) \cup Permutations(Message)

=============================================================================
