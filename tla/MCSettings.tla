---------------------------- MODULE MCSettings ----------------------------
(***************************************************************************)
(* Small instances of Settings.                                            *)
(***************************************************************************)
EXTENDS Settings, TLC

\* For the safety runs: everything but time is interchangeable.
Symmetry == Permutations(Instance) \cup Permutations(Reader) \cup Permutations(Writer)
              \cup Permutations(Field) \cup Permutations(Value)

=============================================================================
