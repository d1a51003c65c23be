------------------------------ MODULE MCMedia -------------------------------
(***************************************************************************)
(* Small instances of Media.                                               *)
(***************************************************************************)
EXTENDS Media, TLC

\* Keys of one prefix, columns and requests are interchangeable.
Symmetry == Permutations(Picture) \cup Permutations(Editor)
              \cup Permutations(Column) \cup Permutations(Request)

=============================================================================
