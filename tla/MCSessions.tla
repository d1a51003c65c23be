----------------------------- MODULE MCSessions -----------------------------
(***************************************************************************)
(* Small instances of Sessions.                                            *)
(***************************************************************************)
EXTENDS Sessions, TLC

\* Session ids, users and request slots are interchangeable.
Symmetry == Permutations(Sid) \cup Permutations(User) \cup Permutations(Request)

=============================================================================
