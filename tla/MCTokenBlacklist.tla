-------------------------- MODULE MCTokenBlacklist --------------------------
(***************************************************************************)
(* Small instances of TokenBlacklist.                                      *)
(***************************************************************************)
EXTENDS TokenBlacklist, TLC

\* Tokens, and instances, are interchangeable.
Symmetry == Permutations(Token) \cup Permutations(Instance)

=============================================================================
