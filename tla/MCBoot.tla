------------------------------- MODULE MCBoot -------------------------------
(***************************************************************************)
(* Small instances of Boot.                                                *)
(***************************************************************************)
EXTENDS Boot, TLC

\* Containers are interchangeable.
Symmetry == Permutations(Container)

=============================================================================
