------------------------------ MODULE MCSeeder ------------------------------
(***************************************************************************)
(* Small instances of Seeder.                                              *)
(***************************************************************************)
EXTENDS Seeder, TLC

\* Ids, and the processes, are interchangeable.
Symmetry == Permutations(Setting) \cup Permutations(Role) \cup Permutations(User)
              \cup Permutations(Seed)

=============================================================================
