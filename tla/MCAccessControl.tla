-------------------------- MODULE MCAccessControl --------------------------
(***************************************************************************)
(* Small instances of AccessControl.                                       *)
(***************************************************************************)
EXTENDS AccessControl, Integers, TLC

\* Ids of one table, and the request slots, are interchangeable.
Symmetry == Permutations(User) \cup Permutations(Role)
              \cup Permutations(Permission) \cup Permutations(Request)

\* Requests overlap until the last id of a user is given out; from then on there
\* is one at a time.
Overlaps ==
    \/ User \ issued # {}
    \/ Cardinality({q \in Request : InFlight(q)}) <= 1

=============================================================================
