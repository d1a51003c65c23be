-------------------------- MODULE MCPermissionSync --------------------------
(***************************************************************************)
(* Small instances of PermissionSync: two routes of different names and    *)
(* the same method, which forms can store with another method, too.        *)
(***************************************************************************)
EXTENDS PermissionSync, TLC

CONSTANTS n1, n2, get, post

MCRegistry == << [name |-> n1, kind |-> get], [name |-> n2, kind |-> get] >>

\* Ids and request slots are interchangeable; names and kinds are not, the
\* registry names them.
Symmetry == Permutations(Id) \cup Permutations(Request)

=============================================================================
