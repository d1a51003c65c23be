---------------------------- MODULE AccessTables ----------------------------
(***************************************************************************)
(* What the access-control services promise to an administrator who works  *)
(* alone: each operation changes the tables in one step, changes exactly   *)
(* what it was asked to change, and leaves no link without its two rows.   *)
(* AccessControl implements this as far as requests meet no competitor:    *)
(* what such a request writes, whatever else goes on beside it, is one     *)
(* step of these tables.                                                   *)
(***************************************************************************)
CONSTANTS User, Role, Permission

VARIABLES rows, links, issued

tables == <<rows, links, issued>>

Id == User \cup Role \cup Permission
Touching(X) == {l \in links : l[1] \in X \/ l[2] \in X}

Init ==
    /\ \E u \in User, r \in Role :
          /\ rows = {u, r}
          /\ links = {<<u, r>>}
    /\ issued = rows

\* A new row, without links.
Create(x) ==
    /\ x \in Id \ issued
    /\ rows' = rows \cup {x}
    /\ issued' = issued \cup {x}
    /\ links' = links

\* A new user with at least one role.
CreateUser(u, R) ==
    /\ u \in User \ issued
    /\ R \subseteq Role \cap rows /\ R # {}
    /\ rows' = rows \cup {u}
    /\ issued' = issued \cup {u}
    /\ links' = links \cup ({u} \X R)

\* An id that was drawn for a user whose creation failed.
GiveUp(u) ==
    /\ u \in User \ issued
    /\ issued' = issued \cup {u}
    /\ UNCHANGED <<rows, links>>

SetRoles(u, R) ==
    /\ u \in User \cap rows
    /\ R \subseteq Role \cap rows /\ R # {}
    /\ links' = (links \ ({u} \X Role)) \cup ({u} \X R)
    /\ UNCHANGED <<rows, issued>>

Assign(r, P) ==
    /\ r \in Role \cap rows
    /\ P \subseteq Permission \cap rows
    /\ links' = links \cup ({r} \X P)
    /\ UNCHANGED <<rows, issued>>

Unassign(r, P) ==
    /\ r \in Role \cap rows
    /\ links' = links \ ({r} \X P)
    /\ UNCHANGED <<rows, issued>>

Delete(X) ==
    /\ X \subseteq rows
    /\ rows' = rows \ X
    /\ links' = links \ Touching(X)
    /\ UNCHANGED issued

Next ==
    \/ \E x \in Id : Create(x)
    \/ \E u \in User : GiveUp(u) \/ \E R \in SUBSET Role : CreateUser(u, R) \/ SetRoles(u, R)
    \/ \E r \in Role, P \in SUBSET Permission : Assign(r, P) \/ Unassign(r, P)
    \/ \E X \in SUBSET Id : Delete(X)

Spec == Init /\ [][Next]_tables

=============================================================================
