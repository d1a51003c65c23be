--------------------------- MODULE PermissionSync ---------------------------
(***************************************************************************)
(* What the rows of table permissions say: PermissionService.              *)
(* syncFromRouteRegistry and syncFromRoutes copy the route registry into   *)
(* the table; store, update and delete edit it by hand.  All of them look  *)
(* first and write later, and no index makes (name, method, guard) unique. *)
(*                                                                         *)
(* The registry is filled by the constructors of the controllers before    *)
(* the first request (RouteRegistry.register keeps it free of duplicates)  *)
(* and does not change any more.                                           *)
(***************************************************************************)
EXTENDS TypeOrm, Naturals, Sequences

CONSTANTS
    Name,       \* names of permissions
    Kind,       \* pairs of method and guard_name
    Registry,   \* routeRegistry.getAll(): the routes, in order
    Id,         \* ids of permission rows, never issued twice
    Request,    \* requests that can be in flight at a time
    None        \* no row

\* What a row says.
Key == [name: Name, kind: Kind]

ASSUME RegistryAssumption ==
    /\ Registry \in Seq(Key)
    /\ \A m, n \in 1..Len(Registry) : Registry[m] = Registry[n] => m = n
    /\ None \notin Key

VARIABLES
    perm,       \* id -> what the row says, or None
    issued,     \* ids given out
    req,        \* what each request in flight is doing
    (***********************************************************************)
    (* History.  The program does not have these variables.                *)
    (***********************************************************************)
    quiet,      \* no two of these requests have overlapped so far
    steady,     \* syncs in flight during which no row went away or was edited
    covered     \* such a sync has ended, no row went away or was edited since

vars == <<perm, issued, req, quiet, steady, covered>>

(***************************************************************************)
(* Where a request is:                                                     *)
(*    "find", "insert"  a sync, at the at-th route of the registry         *)
(*    "store"   a store that has found no row of the name                  *)
(*    "check"   an update that has found no other row of the name          *)
(*    "found"   an update that has found its row and merged the form       *)
(*    "loaded"  the save of the update has read the row once more          *)
(***************************************************************************)
Idle == [pc |-> "idle"]
Busy == [pc: {"find", "insert"}, at: 1..Len(Registry)]
          \cup [pc: {"store"}, key: Key]
          \cup [pc: {"check", "found"}, id: Id, key: Key]
          \cup [pc: {"loaded"}, id: Id, key: Key, have: Key \cup {None}]

TypeOK ==
    /\ perm \in [Id -> Key \cup {None}]
    /\ issued \subseteq Id
    /\ \A i \in Id : perm[i] # None => i \in issued
    /\ req \in [Request -> Busy \cup {Idle}]
    /\ quiet \in BOOLEAN
    /\ steady \subseteq Request
    /\ covered \in BOOLEAN

Rows == {i \in Id : perm[i] # None}

\* The row a sync looks for: the same name, method and guard.
Present_ByName(k) == \E i \in Rows : perm[i].name = k.name  \* mutant: the name alone
Present(k) == \E i \in Rows : perm[i] = k

\* The row that store, and update of row i, must not find: the same name.
Taken(k, I) == \E j \in Rows \ I : perm[j].name = k.name

Begin(q, r) ==
    /\ req[q] = Idle
    /\ req' = [req EXCEPT ![q] = r]
    /\ quiet' = (quiet /\ \A x \in Request : req[x] = Idle)

End(q) == req' = [req EXCEPT ![q] = Idle]

\* A row went away or was edited.
Disturbed == steady' = {} /\ covered' = FALSE

-----------------------------------------------------------------------------
\* GET of the permission list, or POST sync, with a registry that is not empty.
SyncBegin(q) ==
    /\ Len(Registry) > 0
    /\ Begin(q, [pc |-> "find", at |-> 1])
    /\ steady' = steady \cup {q}
    /\ UNCHANGED <<perm, issued, covered>>

\* The loop goes on with the next route, or ends.
Advance_Past(q) ==                               \* mutant: `<=` in the loop's condition
    IF req[q].at <= Len(Registry)
    THEN /\ req' = [req EXCEPT ![q] = [pc |-> "find", at |-> @.at + 1]]
         /\ UNCHANGED <<steady, covered>>
    ELSE /\ End(q)
         /\ steady' = steady \ {q}
         /\ covered' = (covered \/ q \in steady)
Advance(q) ==
    IF req[q].at < Len(Registry)
    THEN /\ req' = [req EXCEPT ![q] = [pc |-> "find", at |-> @.at + 1]]
         /\ UNCHANGED <<steady, covered>>
    ELSE /\ End(q)
         /\ steady' = steady \ {q}
         /\ covered' = (covered \/ q \in steady)

\* findOne for the route: nothing to do when the row is there.
SyncFind_Inserts(q) ==                           \* mutant: `continue` is left out
    /\ req[q].pc = "find"
    /\ req' = [req EXCEPT ![q].pc = "insert"]
    /\ UNCHANGED <<perm, issued, quiet, steady, covered>>
SyncFind(q) ==
    /\ req[q].pc = "find"
    /\ IF Present(Registry[req[q].at])
       THEN Advance(q)
       ELSE req' = [req EXCEPT ![q].pc = "insert"] /\ UNCHANGED <<steady, covered>>
    /\ UNCHANGED <<perm, issued, quiet>>

\* The new row is saved.
SyncInsert(q, i) ==
    /\ req[q].pc = "insert"
    /\ i \in Id \ issued
    /\ issued' = issued \cup {i}
    /\ perm' = [perm EXCEPT ![i] = Registry[req[q].at]]
    /\ Advance(q)
    /\ UNCHANGED quiet

\* PermissionService.store: 409 when the name is taken.
StoreFind(q, k) ==
    /\ ~Taken(k, {})
    /\ Begin(q, [pc |-> "store", key |-> k])
    /\ UNCHANGED <<perm, issued, steady, covered>>

StoreSave(q, i) ==
    /\ req[q].pc = "store"
    /\ i \in Id \ issued
    /\ issued' = issued \cup {i}
    /\ perm' = [perm EXCEPT ![i] = req[q].key]
    /\ End(q)
    /\ UNCHANGED <<quiet, steady, covered>>

\* PermissionService.update: 409 when another row has the name ...
UpdateCheck(q, i, k) ==
    /\ i \in issued
    /\ ~Taken(k, {i})
    /\ Begin(q, [pc |-> "check", id |-> i, key |-> k])
    /\ UNCHANGED <<perm, issued, steady, covered>>

\* ... and 404 when the row is not there.  The merge fills what the form leaves
\* empty with what the row says: the key may be any.
UpdateFind(q) ==
    /\ req[q].pc = "check"
    /\ req[q].id \in Rows
    /\ req' = [req EXCEPT ![q].pc = "found"]
    /\ UNCHANGED <<perm, issued, quiet, steady, covered>>

\* save reads the row once more ...
SaveLoad(q) ==
    /\ req[q].pc = "found"
    /\ req' = [req EXCEPT ![q] = [pc |-> "loaded", id |-> @.id, key |-> @.key,
                                  have |-> perm[@.id]]]
    /\ UNCHANGED <<perm, issued, quiet, steady, covered>>

\* ... and updates the columns that differ, or inserts a row that was gone.
SaveCommit(q) ==
    LET i == req[q].id  have == req[q].have  key == req[q].key
    IN  /\ req[q].pc = "loaded"
        /\ \/ /\ have # None /\ perm[i] # None
              /\ perm' = [perm EXCEPT ![i] = ColumnsAfterSave(perm[i], have, key)]
           \/ have # None /\ perm[i] = None /\ perm' = perm
           \/ /\ have = None /\ perm[i] = None
              /\ perm' = [perm EXCEPT ![i] = key]
        /\ End(q)
        /\ Disturbed
        /\ UNCHANGED <<issued, quiet>>

\* The transaction of PermissionService.delete and deleteSelected.
Delete(I) ==
    /\ I # {} /\ I \subseteq Rows
    /\ perm' = [i \in Id |-> IF i \in I THEN None ELSE perm[i]]
    /\ Disturbed
    /\ UNCHANGED <<issued, req, quiet>>

\* A 404, a failed query, a row inserted twice: what a sync has done so far stays.
Fail(q) ==
    /\ req[q] # Idle
    /\ End(q)
    /\ steady' = steady \ {q}
    /\ UNCHANGED <<perm, issued, quiet, covered>>

-----------------------------------------------------------------------------
Init ==
    /\ perm = [i \in Id |-> None]
    /\ issued = {}
    /\ req = [q \in Request |-> Idle]
    /\ quiet = TRUE /\ steady = {} /\ covered = FALSE

Next ==
    \/ \E q \in Request :
          \/ SyncBegin(q) \/ SyncFind(q)
          \/ \E i \in Id : SyncInsert(q, i) \/ StoreSave(q, i)
          \/ \E k \in Key : StoreFind(q, k) \/ \E i \in Id : UpdateCheck(q, i, k)
          \/ UpdateFind(q) \/ SaveLoad(q) \/ SaveCommit(q) \/ Fail(q)
    \/ \E I \in SUBSET Id : Delete(I)

Spec == Init /\ [][Next]_vars

-----------------------------------------------------------------------------
\* As long as no two of these requests overlap, no two rows have the same name,
\* method and guard, however syncs, stores, updates and deletes follow each
\* other.
OneRowEach == quiet => \A i, j \in Rows : perm[i] = perm[j] => i = j

\* After a sync during which no row went away or was edited every route of the
\* registry has its row, whatever else ran at the same time.
AllRoutesPresent ==
    covered => \A n \in 1..Len(Registry) : \E i \in Rows : perm[i] = Registry[n]

-----------------------------------------------------------------------------
(***************************************************************************)
(* The inductive invariant behind OneRowEach and AllRoutesPresent.         *)
(***************************************************************************)

\* A request alone in the table still does not find what it did not find.
StillFree(q) ==
    /\ req[q].pc = "insert" => ~Present(Registry[req[q].at])
    /\ req[q].pc = "store" => ~Taken(req[q].key, {})
    /\ req[q].pc \in {"check", "found", "loaded"} => ~Taken(req[q].key, {req[q].id})
    /\ req[q].pc = "loaded" => perm[req[q].id] \in {req[q].have, None}

QuietInv ==
    quiet =>
        /\ \A q, x \in Request : req[q] # Idle /\ req[x] # Idle => q = x
        /\ \A q \in Request : StillFree(q)
        /\ \A i, j \in Rows : perm[i] = perm[j] => i = j

\* A steady sync has the routes behind it in the table.
SteadyInv ==
    \A q \in steady :
        /\ req[q].pc \in {"find", "insert"}
        /\ \A n \in 1..(req[q].at - 1) : Present(Registry[n])

\* An update is about a row that was once inserted.
IssuedInv ==
    \A q \in Request :
        req[q].pc \in {"check", "found", "loaded"} => req[q].id \in issued

IndInv == TypeOK /\ QuietInv /\ SteadyInv /\ IssuedInv /\ AllRoutesPresent

=============================================================================
