--------------------------- MODULE AccessControl ---------------------------
(***************************************************************************)
(* The access-control tables and the requests that change them:            *)
(* UserService, RoleService, PermissionService, ProfileService.update and  *)
(* AuthService.register.                                                   *)
(*                                                                         *)
(* Every handler is asynchronous: it reads entities with findOne/findBy,   *)
(* changes them in memory, and saves or removes them.  Each await lets the *)
(* other requests run, so a request is a process with a program counter:   *)
(*    "found"    the first entity is in memory, a second read is due       *)
(*    "ready"    the entity in memory is final, save/remove is called      *)
(*    "loaded"   save/remove has loaded the database's version of it       *)
(* and then executes one transaction (module TypeOrm).                     *)
(*                                                                         *)
(* Columns of a row are not modelled here, only that the row is there; the *)
(* two early returns on a taken name (409) change nothing, and a save that *)
(* breaks a unique index is one of the failures of Fail.                   *)
(***************************************************************************)
EXTENDS FiniteSets, TypeOrm

CONSTANTS
    User, Role, Permission,   \* ids (UUIDs, never issued twice)
    Request                   \* requests that can be in flight at a time

ASSUME IdsDisjoint ==
    /\ User \cap Role = {}
    /\ User \cap Permission = {}
    /\ Role \cap Permission = {}

VARIABLES
    rows,      \* ids that have a row in users, roles or permissions
    links,     \* the join tables users_roles and roles_permissions
    issued,    \* ids that have been given out
    req,       \* what each request in flight is doing
    (***********************************************************************)
    (* History: which requests meet no competing request, and what those   *)
    (* have told their callers.  The program does not have these variables.*)
    (***********************************************************************)
    alone,     \* requests in flight that have met no competing request
    granted,   \* links reported as made, no removal of them asked for since
    revoked,   \* links reported as removed, not asked for again since
    retired    \* ids reported as deleted

reported == <<granted, revoked, retired>>
vars == <<rows, links, issued, req, alone, granted, revoked, retired>>

Id == User \cup Role \cup Permission

\* Both join tables in one: <<user, role>> is a row of users_roles,
\* <<role, permission>> a row of roles_permissions.
Pair == (User \X Role) \cup (Role \X Permission)

\* Operations that save an entity together with its loaded or assigned relation.
LinkOps == {"permissionAssign", "permissionAssignSelected", "permissionUnassign",
            "setRoles", "createUser"}
SaveOps == LinkOps \cup {"update"}
Ops == SaveOps \cup {"delete"}

\* A request after its first step, with its answer to the second read, and
\* with what save or remove has loaded.
New(op, pc, ids, args, want) ==
    [op |-> op, pc |-> pc, ids |-> ids, args |-> args,
     want |-> want, have |-> {}, found |-> {}]
Prepared(r, args, want) == [r EXCEPT !.pc = "ready", !.args = args, !.want = want]
Loaded(r, found, have) == [r EXCEPT !.pc = "loaded", !.found = found, !.have = have]

Idle == New("none", "idle", {}, {}, {})

RequestState ==
    [op: Ops, pc: {"found", "ready", "loaded"}, ids: SUBSET Id, args: SUBSET Id,
     want: SUBSET Pair, have: SUBSET Pair, found: SUBSET Id]

TypeOK ==
    /\ rows \subseteq issued
    /\ links \subseteq Pair
    /\ issued \subseteq Id
    /\ req \in [Request -> RequestState \cup {Idle}]
    /\ alone \subseteq Request
    /\ granted \subseteq Pair
    /\ revoked \subseteq Pair
    /\ retired \subseteq Id

\* The links of `ids` a query finds: it joins the tables at both ends, so a
\* link left behind by a deleted row is not found.
LinksOf(ids) ==
    {l \in links : l[1] \in ids /\ l[1] \in rows /\ l[2] \in rows}

\* All links at either end of `ids`.
LinksTouching(ids) ==
    {l \in links : (l[1] \in ids \/ l[2] \in ids) /\ l[1] \in rows /\ l[2] \in rows}

\* The check after every first read: 404 when the entity is not there.
Exists_Unchecked(x) == x \in issued             \* mutant: no 404
Exists(x) == x \in rows

\* role.permissions after the permissions found are pushed.
Pushed(q, found) == req[q].want \cup (req[q].ids \X found)

\* role.permissions after the permissions P are filtered out.
Filtered_Ignored(r, P) == LinksOf({r})           \* mutant: filter result unused
Filtered(r, P) == LinksOf({r}) \ ({r} \X P)

\* user.roles after merge: the roles found, in place of those the user has.
Merged_Without(q, found) == LinksOf(req[q].ids)  \* mutant: merged without the roles
Merged(q, found) == req[q].ids \X found

\* The links save loads: none for an entity read without its relation.
LoadedLinks(q) == IF req[q].op \in LinkOps THEN LinksOf(req[q].ids) ELSE {}

\* What an administrator sees: the link and both rows it joins are there.
Effective(l) == l \in links /\ l[1] \in rows /\ l[2] \in rows

(***************************************************************************)
(* Competing requests (history only).  A request reaches the rows it saves *)
(* or removes and, when it saves a relation, every row that can be at the  *)
(* other end of it.                                                        *)
(***************************************************************************)
Reach(r) ==
    r.ids \cup (IF r.op \in LinkOps
                THEN {y \in Id : \E x \in r.ids : <<x, y>> \in Pair}
                ELSE {})

Compete(r, s) == r.ids \cap Reach(s) # {} \/ s.ids \cap Reach(r) # {}

InFlight(q) == req[q].pc # "idle"

\* Request q starts as r.  The requests it competes with are no longer alone.
Begin(q, r) ==
    /\ ~InFlight(q)
    /\ req' = [req EXCEPT ![q] = r]
    /\ alone' = {x \in alone : ~Compete(r, req[x])}
                  \cup {x \in {q} : \A y \in Request \ {q} : ~Compete(r, req[y])}

\* Request q takes its next step as r.
Step(q, r) == req' = [req EXCEPT ![q] = r] /\ alone' = alone

\* Request q is answered.
End(q) == req' = [req EXCEPT ![q] = Idle] /\ alone' = alone \ {q}

-----------------------------------------------------------------------------
(***************************************************************************)
(* Creating rows.  The id is new, so save has nothing to load and INSERTs. *)
(***************************************************************************)

Create_Unissued(x) ==                            \* mutant: id may come again
    /\ x \in Id \ issued
    /\ rows' = rows \cup {x}
    /\ UNCHANGED <<links, issued, req, alone, reported>>
Create(x) ==
    /\ x \in Id \ issued
    /\ rows' = rows \cup {x}
    /\ issued' = issued \cup {x}
    /\ UNCHANGED <<links, req, alone, reported>>

StoreRole(x) == x \in Role /\ Create(x)
StorePermission(x) == x \in Permission /\ Create(x)  \* also one route of a sync
Register(x) == x \in User /\ Create(x)

\* UserService.store: the roles are read, then photo and hash, then save.
CreateUser(q, u, R) ==
    /\ u \in User \ issued
    /\ R \cap rows # {}                    \* else 404 'Roles Not Found'
    /\ issued' = issued \cup {u}
    /\ Begin(q, New("createUser", "ready", {u}, R \cap rows, {u} \X (R \cap rows)))
    /\ UNCHANGED <<rows, links, reported>>

(***************************************************************************)
(* First steps: the entity is read (404 without effect when it is gone).   *)
(***************************************************************************)

\* The entity is read without its relation, so the save leaves the links alone.
Update(q, x) ==
    /\ Exists(x)
    /\ Begin(q, New("update", "ready", {x}, {}, {}))
    /\ UNCHANGED <<rows, links, issued, reported>>

UpdateRole(q, x) == x \in Role /\ Update(q, x)
UpdatePermission(q, x) == x \in Permission /\ Update(q, x)
UpdateProfile(q, x) == x \in User /\ Update(q, x)

\* UserService.update, first read.
UpdateUser(q, u, R) ==
    /\ u \in User /\ Exists(u)
    /\ Begin(q, New("setRoles", "found", {u}, R, {}))
    /\ granted' = granted \ ({u} \X (Role \ R))
    /\ revoked' = revoked \ ({u} \X R)
    /\ UNCHANGED <<rows, links, issued, retired>>

\* RoleService.permissionAssign (op "permissionAssign", one permission) and
\* permissionAssignSelected: the role with its permissions is read.
PermissionAssign(q, op, r, P) ==
    /\ r \in Role /\ Exists(r)
    /\ op = "permissionAssign" => Cardinality(P) = 1
    /\ Begin(q, New(op, "found", {r}, P, LinksOf({r})))
    /\ revoked' = revoked \ ({r} \X P)
    /\ UNCHANGED <<rows, links, issued, granted, retired>>

\* RoleService.permissionUnassign and permissionUnassignSelected: the role is
\* read with its permissions and the named ones are filtered out.
PermissionUnassign(q, r, P) ==
    /\ r \in Role /\ Exists(r)
    /\ Begin(q, New("permissionUnassign", "ready", {r}, P, Filtered(r, P)))
    /\ granted' = granted \ ({r} \X P)
    /\ UNCHANGED <<rows, links, issued, revoked, retired>>

\* delete and deleteSelected; X is what the read found.
Delete(q, X) ==
    /\ X # {} /\ X \subseteq rows
    /\ Begin(q, New("delete", "ready", X, {}, {}))
    /\ granted' = {l \in granted : l[1] \notin X /\ l[2] \notin X}
    /\ UNCHANGED <<rows, links, issued, revoked, retired>>

DeleteUsers(q, X) == X \subseteq User /\ Delete(q, X)
DeleteRoles(q, X) == X \subseteq Role /\ Delete(q, X)
DeletePermissions(q, X) == X \subseteq Permission /\ Delete(q, X)

(***************************************************************************)
(* Second reads.                                                           *)
(***************************************************************************)

\* RoleService.permissionAssign: 404 unless the permission is there.
\* permissionAssignSelected: whatever findBy finds is pushed.
FindPermissions(q) ==
    /\ req[q].pc = "found"
    /\ req[q].op \in {"permissionAssign", "permissionAssignSelected"}
    /\ LET found == req[q].args \cap rows
       IN  IF req[q].op = "permissionAssign" /\ found = {}
           THEN End(q)
           ELSE Step(q, Prepared(req[q], found, Pushed(q, found)))
    /\ UNCHANGED <<rows, links, issued, reported>>

\* UserService.update: 404 'Roles Not Found', or the user gets the roles found.
FindRoles(q) ==
    /\ req[q].pc = "found"
    /\ req[q].op = "setRoles"
    /\ LET found == req[q].args \cap rows
       IN  IF found = {}
           THEN End(q)
           ELSE Step(q, Prepared(req[q], found, Merged(q, found)))
    /\ UNCHANGED <<rows, links, issued, reported>>

(***************************************************************************)
(* Repository.save and Repository.remove.                                  *)
(***************************************************************************)

\* save loads the row, and its links when the entity carries the relation.
SaveLoad(q) ==
    /\ req[q].pc = "ready"
    /\ req[q].op \in SaveOps
    /\ Step(q, Loaded(req[q], req[q].ids \cap rows, LoadedLinks(q)))
    /\ UNCHANGED <<rows, links, issued, reported>>

\* What the answer of a request that met no competitor tells its caller.
Report(q) ==
    LET r == req[q]
        made == IF r.op \in {"permissionAssign", "permissionAssignSelected",
                             "setRoles", "createUser"}
                THEN r.ids \X r.args ELSE {}
        dropped == CASE r.op = "permissionUnassign" -> r.ids \X r.args
                     [] r.op = "setRoles" -> r.ids \X (Role \ r.args)
                     [] r.op = "delete" -> {l \in Pair : l[1] \in r.ids \/ l[2] \in r.ids}
                     [] OTHER -> {}
    IN  /\ granted' = IF q \in alone THEN granted \cup made ELSE granted
        /\ revoked' = IF q \in alone THEN revoked \cup dropped ELSE revoked
        /\ retired' = IF q \in alone /\ r.op = "delete" THEN retired \cup r.ids ELSE retired

\* The transaction of save.
SaveCommit(q) ==
    LET r == req[q]
    IN  /\ r.pc = "loaded"
        /\ r.op \in SaveOps
        /\ ~DuplicateRow(rows, r.found, r.ids)
        /\ ~DuplicateLink(links, r.have, r.want)
        /\ rows' = RowsAfterSave(rows, r.found, r.ids)
        /\ links' = LinksAfterSave(links, r.have, r.want)
        /\ End(q)
        /\ Report(q)
        /\ UNCHANGED issued

\* remove loads the links of the entities, at both ends.
RemoveLoad(q) ==
    /\ req[q].pc = "ready"
    /\ req[q].op = "delete"
    /\ Step(q, Loaded(req[q], {}, LinksTouching(req[q].ids)))
    /\ UNCHANGED <<rows, links, issued, reported>>

\* The transaction of remove: the loaded links and the rows are deleted.
RemoveCommit(q) ==
    LET r == req[q]
    IN  /\ r.pc = "loaded"
        /\ r.op = "delete"
        /\ rows' = rows \ r.ids
        /\ links' = links \ r.have
        /\ End(q)
        /\ Report(q)
        /\ UNCHANGED issued

\* A query fails, a unique index or primary key rejects the transaction, or the
\* process stops: the request has no effect, the transaction is rolled back.
Fail(q) ==
    /\ InFlight(q)
    /\ End(q)
    /\ UNCHANGED <<rows, links, issued, reported>>

-----------------------------------------------------------------------------
\* The seeder's Administrator role and its user, right after the migrations.
Init ==
    /\ \E u \in User, r \in Role :
          /\ rows = {u, r}
          /\ links = {<<u, r>>}
    /\ issued = rows
    /\ req = [q \in Request |-> Idle]
    /\ alone = {}
    /\ granted = {} /\ revoked = {} /\ retired = {}

Next ==
    \/ \E x \in Id : StoreRole(x) \/ StorePermission(x) \/ Register(x)
    \/ \E q \in Request :
          \/ \E u \in User, R \in SUBSET Role : CreateUser(q, u, R) \/ UpdateUser(q, u, R)
          \/ \E x \in Id : UpdateRole(q, x) \/ UpdatePermission(q, x) \/ UpdateProfile(q, x)
          \/ \E op \in {"permissionAssign", "permissionAssignSelected"},
                r \in Role, P \in SUBSET Permission \ {{}} :
                   PermissionAssign(q, op, r, P)
          \/ \E r \in Role, P \in SUBSET Permission \ {{}} : PermissionUnassign(q, r, P)
          \/ \E X \in SUBSET Id :
                DeleteUsers(q, X) \/ DeleteRoles(q, X) \/ DeletePermissions(q, X)
          \/ FindPermissions(q) \/ FindRoles(q)
          \/ SaveLoad(q) \/ SaveCommit(q)
          \/ RemoveLoad(q) \/ RemoveCommit(q)
          \/ Fail(q)

Spec == Init /\ [][Next]_vars

-----------------------------------------------------------------------------
(***************************************************************************)
(* Properties.                                                             *)
(***************************************************************************)

\* A link reported as made by a request that met no competitor stays in effect,
\* whatever other requests do to the same role, until a request starts that is
\* asked to remove it: saves that carry older copies of the relation never
\* undo it.
GrantedHolds == \A l \in granted : Effective(l)

\* A link reported as removed by a request that met no competitor stays out of
\* effect until a request is asked to make it again: neither a save with an
\* older copy nor a row brought back by one restores the access.
RevokedHolds == \A l \in revoked : ~Effective(l)

\* An id reported as deleted by a request that met no competitor never has a
\* row again.
RetiredStaysGone == retired \cap rows = {}

\* Ids an administrator can know of: not those of users still being created.
known == issued \ UNION {req[q].ids : q \in {x \in Request : req[x].op = "createUser"}}

\* Links somebody can see.  A race may leave others behind.
shown == {l \in links : Effective(l)}

Tables == INSTANCE AccessTables WITH issued <- known, links <- shown

\* No request that has met a competitor takes this step.
Undisturbed ==
    \A q \in Request : InFlight(q) /\ q \notin alone => req'[q] = req[q]

\* Each operation changes the tables in one step and exactly as asked (assign
\* adds, unassign removes, an update of a user replaces its roles, a delete
\* takes all its links along), whatever requests that reach none of its rows
\* do meanwhile, and whatever earlier races have left behind.
ImplementsTables ==
    /\ Tables!Init
    /\ [][Undisturbed /\ (Tables!tables)' # Tables!tables => Tables!Next]_vars

-----------------------------------------------------------------------------
(***************************************************************************)
(* The inductive invariant behind GrantedHolds, RevokedHolds,              *)
(* RetiredStaysGone and ImplementsTables: what the requests in flight may  *)
(* still write.                                                            *)
(***************************************************************************)
AssignOps == {"permissionAssign", "permissionAssignSelected"}

\* How the fields of a request in flight hang together.
Shape(r) ==
    /\ r.op \in AssignOps \cup {"permissionUnassign"} =>
          r.args \subseteq Permission /\ \E x \in Role : r.ids = {x}
    /\ r.op \in {"setRoles", "createUser"} =>
          r.args \subseteq Role /\ \E x \in User : r.ids = {x}
    /\ r.pc = "found" => r.op \in AssignOps \cup {"setRoles"}
    /\ r.op \in LinkOps => \A l \in r.want \cup r.have : l[1] \in r.ids
    /\ r.op = "update" => r.want = {} /\ r.have = {}
    /\ r.op = "delete" => \A l \in r.have : l[1] \in r.ids \/ l[2] \in r.ids
    /\ r.op \in AssignOps /\ r.pc # "found" => r.ids \X r.args \subseteq r.want
    /\ r.op = "permissionUnassign" => r.want \cap (r.ids \X r.args) = {}
    /\ r.op \in {"setRoles", "createUser"} /\ r.pc # "found" =>
          r.want = r.ids \X r.args /\ r.args # {}

\* Links, requests and deleted ids refer to ids that have been issued.
IssuedInv ==
    /\ \A l \in links : l[1] \in issued /\ l[2] \in issued
    /\ retired \subseteq issued
    /\ \A q \in Request : InFlight(q) =>
          /\ req[q].ids \subseteq issued
          /\ \A l \in req[q].want : l[1] \in issued /\ l[2] \in issued

\* What a request without a competitor has read is still so.
UpToDate(r) ==
    /\ r.op # "createUser" => r.ids \subseteq rows
    /\ r.op \in AssignOps \cup {"setRoles", "createUser"} /\ r.pc # "found"
          => r.args \subseteq rows
    /\ r.pc = "loaded" /\ r.op \in SaveOps => r.found = r.ids \cap rows
    /\ r.pc = "loaded" /\ r.op \in LinkOps => r.have = LinksOf(r.ids)
    /\ r.op \in AssignOps =>
          r.want = LinksOf(r.ids) \cup (IF r.pc = "found" THEN {} ELSE r.ids \X r.args)
    /\ r.op = "permissionUnassign" => r.want = LinksOf(r.ids) \ (r.ids \X r.args)

AloneInv ==
    \A q \in alone :
        /\ InFlight(q)
        /\ \A x \in Request \ {q} : ~Compete(req[q], req[x])
        /\ UpToDate(req[q])

\* The user that is being created is nobody else's: no row, no link, no request.
CreatedInv ==
    \A q \in Request : req[q].op = "createUser" =>
        /\ req[q].ids \cap rows = {}
        /\ \A l \in links : l[1] \notin req[q].ids
        /\ \A x \in Request \ {q} : req[q].ids \cap req[x].ids = {}

\* Request r is not about to take link l away.
Spares(r, l) ==
    /\ r.op = "delete" => l[1] \notin r.ids /\ l[2] \notin r.ids
    /\ r.op \in LinkOps /\ l[1] \in r.ids =>
          IF r.op = "setRoles" /\ r.pc = "found" THEN l[2] \in r.args ELSE l \in r.want

GrantedInv ==
    \A l \in granted : Effective(l) /\ \A q \in Request : Spares(req[q], l)

\* An id whose row is gone and that no save in flight can bring back.
Lost(x) ==
    /\ x \in issued \ rows
    /\ \A q \in Request : req[q].op \in SaveOps => x \notin req[q].ids

\* Request r is not about to make link l.
Omits(r, l) ==
    r.op \in LinkOps /\ l[1] \in r.ids =>
        l \notin r.want /\ (r.pc = "found" => l[2] \notin r.args)

RevokedInv ==
    \A l \in revoked :
        \/ Lost(l[1]) \/ Lost(l[2])
        \/ /\ l \notin links
           /\ l[1] \in issued
           /\ \A q \in Request : Omits(req[q], l)

RetiredInv == \A x \in retired : Lost(x)

ShapeInv == \A q \in Request : Shape(req[q])

IndInv ==
    /\ TypeOK /\ ShapeInv /\ IssuedInv /\ AloneInv /\ CreatedInv
    /\ GrantedInv /\ RevokedInv /\ RetiredInv

=============================================================================
