------------------------ MODULE AccessControlProofs ------------------------
(***************************************************************************)
(* Proofs about AccessControl for any number of ids and of requests in     *)
(* flight: type correctness, that what a request without a competitor      *)
(* reported stays true, and that what it writes is a step of AccessTables. *)
(***************************************************************************)
EXTENDS AccessControl, TLAPS

\* The type of a request slot survives a new value of one slot.
LEMMA SlotType ==
    ASSUME req \in [Request -> RequestState \cup {Idle}],
           NEW q \in Request, NEW r \in RequestState \cup {Idle},
           req' = [req EXCEPT ![q] = r]
    PROVE  /\ req' \in [Request -> RequestState \cup {Idle}]
           /\ req'[q] = r
           /\ \A x \in Request \ {q} : req'[x] = req[x]
  OBVIOUS

\* The fields of the records the steps build.
LEMMA NewFields ==
    ASSUME NEW op, NEW pc, NEW ids, NEW args, NEW want
    PROVE  LET r == New(op, pc, ids, args, want)
           IN  /\ r.op = op /\ r.pc = pc /\ r.ids = ids /\ r.args = args
               /\ r.want = want /\ r.have = {} /\ r.found = {}
               /\ op \in Ops /\ pc \in {"found", "ready", "loaded"} /\ ids \subseteq Id
                    /\ args \subseteq Id /\ want \subseteq Pair => r \in RequestState
  BY DEF New, RequestState

LEMMA PreparedFields ==
    ASSUME NEW r \in RequestState, NEW args, NEW want
    PROVE  LET s == Prepared(r, args, want)
           IN  /\ s.op = r.op /\ s.pc = "ready" /\ s.ids = r.ids /\ s.args = args
               /\ s.want = want /\ s.have = r.have /\ s.found = r.found
               /\ args \subseteq Id /\ want \subseteq Pair => s \in RequestState
  BY DEF Prepared, RequestState

LEMMA LoadedFields ==
    ASSUME NEW r \in RequestState, NEW found, NEW have
    PROVE  LET s == Loaded(r, found, have)
           IN  /\ s.op = r.op /\ s.pc = "loaded" /\ s.ids = r.ids /\ s.args = r.args
               /\ s.want = r.want /\ s.have = have /\ s.found = found
               /\ found \subseteq Id /\ have \subseteq Pair => s \in RequestState
  BY DEF Loaded, RequestState

LEMMA IdleShape ==
    /\ Idle.op = "none" /\ Idle.pc = "idle" /\ Idle.ids = {} /\ Idle.args = {}
    /\ Idle.want = {} /\ Idle.have = {} /\ Shape(Idle)
  BY NewFields DEF Shape, Idle, AssignOps, LinkOps, SaveOps, Ops

LEMMA BusySlot ==
    ASSUME req \in [Request -> RequestState \cup {Idle}], NEW q \in Request,
           req[q].pc \in {"found", "ready", "loaded"}
    PROVE  req[q] \in RequestState
  BY IdleShape

\* Type correctness of the steps.  Shape is needed to know that the links a
\* request reports join rows of the right tables.
LEMMA TypeStep == TypeOK /\ ShapeInv /\ IssuedInv /\ [Next]_vars => TypeOK' /\ ShapeInv'
<1> SUFFICES ASSUME TypeOK, ShapeInv, IssuedInv, [Next]_vars
             PROVE  TypeOK' /\ ShapeInv'
  OBVIOUS
<1> USE DEF TypeOK, ShapeInv
<1>create. ASSUME NEW x \in Id, Create(x) PROVE TypeOK' /\ ShapeInv'
  BY <1>create DEF Create, reported
<1>user. ASSUME NEW q \in Request, NEW u \in User, NEW R \in SUBSET Role, CreateUser(q, u, R)
         PROVE  TypeOK' /\ ShapeInv'
  <2> DEFINE r == New("createUser", "ready", {u}, R \cap rows, {u} \X (R \cap rows))
  <2>1. r \in RequestState /\ Shape(r)
    BY <1>user, NewFields DEF CreateUser, Shape, Id, Pair, AssignOps, LinkOps, Ops, SaveOps
  <2>2. req' = [req EXCEPT ![q] = r] /\ alone' \subseteq Request
    BY <1>user DEF CreateUser, Begin
  <2> HIDE DEF r
  <2>3. req' \in [Request -> RequestState \cup {Idle}] /\ \A x \in Request : Shape(req'[x])
    BY <2>1, <2>2, SlotType
  <2> QED BY <1>user, <2>2, <2>3 DEF CreateUser, reported, Id
<1>update. ASSUME NEW q \in Request, NEW x \in Id, Update(q, x) PROVE TypeOK' /\ ShapeInv'
  <2> DEFINE r == New("update", "ready", {x}, {}, {})
  <2>1. r \in RequestState /\ Shape(r)
    BY NewFields DEF Shape, Id, Pair, AssignOps, LinkOps, Ops, SaveOps
  <2>2. req' = [req EXCEPT ![q] = r] /\ alone' \subseteq Request
    BY <1>update DEF Update, Begin
  <2> HIDE DEF r
  <2>3. req' \in [Request -> RequestState \cup {Idle}] /\ \A y \in Request : Shape(req'[y])
    BY <2>1, <2>2, SlotType
  <2> QED BY <1>update, <2>2, <2>3 DEF Update, reported
<1>updateUser. ASSUME NEW q \in Request, NEW u \in User, NEW R \in SUBSET Role, UpdateUser(q, u, R)
               PROVE  TypeOK' /\ ShapeInv'
  <2> DEFINE r == New("setRoles", "found", {u}, R, {})
  <2>1. r \in RequestState /\ Shape(r)
    BY NewFields DEF Shape, Id, Pair, AssignOps, LinkOps, Ops, SaveOps
  <2>2. req' = [req EXCEPT ![q] = r] /\ alone' \subseteq Request
    BY <1>updateUser DEF UpdateUser, Begin
  <2> HIDE DEF r
  <2>3. req' \in [Request -> RequestState \cup {Idle}] /\ \A y \in Request : Shape(req'[y])
    BY <2>1, <2>2, SlotType
  <2> QED BY <1>updateUser, <2>2, <2>3 DEF UpdateUser
<1>assign. ASSUME NEW q \in Request, NEW op \in {"permissionAssign", "permissionAssignSelected"},
                  NEW x \in Role, NEW P \in SUBSET Permission, PermissionAssign(q, op, x, P)
           PROVE  TypeOK' /\ ShapeInv'
  <2> DEFINE r == New(op, "found", {x}, P, LinksOf({x}))
  <2>1. r \in RequestState /\ Shape(r)
    BY NewFields DEF Shape, Id, Pair, AssignOps, LinkOps, Ops, SaveOps, LinksOf
  <2>2. req' = [req EXCEPT ![q] = r] /\ alone' \subseteq Request
    BY <1>assign DEF PermissionAssign, Begin
  <2> HIDE DEF r
  <2>3. req' \in [Request -> RequestState \cup {Idle}] /\ \A y \in Request : Shape(req'[y])
    BY <2>1, <2>2, SlotType
  <2> QED BY <1>assign, <2>2, <2>3 DEF PermissionAssign
<1>unassign. ASSUME NEW q \in Request, NEW x \in Role, NEW P \in SUBSET Permission,
                    PermissionUnassign(q, x, P)
             PROVE  TypeOK' /\ ShapeInv'
  <2> DEFINE r == New("permissionUnassign", "ready", {x}, P, Filtered(x, P))
  <2>1. r \in RequestState /\ Shape(r)
    BY NewFields DEF Shape, Id, Pair, AssignOps, LinkOps, Ops, SaveOps, LinksOf, Filtered
  <2>2. req' = [req EXCEPT ![q] = r] /\ alone' \subseteq Request
    BY <1>unassign DEF PermissionUnassign, Begin
  <2> HIDE DEF r
  <2>3. req' \in [Request -> RequestState \cup {Idle}] /\ \A y \in Request : Shape(req'[y])
    BY <2>1, <2>2, SlotType
  <2> QED BY <1>unassign, <2>2, <2>3 DEF PermissionUnassign
<1>delete. ASSUME NEW q \in Request, NEW X \in SUBSET Id, Delete(q, X) PROVE TypeOK' /\ ShapeInv'
  <2> DEFINE r == New("delete", "ready", X, {}, {})
  <2>1. r \in RequestState /\ Shape(r)
    BY NewFields DEF Shape, Id, Pair, AssignOps, LinkOps, Ops, SaveOps
  <2>2. req' = [req EXCEPT ![q] = r] /\ alone' \subseteq Request
    BY <1>delete DEF Delete, Begin
  <2> HIDE DEF r
  <2>3. req' \in [Request -> RequestState \cup {Idle}] /\ \A y \in Request : Shape(req'[y])
    BY <2>1, <2>2, SlotType
  <2> QED BY <1>delete, <2>2, <2>3 DEF Delete
<1>end. ASSUME NEW q \in Request, End(q)
        PROVE  /\ req' \in [Request -> RequestState \cup {Idle}]
               /\ \A y \in Request : Shape(req'[y])
               /\ alone' \subseteq Request
  BY <1>end, SlotType, IdleShape DEF End
<1>step. ASSUME NEW q \in Request, NEW r \in RequestState, Shape(r), Step(q, r)
         PROVE  /\ req' \in [Request -> RequestState \cup {Idle}]
                /\ \A y \in Request : Shape(req'[y])
                /\ alone' \subseteq Request
  BY <1>step, SlotType DEF Step
<1>permissions. ASSUME NEW q \in Request, FindPermissions(q) PROVE TypeOK' /\ ShapeInv'
  <2> DEFINE found == req[q].args \cap rows
             r == Prepared(req[q], found, Pushed(q, found))
  <2>1. req[q] \in RequestState
    BY <1>permissions, BusySlot DEF FindPermissions
  <2>2. r \in RequestState /\ Shape(r)
    <3>1. PICK x \in Role : req[q].ids = {x}
      BY <1>permissions DEF FindPermissions, Shape, AssignOps
    <3>2. req[q].args \subseteq Permission
      BY <1>permissions DEF FindPermissions, Shape, AssignOps
    <3>3. Pushed(q, found) \subseteq Pair
      BY <2>1, <3>1, <3>2 DEF Pushed, RequestState, Pair
    <3>4. r \in RequestState
      BY <2>1, <3>3, PreparedFields DEF RequestState
    <3>5. Shape(r)
      BY <1>permissions, <2>1, <3>1, <3>2, PreparedFields
      DEF FindPermissions, Shape, AssignOps, LinkOps, Pushed
    <3> QED BY <3>4, <3>5
  <2>3. End(q) \/ Step(q, r)
    BY <1>permissions DEF FindPermissions
  <2> HIDE DEF r
  <2> QED BY <1>permissions, <2>2, <2>3, <1>end, <1>step DEF FindPermissions, reported
<1>roles. ASSUME NEW q \in Request, FindRoles(q) PROVE TypeOK' /\ ShapeInv'
  <2> DEFINE found == req[q].args \cap rows
             r == Prepared(req[q], found, Merged(q, found))
  <2>1. req[q] \in RequestState
    BY <1>roles, BusySlot DEF FindRoles
  <2>2. found # {} => r \in RequestState /\ Shape(r)
    <3>1. PICK x \in User : req[q].ids = {x}
      BY <1>roles DEF FindRoles, Shape
    <3>2. req[q].args \subseteq Role
      BY <1>roles DEF FindRoles, Shape
    <3>3. Merged(q, found) \subseteq Pair
      BY <2>1, <3>1, <3>2 DEF Merged, RequestState, Pair
    <3>4. r \in RequestState
      BY <2>1, <3>3, PreparedFields DEF RequestState
    <3>5. /\ r.op = "setRoles" /\ r.pc = "ready" /\ r.ids = {x} /\ r.args = found
          /\ r.want = {x} \X found /\ r.have = req[q].have
      BY <1>roles, <2>1, <3>1, PreparedFields DEF FindRoles, Merged
    <3>6. found \subseteq Role /\ \A l \in req[q].have : l[1] \in {x}
      BY <1>roles, <3>1, <3>2 DEF FindRoles, Shape, LinkOps
    <3> HIDE DEF r, found
    <3>7. found # {} => Shape(r)
      BY <3>5, <3>6 DEF Shape, AssignOps, LinkOps
    <3> QED BY <3>4, <3>7
  <2>3. End(q) \/ (found # {} /\ Step(q, r))
    BY <1>roles DEF FindRoles
  <2> HIDE DEF r, found
  <2> QED BY <1>roles, <2>2, <2>3, <1>end, <1>step DEF FindRoles, reported
<1>saveLoad. ASSUME NEW q \in Request, SaveLoad(q) PROVE TypeOK' /\ ShapeInv'
  <2> DEFINE r == Loaded(req[q], req[q].ids \cap rows, LoadedLinks(q))
  <2>1. req[q] \in RequestState
    BY <1>saveLoad, BusySlot DEF SaveLoad
  <2>2. r \in RequestState
    BY <2>1, LoadedFields DEF RequestState, LoadedLinks, LinksOf
  <2>3. Shape(r)
    BY <1>saveLoad, <2>1, LoadedFields
    DEF SaveLoad, Shape, AssignOps, LinkOps, LoadedLinks, LinksOf
  <2> HIDE DEF r
  <2>4. Step(q, r)
    BY <1>saveLoad DEF SaveLoad, r
  <2> QED BY <1>saveLoad, <2>2, <2>3, <2>4, <1>step DEF SaveLoad, reported
<1>removeLoad. ASSUME NEW q \in Request, RemoveLoad(q) PROVE TypeOK' /\ ShapeInv'
  <2> DEFINE r == Loaded(req[q], {}, LinksTouching(req[q].ids))
  <2>1. req[q] \in RequestState
    BY <1>removeLoad, BusySlot DEF RemoveLoad
  <2>2. r \in RequestState
    BY <2>1, LoadedFields DEF LinksTouching
  <2>3. Shape(r)
    BY <1>removeLoad, <2>1, LoadedFields
    DEF RemoveLoad, Shape, AssignOps, LinkOps, LinksTouching
  <2> HIDE DEF r
  <2>4. Step(q, r)
    BY <1>removeLoad DEF RemoveLoad, r
  <2> QED BY <1>removeLoad, <2>2, <2>3, <2>4, <1>step DEF RemoveLoad, reported
<1>report. ASSUME NEW q \in Request, req[q] \in RequestState, Report(q)
           PROVE  granted' \subseteq Pair /\ revoked' \subseteq Pair /\ retired' \subseteq Id
  <2>1. req[q].op \in {"permissionAssign", "permissionAssignSelected", "setRoles", "createUser",
                       "permissionUnassign"} => req[q].ids \X req[q].args \subseteq Pair
    BY <1>report DEF Shape, AssignOps, Pair
  <2>2. req[q].op = "setRoles" => req[q].ids \X (Role \ req[q].args) \subseteq Pair
    BY <1>report DEF Shape, Pair
  <2>3. req[q].ids \subseteq Id
    BY <1>report DEF RequestState
  <2> QED BY <1>report, <2>1, <2>2, <2>3 DEF Report
<1>saveCommit. ASSUME NEW q \in Request, SaveCommit(q) PROVE TypeOK' /\ ShapeInv'
  <2>1. req[q] \in RequestState
    BY <1>saveCommit, BusySlot DEF SaveCommit
  <2>2. links' \subseteq Pair
    BY <1>saveCommit, <2>1 DEF SaveCommit, LinksAfterSave, RequestState
  <2>3. rows' \subseteq issued'
    BY <1>saveCommit DEF SaveCommit, RowsAfterSave, IssuedInv, InFlight
  <2> QED BY <1>saveCommit, <2>1, <2>2, <2>3, <1>end, <1>report DEF SaveCommit
<1>removeCommit. ASSUME NEW q \in Request, RemoveCommit(q) PROVE TypeOK' /\ ShapeInv'
  <2>1. req[q] \in RequestState
    BY <1>removeCommit, BusySlot DEF RemoveCommit
  <2> QED BY <1>removeCommit, <2>1, <1>end, <1>report DEF RemoveCommit
<1>fail. ASSUME NEW q \in Request, Fail(q) PROVE TypeOK' /\ ShapeInv'
  BY <1>fail, <1>end DEF Fail, reported
<1>stutter. CASE UNCHANGED vars
  BY <1>stutter DEF vars
<1> QED
  BY <1>create, <1>user, <1>update, <1>updateUser, <1>assign, <1>unassign, <1>delete,
     <1>permissions, <1>roles, <1>saveLoad, <1>removeLoad, <1>saveCommit, <1>removeCommit,
     <1>fail, <1>stutter
  DEF Next, StoreRole, StorePermission, Register, UpdateRole, UpdatePermission,
     UpdateProfile, DeleteUsers, DeleteRoles, DeletePermissions

\* What the four kinds of step do to the slots: the one that moves gets the
\* fields named, the others keep theirs.
LEMMA BeginSlot ==
    ASSUME TypeOK, NEW q \in Request, NEW op, NEW pc, NEW ids, NEW args, NEW want,
           Begin(q, New(op, pc, ids, args, want))
    PROVE  /\ req'[q].op = op /\ req'[q].pc = pc /\ req'[q].ids = ids
           /\ req'[q].args = args /\ req'[q].want = want
           /\ req'[q].have = {} /\ req'[q].found = {}
           /\ ~InFlight(q)
           /\ \A x \in Request \ {q} : req'[x] = req[x]
           /\ \A x \in alone' \ {q} : x \in alone /\ ~Compete(req'[q], req[x])
           /\ q \in alone' /\ q \notin alone =>
                 \A x \in Request \ {q} : ~Compete(req'[q], req[x])
<1> DEFINE r == New(op, pc, ids, args, want)
<1>1. /\ r.op = op /\ r.pc = pc /\ r.ids = ids /\ r.args = args
      /\ r.want = want /\ r.have = {} /\ r.found = {}
  BY NewFields
<1> HIDE DEF r
<1>2. /\ ~InFlight(q)
      /\ req' = [req EXCEPT ![q] = r]
      /\ alone' = {x \in alone : ~Compete(r, req[x])}
                  \cup {x \in {q} : \A y \in Request \ {q} : ~Compete(r, req[y])}
  BY DEF Begin, r
<1>3. req'[q] = r /\ \A x \in Request \ {q} : req'[x] = req[x]
  BY <1>2 DEF TypeOK
<1>4. \A x \in alone' \ {q} : x \in alone /\ ~Compete(req'[q], req[x])
  BY <1>2, <1>3
<1>5. q \in alone' /\ q \notin alone => \A x \in Request \ {q} : ~Compete(req'[q], req[x])
  BY <1>2, <1>3
<1> QED BY <1>1, <1>2, <1>3, <1>4, <1>5

LEMMA PreparedSlot ==
    ASSUME TypeOK, NEW q \in Request, req[q] \in RequestState,
           NEW args, NEW want, Step(q, Prepared(req[q], args, want))
    PROVE  /\ req'[q].op = req[q].op /\ req'[q].pc = "ready" /\ req'[q].ids = req[q].ids
           /\ req'[q].args = args /\ req'[q].want = want
           /\ req'[q].have = req[q].have /\ req'[q].found = req[q].found
           /\ \A x \in Request \ {q} : req'[x] = req[x]
           /\ alone' = alone
  BY PreparedFields DEF Step, TypeOK

LEMMA LoadedSlot ==
    ASSUME TypeOK, NEW q \in Request, req[q] \in RequestState,
           NEW found, NEW have, Step(q, Loaded(req[q], found, have))
    PROVE  /\ req'[q].op = req[q].op /\ req'[q].pc = "loaded" /\ req'[q].ids = req[q].ids
           /\ req'[q].args = req[q].args /\ req'[q].want = req[q].want
           /\ req'[q].have = have /\ req'[q].found = found
           /\ \A x \in Request \ {q} : req'[x] = req[x]
           /\ alone' = alone
  BY LoadedFields DEF Step, TypeOK

LEMMA EndSlot ==
    ASSUME TypeOK, NEW q \in Request, End(q)
    PROVE  /\ req'[q] = Idle /\ req'[q].pc = "idle" /\ req'[q].op = "none"
           /\ req'[q].ids = {} /\ req'[q].want = {} /\ req'[q].have = {}
           /\ \A x \in Request \ {q} : req'[x] = req[x]
           /\ alone' = alone \ {q}
  BY IdleShape DEF End, TypeOK

\* Ids in use have been issued: in particular no id of a deleted row is new.
LEMMA IssuedStep == TypeOK /\ ShapeInv /\ IssuedInv /\ [Next]_vars => IssuedInv'
<1> SUFFICES ASSUME TypeOK, ShapeInv, IssuedInv, [Next]_vars
             PROVE  IssuedInv'
  OBVIOUS
<1>0. rows \subseteq issued /\ req \in [Request -> RequestState \cup {Idle}]
  BY DEF TypeOK
<1>create. ASSUME NEW x \in Id, Create(x) PROVE IssuedInv'
  BY <1>create DEF Create, reported, IssuedInv, InFlight
<1>user. ASSUME NEW q \in Request, NEW u \in User, NEW R \in SUBSET Role, CreateUser(q, u, R)
         PROVE  IssuedInv'
  BY <1>user, <1>0, BeginSlot DEF CreateUser, reported, IssuedInv, InFlight
<1>update. ASSUME NEW q \in Request, NEW x \in Id, Update(q, x) PROVE IssuedInv'
  BY <1>update, <1>0, BeginSlot DEF Update, reported, Exists, IssuedInv, InFlight
<1>updateUser. ASSUME NEW q \in Request, NEW u \in User, NEW R \in SUBSET Role, UpdateUser(q, u, R)
               PROVE  IssuedInv'
  BY <1>updateUser, <1>0, BeginSlot DEF UpdateUser, Exists, IssuedInv, InFlight
<1>assign. ASSUME NEW q \in Request, NEW op \in {"permissionAssign", "permissionAssignSelected"},
                  NEW x \in Role, NEW P \in SUBSET Permission, PermissionAssign(q, op, x, P)
           PROVE  IssuedInv'
  BY <1>assign, <1>0, BeginSlot DEF PermissionAssign, Exists, LinksOf, IssuedInv, InFlight
<1>unassign. ASSUME NEW q \in Request, NEW x \in Role, NEW P \in SUBSET Permission,
                    PermissionUnassign(q, x, P)
             PROVE  IssuedInv'
  BY <1>unassign, <1>0, BeginSlot
  DEF PermissionUnassign, Exists, Filtered, LinksOf, IssuedInv, InFlight
<1>delete. ASSUME NEW q \in Request, NEW X \in SUBSET Id, Delete(q, X) PROVE IssuedInv'
  BY <1>delete, <1>0, BeginSlot DEF Delete, IssuedInv, InFlight
<1>end. ASSUME NEW q \in Request, End(q), issued' = issued,
               \A l \in links' : l[1] \in issued /\ l[2] \in issued, retired' \subseteq issued
        PROVE  IssuedInv'
  BY <1>end, EndSlot DEF IssuedInv, InFlight
<1>permissions. ASSUME NEW q \in Request, FindPermissions(q) PROVE IssuedInv'
  <2>1. req[q] \in RequestState /\ InFlight(q)
    BY <1>permissions, <1>0, BusySlot DEF FindPermissions, InFlight
  <2>2. CASE End(q)
    BY <2>2, <1>permissions, <1>end DEF FindPermissions, reported, IssuedInv
  <2>3. CASE ~End(q)
    BY <2>1, <2>3, <1>0, <1>permissions, PreparedSlot
    DEF FindPermissions, reported, Pushed, IssuedInv, InFlight
  <2> QED BY <2>2, <2>3
<1>roles. ASSUME NEW q \in Request, FindRoles(q) PROVE IssuedInv'
  <2>1. req[q] \in RequestState /\ InFlight(q)
    BY <1>roles, <1>0, BusySlot DEF FindRoles, InFlight
  <2>2. CASE End(q)
    BY <2>2, <1>roles, <1>end DEF FindRoles, reported, IssuedInv
  <2>3. CASE ~End(q)
    BY <2>1, <2>3, <1>0, <1>roles, PreparedSlot
    DEF FindRoles, reported, Merged, IssuedInv, InFlight
  <2> QED BY <2>2, <2>3
<1>saveLoad. ASSUME NEW q \in Request, SaveLoad(q) PROVE IssuedInv'
  <2>1. req[q] \in RequestState /\ InFlight(q)
    BY <1>saveLoad, <1>0, BusySlot DEF SaveLoad, InFlight
  <2>2. /\ req'[q].ids = req[q].ids /\ req'[q].want = req[q].want
        /\ \A x \in Request \ {q} : req'[x] = req[x]
    BY <2>1, <1>saveLoad, LoadedSlot DEF SaveLoad
  <2> QED BY <2>1, <2>2, <1>saveLoad DEF SaveLoad, reported, IssuedInv, InFlight
<1>removeLoad. ASSUME NEW q \in Request, RemoveLoad(q) PROVE IssuedInv'
  <2>1. req[q] \in RequestState /\ InFlight(q)
    BY <1>removeLoad, <1>0, BusySlot DEF RemoveLoad, InFlight
  <2>2. /\ req'[q].ids = req[q].ids /\ req'[q].want = req[q].want
        /\ \A x \in Request \ {q} : req'[x] = req[x]
    BY <2>1, <1>removeLoad, LoadedSlot DEF RemoveLoad
  <2> QED BY <2>1, <2>2, <1>removeLoad DEF RemoveLoad, reported, IssuedInv, InFlight
<1>saveCommit. ASSUME NEW q \in Request, SaveCommit(q) PROVE IssuedInv'
  <2>1. \A l \in links' : l[1] \in issued /\ l[2] \in issued
    BY <1>saveCommit DEF SaveCommit, LinksAfterSave, IssuedInv, InFlight
  <2>2. retired' \subseteq issued
    BY <1>saveCommit DEF SaveCommit, Report, IssuedInv, InFlight
  <2> QED BY <1>saveCommit, <2>1, <2>2, <1>end DEF SaveCommit
<1>removeCommit. ASSUME NEW q \in Request, RemoveCommit(q) PROVE IssuedInv'
  <2>1. \A l \in links' : l[1] \in issued /\ l[2] \in issued
    BY <1>removeCommit DEF RemoveCommit, IssuedInv
  <2>2. retired' \subseteq issued
    BY <1>removeCommit DEF RemoveCommit, Report, IssuedInv, InFlight
  <2> QED BY <1>removeCommit, <2>1, <2>2, <1>end DEF RemoveCommit
<1>fail. ASSUME NEW q \in Request, Fail(q) PROVE IssuedInv'
  BY <1>fail, <1>end DEF Fail, reported, IssuedInv
<1>stutter. CASE UNCHANGED vars
  BY <1>stutter DEF vars, IssuedInv, InFlight
<1> QED
  BY <1>create, <1>user, <1>update, <1>updateUser, <1>assign, <1>unassign, <1>delete,
     <1>permissions, <1>roles, <1>saveLoad, <1>removeLoad, <1>saveCommit, <1>removeCommit,
     <1>fail, <1>stutter
  DEF Next, StoreRole, StorePermission, Register, UpdateRole, UpdatePermission,
     UpdateProfile, DeleteUsers, DeleteRoles, DeletePermissions

-----------------------------------------------------------------------------
(***************************************************************************)
(* Requests without a competitor.                                          *)
(***************************************************************************)

LEMMA CompeteSymmetric == ASSUME NEW r, NEW s PROVE Compete(r, s) <=> Compete(s, r)
  BY DEF Compete

LEMMA PairParts ==
    ASSUME NEW l \in Pair
    PROVE  /\ l[1] \in Id /\ l[2] \in Id /\ l = <<l[1], l[2]>>
           /\ l[1] \in User <=> l[2] \in Role
           /\ l[1] \in Role <=> l[2] \in Permission
           /\ l[1] \in User \/ l[1] \in Role
  BY IdsDisjoint DEF Pair, Id

\* Two requests that do not compete: what one saves or removes is not within
\* the other's reach.
LEMMA OutOfReach ==
    ASSUME NEW r \in RequestState, NEW s, ~Compete(r, s), Shape(r)
    PROVE  /\ r.ids \cap s.ids = {}
           /\ r.op \in LinkOps => r.args \cap s.ids = {}
           /\ r.op \in LinkOps => \A l \in Pair : l[1] \in r.ids => l[2] \notin s.ids
<1>1. s.ids \cap Reach(r) = {}
  BY DEF Compete
<1>2. r.ids \subseteq Reach(r)
  BY DEF Reach
<1>3. ASSUME r.op \in LinkOps PROVE r.args \subseteq Reach(r)
  BY <1>3 DEF Shape, LinkOps, AssignOps, Reach, Pair, Id
<1>4. ASSUME r.op \in LinkOps, NEW l \in Pair, l[1] \in r.ids PROVE l[2] \in Reach(r)
  BY <1>4, PairParts DEF Reach
<1> QED BY <1>1, <1>2, <1>3, <1>4

\* A transaction on other ids leaves what such a request has read up to date.
LEMMA UpToDateFar ==
    ASSUME TypeOK, TypeOK', ShapeInv, NEW q \in Request, NEW x \in Request,
           req[x] \in RequestState, req'[x] = req[x],
           ~Compete(req[x], req[q]), UpToDate(req[x]),
           \A y \in Id : y \notin req[q].ids => (y \in rows' <=> y \in rows),
           \A l \in Pair : l[1] \notin req[q].ids /\ l[2] \notin req[q].ids
                             => (l \in links' <=> l \in links)
    PROVE  UpToDate(req[x])'
<1> DEFINE r == req[x]
<1>1. r \in RequestState /\ Shape(r)
  BY DEF ShapeInv
<1>2. /\ r.ids \cap req[q].ids = {}
      /\ r.op \in LinkOps => r.args \cap req[q].ids = {}
      /\ r.op \in LinkOps => \A l \in Pair : l[1] \in r.ids => l[2] \notin req[q].ids
  <2> HIDE DEF r
  <2> QED BY <1>1, OutOfReach DEF r
<1>3. r.ids \subseteq Id /\ r.args \subseteq Id
  BY <1>1 DEF RequestState
<1>4. links \subseteq Pair /\ links' \subseteq Pair
  BY DEF TypeOK
<1> HIDE DEF r
<1>5. r.ids \cap rows' = r.ids \cap rows
  BY <1>2, <1>3 DEF r
<1>6. r.op \in LinkOps => r.args \cap rows' = r.args \cap rows
  BY <1>2, <1>3 DEF r
<1>7. ASSUME r.op \in LinkOps PROVE LinksOf(r.ids)' = LinksOf(r.ids)
  <2>1. \A l \in Pair : l[1] \in r.ids =>
           /\ l[1] \notin req[q].ids /\ l[2] \notin req[q].ids
           /\ l[1] \in Id /\ l[2] \in Id
    BY <1>2, <1>7, PairParts
  <2>2. r' = r
    BY DEF r
  <2> QED BY <2>1, <2>2, <1>4 DEF LinksOf
<1>8. UpToDate(r) /\ r' = r
  BY DEF r
<1>9. r.op # "createUser" => r.ids \subseteq rows'
  BY <1>5, <1>8 DEF UpToDate
<1>10. r.op \in AssignOps \cup {"setRoles", "createUser"} /\ r.pc # "found" => r.args \subseteq rows'
  BY <1>6, <1>8 DEF UpToDate, AssignOps, LinkOps
<1>11. r.pc = "loaded" /\ r.op \in SaveOps => r.found = r.ids \cap rows'
  BY <1>5, <1>8 DEF UpToDate
<1>12. r.pc = "loaded" /\ r.op \in LinkOps => r.have = LinksOf(r.ids)'
  BY <1>7, <1>8 DEF UpToDate
<1>13. r.op \in AssignOps =>
          r.want = LinksOf(r.ids)' \cup (IF r.pc = "found" THEN {} ELSE r.ids \X r.args)
  BY <1>7, <1>8 DEF UpToDate, LinkOps, AssignOps
<1>14. r.op = "permissionUnassign" => r.want = LinksOf(r.ids)' \ (r.ids \X r.args)
  BY <1>7, <1>8 DEF UpToDate, LinkOps
<1>15. UpToDate(r)'
  BY <1>8, <1>9, <1>10, <1>11, <1>12, <1>13, <1>14 DEF UpToDate
<1> QED BY <1>15 DEF r

LEMMA CompeteFields ==
    ASSUME NEW r, NEW s, NEW t, s.op = t.op, s.ids = t.ids
    PROVE  Compete(r, s) <=> Compete(r, t)
  BY DEF Compete, Reach

LEMMA IdleCompetes == ASSUME NEW r PROVE ~Compete(r, Idle)
  BY IdleShape DEF Compete, Reach, LinkOps

LEMMA AloneBegin ==
    ASSUME TypeOK, AloneInv, NEW q \in Request,
           NEW op, NEW pc, NEW ids, NEW args, NEW want,
           Begin(q, New(op, pc, ids, args, want)), pc \in {"found", "ready"},
           rows' = rows, links' = links, UpToDate(req'[q])
    PROVE  AloneInv'
<1>1. /\ req'[q].pc = pc /\ ~InFlight(q)
      /\ \A x \in Request \ {q} : req'[x] = req[x]
      /\ \A x \in alone' \ {q} : x \in alone /\ ~Compete(req'[q], req[x])
      /\ q \in alone' /\ q \notin alone => \A x \in Request \ {q} : ~Compete(req'[q], req[x])
  BY BeginSlot
<1>2. alone \subseteq Request /\ q \notin alone
  BY <1>1 DEF TypeOK, AloneInv
<1> USE DEF AloneInv
<1>3. ASSUME NEW y \in alone', y # q
      PROVE  /\ InFlight(y)'
             /\ \A x \in Request \ {y} : ~Compete(req'[y], req'[x])
             /\ UpToDate(req[y])'
  <2>1. y \in alone /\ y \in Request /\ req'[y] = req[y] /\ ~Compete(req[y], req'[q])
    BY <1>1, <1>2, <1>3, CompeteSymmetric
  <2>2. \A x \in Request \ {y} : ~Compete(req'[y], req'[x])
    BY <1>1, <2>1
  <2> QED BY <2>1, <2>2 DEF InFlight, UpToDate, LinksOf
<1>4. ASSUME q \in alone'
      PROVE  /\ InFlight(q)'
             /\ \A x \in Request \ {q} : ~Compete(req'[q], req'[x])
             /\ UpToDate(req[q])'
  BY <1>1, <1>2, <1>4 DEF InFlight, UpToDate, LinksOf
<1> QED BY <1>3, <1>4

LEMMA AloneMove ==
    ASSUME TypeOK, AloneInv, NEW q \in Request,
           req'[q].op = req[q].op, req'[q].ids = req[q].ids, req'[q].pc # "idle",
           \A x \in Request \ {q} : req'[x] = req[x], alone' = alone,
           rows' = rows, links' = links,
           UpToDate(req[q]) => UpToDate(req'[q])
    PROVE  AloneInv'
<1>1. ASSUME NEW y \in alone', NEW x \in Request \ {y} PROVE ~Compete(req'[y], req'[x])
  <2>1. y \in Request /\ ~Compete(req[y], req[x])
    BY DEF TypeOK, AloneInv
  <2>2. \A z \in Request : req'[z].op = req[z].op /\ req'[z].ids = req[z].ids
    OBVIOUS
  <2> QED BY <2>1, <2>2 DEF Compete, Reach
<1>2. ASSUME NEW y \in alone' PROVE InFlight(y)' /\ UpToDate(req[y])'
  <2>1. y \in Request /\ InFlight(y) /\ UpToDate(req[y])
    BY DEF TypeOK, AloneInv
  <2>2. UpToDate(req'[y])
    BY <2>1
  <2> QED BY <2>1, <2>2 DEF InFlight, UpToDate, LinksOf
<1> QED BY <1>1, <1>2 DEF AloneInv

LEMMA AloneEnd ==
    ASSUME TypeOK, TypeOK', ShapeInv, AloneInv, NEW q \in Request, End(q),
           \A y \in Id : y \notin req[q].ids => (y \in rows' <=> y \in rows),
           \A l \in Pair : l[1] \notin req[q].ids /\ l[2] \notin req[q].ids
                             => (l \in links' <=> l \in links)
    PROVE  AloneInv'
<1>1. req'[q] = Idle /\ (\A x \in Request \ {q} : req'[x] = req[x]) /\ alone' = alone \ {q}
  BY EndSlot
<1> SUFFICES ASSUME NEW y \in alone'
             PROVE  /\ InFlight(y)'
                    /\ \A x \in Request \ {y} : ~Compete(req'[y], req'[x])
                    /\ UpToDate(req[y])'
  BY DEF AloneInv
<1>2. y \in Request /\ y # q /\ InFlight(y) /\ UpToDate(req[y]) /\ req'[y] = req[y]
  BY <1>1 DEF TypeOK, AloneInv
<1>3. \A x \in Request \ {y} : ~Compete(req[y], req[x])
  BY <1>1 DEF AloneInv
<1>4. req[y] \in RequestState
  BY <1>2, IdleShape DEF TypeOK, InFlight
<1>5. UpToDate(req[y])'
  BY <1>2, <1>3, <1>4, UpToDateFar
<1>6. \A x \in Request \ {y} : ~Compete(req'[y], req'[x])
  BY <1>1, <1>2, <1>3, IdleCompetes
<1> QED BY <1>2, <1>5, <1>6 DEF InFlight

\* A request without a competitor keeps what it has read until it is answered.
LEMMA AloneStep ==
    TypeOK /\ ShapeInv /\ IssuedInv /\ AloneInv /\ [Next]_vars => AloneInv'
<1> SUFFICES ASSUME TypeOK, ShapeInv, IssuedInv, AloneInv, [Next]_vars
             PROVE  AloneInv'
  OBVIOUS
<1>0. rows \subseteq issued /\ req \in [Request -> RequestState \cup {Idle}] /\ TypeOK'
  BY TypeStep DEF TypeOK
<1>create. ASSUME NEW x \in Id, Create(x) PROVE AloneInv'
  <2>1. rows' = rows \cup {x} /\ x \notin issued /\ links' = links /\ req' = req /\ alone' = alone
    BY <1>create DEF Create
  <2>2. ASSUME NEW y \in alone, UpToDate(req[y]) PROVE UpToDate(req[y])'
    <3>1. y \in Request /\ req[y].ids \subseteq issued
      BY <2>2 DEF AloneInv, IssuedInv, TypeOK
    <3>2. LinksOf(req[y].ids)' = LinksOf(req[y].ids)
      BY <2>1 DEF LinksOf, IssuedInv
    <3> QED BY <2>1, <2>2, <3>1, <3>2 DEF UpToDate
  <2> QED BY <2>1, <2>2 DEF AloneInv, InFlight
<1>user. ASSUME NEW q \in Request, NEW u \in User, NEW R \in SUBSET Role, CreateUser(q, u, R)
         PROVE  AloneInv'
  <2>1. /\ Begin(q, New("createUser", "ready", {u}, R \cap rows, {u} \X (R \cap rows)))
        /\ rows' = rows /\ links' = links
    BY <1>user DEF CreateUser
  <2>2. req'[q].op = "createUser" /\ req'[q].pc = "ready" /\ req'[q].args = R \cap rows
    BY <2>1, BeginSlot
  <2>3. UpToDate(req'[q])
    BY <2>2 DEF UpToDate, AssignOps
  <2> QED BY <2>1, <2>3, AloneBegin
<1>update. ASSUME NEW q \in Request, NEW x \in Id, Update(q, x) PROVE AloneInv'
  <2>1. /\ Begin(q, New("update", "ready", {x}, {}, {}))
        /\ rows' = rows /\ links' = links /\ x \in rows
    BY <1>update DEF Update, Exists
  <2>2. req'[q].op = "update" /\ req'[q].pc = "ready" /\ req'[q].ids = {x}
    BY <2>1, BeginSlot
  <2>3. UpToDate(req'[q])
    BY <2>1, <2>2 DEF UpToDate, AssignOps
  <2> QED BY <2>1, <2>3, AloneBegin
<1>updateUser. ASSUME NEW q \in Request, NEW u \in User, NEW R \in SUBSET Role, UpdateUser(q, u, R)
               PROVE  AloneInv'
  <2>1. /\ Begin(q, New("setRoles", "found", {u}, R, {}))
        /\ rows' = rows /\ links' = links /\ u \in rows
    BY <1>updateUser DEF UpdateUser, Exists
  <2>2. req'[q].op = "setRoles" /\ req'[q].pc = "found" /\ req'[q].ids = {u}
    BY <2>1, BeginSlot
  <2>3. UpToDate(req'[q])
    BY <2>1, <2>2 DEF UpToDate, AssignOps
  <2> QED BY <2>1, <2>3, AloneBegin
<1>assign. ASSUME NEW q \in Request, NEW op \in {"permissionAssign", "permissionAssignSelected"},
                  NEW x \in Role, NEW P \in SUBSET Permission, PermissionAssign(q, op, x, P)
           PROVE  AloneInv'
  <2>1. /\ Begin(q, New(op, "found", {x}, P, LinksOf({x})))
        /\ rows' = rows /\ links' = links /\ x \in rows
    BY <1>assign DEF PermissionAssign, Exists
  <2>2. /\ req'[q].op = op /\ req'[q].pc = "found" /\ req'[q].ids = {x}
        /\ req'[q].want = LinksOf({x})
    BY <2>1, BeginSlot
  <2>3. UpToDate(req'[q])
    BY <2>1, <2>2 DEF UpToDate
  <2> QED BY <2>1, <2>3, AloneBegin
<1>unassign. ASSUME NEW q \in Request, NEW x \in Role, NEW P \in SUBSET Permission,
                    PermissionUnassign(q, x, P)
             PROVE  AloneInv'
  <2>1. /\ Begin(q, New("permissionUnassign", "ready", {x}, P, Filtered(x, P)))
        /\ rows' = rows /\ links' = links /\ x \in rows
    BY <1>unassign DEF PermissionUnassign, Exists
  <2>2. /\ req'[q].op = "permissionUnassign" /\ req'[q].pc = "ready" /\ req'[q].ids = {x}
        /\ req'[q].args = P /\ req'[q].want = Filtered(x, P)
    BY <2>1, BeginSlot
  <2>3. UpToDate(req'[q])
    BY <2>1, <2>2 DEF UpToDate, AssignOps, Filtered
  <2> QED BY <2>1, <2>3, AloneBegin
<1>delete. ASSUME NEW q \in Request, NEW X \in SUBSET Id, Delete(q, X) PROVE AloneInv'
  <2>1. /\ Begin(q, New("delete", "ready", X, {}, {}))
        /\ rows' = rows /\ links' = links /\ X \subseteq rows
    BY <1>delete DEF Delete
  <2>2. req'[q].op = "delete" /\ req'[q].pc = "ready" /\ req'[q].ids = X
    BY <2>1, BeginSlot
  <2>3. UpToDate(req'[q])
    BY <2>1, <2>2 DEF UpToDate, AssignOps
  <2> QED BY <2>1, <2>3, AloneBegin
<1>permissions. ASSUME NEW q \in Request, FindPermissions(q) PROVE AloneInv'
  <2>1. /\ req[q] \in RequestState /\ rows' = rows /\ links' = links
        /\ req[q].op \in AssignOps /\ req[q].pc = "found"
    BY <1>permissions, <1>0, BusySlot DEF FindPermissions, AssignOps
  <2>2. CASE End(q)
    BY <2>1, <2>2, <1>0, AloneEnd
  <2>3. CASE ~End(q)
    <3> DEFINE found == req[q].args \cap rows
    <3>1. Step(q, Prepared(req[q], found, Pushed(q, found)))
      BY <2>3, <1>permissions DEF FindPermissions
    <3>2. /\ req'[q].op = req[q].op /\ req'[q].pc = "ready" /\ req'[q].ids = req[q].ids
          /\ req'[q].args = found /\ req'[q].want = Pushed(q, found)
          /\ \A x \in Request \ {q} : req'[x] = req[x]
          /\ alone' = alone
      BY <2>1, <3>1, PreparedSlot
    <3>3. UpToDate(req[q]) => UpToDate(req'[q])
      BY <2>1, <3>2 DEF UpToDate, AssignOps, Pushed
    <3> QED BY <2>1, <3>2, <3>3, AloneMove
  <2> QED BY <2>2, <2>3
<1>roles. ASSUME NEW q \in Request, FindRoles(q) PROVE AloneInv'
  <2>1. /\ req[q] \in RequestState /\ rows' = rows /\ links' = links
        /\ req[q].op = "setRoles" /\ req[q].pc = "found"
    BY <1>roles, <1>0, BusySlot DEF FindRoles
  <2>2. CASE End(q)
    BY <2>1, <2>2, <1>0, AloneEnd
  <2>3. CASE ~End(q)
    <3> DEFINE found == req[q].args \cap rows
    <3>1. Step(q, Prepared(req[q], found, Merged(q, found)))
      BY <2>3, <1>roles DEF FindRoles
    <3>2. /\ req'[q].op = req[q].op /\ req'[q].pc = "ready" /\ req'[q].ids = req[q].ids
          /\ req'[q].args = found
          /\ \A x \in Request \ {q} : req'[x] = req[x]
          /\ alone' = alone
      BY <2>1, <3>1, PreparedSlot
    <3>3. UpToDate(req[q]) => UpToDate(req'[q])
      BY <2>1, <3>2 DEF UpToDate, AssignOps
    <3> QED BY <2>1, <3>2, <3>3, AloneMove
  <2> QED BY <2>2, <2>3
<1>saveLoad. ASSUME NEW q \in Request, SaveLoad(q) PROVE AloneInv'
  <2>1. /\ req[q] \in RequestState /\ rows' = rows /\ links' = links
        /\ req[q].op \in SaveOps /\ req[q].pc = "ready"
        /\ Step(q, Loaded(req[q], req[q].ids \cap rows, LoadedLinks(q)))
    BY <1>saveLoad, <1>0, BusySlot DEF SaveLoad
  <2>2. /\ req'[q].op = req[q].op /\ req'[q].pc = "loaded" /\ req'[q].ids = req[q].ids
        /\ req'[q].args = req[q].args /\ req'[q].want = req[q].want
        /\ req'[q].found = req[q].ids \cap rows /\ req'[q].have = LoadedLinks(q)
        /\ \A x \in Request \ {q} : req'[x] = req[x]
        /\ alone' = alone
    BY <2>1, LoadedSlot
  <2>3. UpToDate(req[q]) => UpToDate(req'[q])
    BY <2>1, <2>2 DEF UpToDate, LoadedLinks
  <2> QED BY <2>1, <2>2, <2>3, AloneMove
<1>removeLoad. ASSUME NEW q \in Request, RemoveLoad(q) PROVE AloneInv'
  <2>1. /\ req[q] \in RequestState /\ rows' = rows /\ links' = links
        /\ req[q].op = "delete" /\ req[q].pc = "ready"
        /\ Step(q, Loaded(req[q], {}, LinksTouching(req[q].ids)))
    BY <1>removeLoad, <1>0, BusySlot DEF RemoveLoad
  <2>2. /\ req'[q].op = req[q].op /\ req'[q].pc = "loaded" /\ req'[q].ids = req[q].ids
        /\ req'[q].args = req[q].args
        /\ \A x \in Request \ {q} : req'[x] = req[x]
        /\ alone' = alone
    BY <2>1, LoadedSlot
  <2>3. UpToDate(req[q]) => UpToDate(req'[q])
    BY <2>1, <2>2 DEF UpToDate, SaveOps, LinkOps, AssignOps
  <2> QED BY <2>1, <2>2, <2>3, AloneMove
<1>saveCommit. ASSUME NEW q \in Request, SaveCommit(q) PROVE AloneInv'
  <2>1. End(q) /\ req[q] \in RequestState
    BY <1>saveCommit, <1>0, BusySlot DEF SaveCommit
  <2>2. \A y \in Id : y \notin req[q].ids => (y \in rows' <=> y \in rows)
    BY <1>saveCommit DEF SaveCommit, RowsAfterSave
  <2>3. \A l \in req[q].want \cup req[q].have : l[1] \in req[q].ids
    BY <1>saveCommit DEF SaveCommit, ShapeInv, Shape, SaveOps
  <2>4. \A l \in Pair : l[1] \notin req[q].ids /\ l[2] \notin req[q].ids
                          => (l \in links' <=> l \in links)
    BY <1>saveCommit, <2>3 DEF SaveCommit, LinksAfterSave
  <2> QED BY <1>0, <2>1, <2>2, <2>4, AloneEnd
<1>removeCommit. ASSUME NEW q \in Request, RemoveCommit(q) PROVE AloneInv'
  <2>1. End(q)
    BY <1>removeCommit DEF RemoveCommit
  <2>2. \A y \in Id : y \notin req[q].ids => (y \in rows' <=> y \in rows)
    BY <1>removeCommit DEF RemoveCommit
  <2>3. \A l \in req[q].have : l[1] \in req[q].ids \/ l[2] \in req[q].ids
    BY <1>removeCommit DEF RemoveCommit, ShapeInv, Shape
  <2>4. \A l \in Pair : l[1] \notin req[q].ids /\ l[2] \notin req[q].ids
                          => (l \in links' <=> l \in links)
    BY <1>removeCommit, <2>3 DEF RemoveCommit
  <2> QED BY <1>0, <2>1, <2>2, <2>4, AloneEnd
<1>fail. ASSUME NEW q \in Request, Fail(q) PROVE AloneInv'
  BY <1>fail, <1>0, AloneEnd DEF Fail
<1>stutter. CASE UNCHANGED vars
  BY <1>stutter DEF vars, AloneInv, InFlight, UpToDate, LinksOf
<1> QED
  BY <1>create, <1>user, <1>update, <1>updateUser, <1>assign, <1>unassign, <1>delete,
     <1>permissions, <1>roles, <1>saveLoad, <1>removeLoad, <1>saveCommit, <1>removeCommit,
     <1>fail, <1>stutter
  DEF Next, StoreRole, StorePermission, Register, UpdateRole, UpdatePermission,
     UpdateProfile, DeleteUsers, DeleteRoles, DeletePermissions

-----------------------------------------------------------------------------
(***************************************************************************)
(* The user that is being created.                                         *)
(***************************************************************************)

\* A request that starts on rows that are there does not touch it.
LEMMA CreatedBegin ==
    ASSUME TypeOK, CreatedInv, NEW q \in Request,
           NEW op, NEW pc, NEW ids, NEW args, NEW want,
           Begin(q, New(op, pc, ids, args, want)), op # "createUser", ids \subseteq rows,
           rows' = rows, links' = links
    PROVE  CreatedInv'
<1>1. /\ req'[q].op = op /\ req'[q].ids = ids
      /\ \A x \in Request \ {q} : req'[x] = req[x]
  BY BeginSlot
<1> QED BY <1>1 DEF CreatedInv

\* A request that goes on, or is answered, and writes no more than its ids.
LEMMA CreatedMove ==
    ASSUME CreatedInv, NEW q \in Request,
           req'[q].ids \subseteq req[q].ids,
           req'[q].op = "createUser" => req[q].op = "createUser" /\ rows' = rows /\ links' = links,
           \A x \in Request \ {q} : req'[x] = req[x],
           rows' \subseteq rows \cup req[q].ids,
           \A l \in links' \ links : l[1] \in req[q].ids
    PROVE  CreatedInv'
<1> SUFFICES ASSUME NEW y \in Request, req'[y].op = "createUser"
             PROVE  /\ req'[y].ids \cap rows' = {}
                    /\ \A l \in links' : l[1] \notin req'[y].ids
                    /\ \A x \in Request \ {y} : req'[y].ids \cap req'[x].ids = {}
  BY DEF CreatedInv
<1>1. /\ req[y].op = "createUser" /\ req'[y].ids \subseteq req[y].ids
      /\ req[y].ids \cap rows = {}
      /\ \A l \in links : l[1] \notin req[y].ids
      /\ \A x \in Request \ {y} : req[y].ids \cap req[x].ids = {}
  BY DEF CreatedInv
<1>2. \A x \in Request \ {y} : req'[x].ids \subseteq req[x].ids
  OBVIOUS
<1>3. CASE y = q
  BY <1>1, <1>2, <1>3
<1>4. CASE y # q
  BY <1>1, <1>2, <1>4
<1> QED BY <1>3, <1>4

LEMMA CreatedStep ==
    TypeOK /\ ShapeInv /\ IssuedInv /\ CreatedInv /\ [Next]_vars => CreatedInv'
<1> SUFFICES ASSUME TypeOK, ShapeInv, IssuedInv, CreatedInv, [Next]_vars
             PROVE  CreatedInv'
  OBVIOUS
<1>0. rows \subseteq issued /\ req \in [Request -> RequestState \cup {Idle}]
  BY DEF TypeOK
<1>1. \A q \in Request : req[q].ids \subseteq issued
  BY <1>0, IdleShape DEF IssuedInv, InFlight, RequestState
<1>create. ASSUME NEW x \in Id, Create(x) PROVE CreatedInv'
  <2>1. rows' = rows \cup {x} /\ x \notin issued /\ links' = links /\ req' = req
    BY <1>create DEF Create
  <2> QED BY <1>1, <2>1 DEF CreatedInv
<1>user. ASSUME NEW q \in Request, NEW u \in User, NEW R \in SUBSET Role, CreateUser(q, u, R)
         PROVE  CreatedInv'
  <2>1. /\ Begin(q, New("createUser", "ready", {u}, R \cap rows, {u} \X (R \cap rows)))
        /\ rows' = rows /\ links' = links /\ u \notin issued
    BY <1>user DEF CreateUser
  <2>2. /\ req'[q].op = "createUser" /\ req'[q].ids = {u}
        /\ \A x \in Request \ {q} : req'[x] = req[x]
    BY <2>1, BeginSlot
  <2>3. u \notin rows /\ (\A l \in links : l[1] # u) /\ \A x \in Request : u \notin req[x].ids
    BY <1>0, <1>1, <2>1 DEF IssuedInv
  <2> QED BY <2>1, <2>2, <2>3 DEF CreatedInv
<1>update. ASSUME NEW q \in Request, NEW x \in Id, Update(q, x) PROVE CreatedInv'
  <2>1. /\ Begin(q, New("update", "ready", {x}, {}, {}))
        /\ rows' = rows /\ links' = links /\ {x} \subseteq rows
    BY <1>update DEF Update, Exists
  <2> QED BY <2>1, CreatedBegin
<1>updateUser. ASSUME NEW q \in Request, NEW u \in User, NEW R \in SUBSET Role, UpdateUser(q, u, R)
               PROVE  CreatedInv'
  <2>1. /\ Begin(q, New("setRoles", "found", {u}, R, {}))
        /\ rows' = rows /\ links' = links /\ {u} \subseteq rows
    BY <1>updateUser DEF UpdateUser, Exists
  <2> QED BY <2>1, CreatedBegin
<1>assign. ASSUME NEW q \in Request, NEW op \in {"permissionAssign", "permissionAssignSelected"},
                  NEW x \in Role, NEW P \in SUBSET Permission, PermissionAssign(q, op, x, P)
           PROVE  CreatedInv'
  <2>1. /\ Begin(q, New(op, "found", {x}, P, LinksOf({x})))
        /\ rows' = rows /\ links' = links /\ {x} \subseteq rows /\ op # "createUser"
    BY <1>assign DEF PermissionAssign, Exists
  <2> QED BY <2>1, CreatedBegin
<1>unassign. ASSUME NEW q \in Request, NEW x \in Role, NEW P \in SUBSET Permission,
                    PermissionUnassign(q, x, P)
             PROVE  CreatedInv'
  <2>1. /\ Begin(q, New("permissionUnassign", "ready", {x}, P, Filtered(x, P)))
        /\ rows' = rows /\ links' = links /\ {x} \subseteq rows
    BY <1>unassign DEF PermissionUnassign, Exists
  <2> QED BY <2>1, CreatedBegin
<1>delete. ASSUME NEW q \in Request, NEW X \in SUBSET Id, Delete(q, X) PROVE CreatedInv'
  <2>1. /\ Begin(q, New("delete", "ready", X, {}, {}))
        /\ rows' = rows /\ links' = links /\ X \subseteq rows
    BY <1>delete DEF Delete
  <2> QED BY <2>1, CreatedBegin
<1>end. ASSUME NEW q \in Request, End(q),
               rows' \subseteq rows \cup req[q].ids, \A l \in links' \ links : l[1] \in req[q].ids
        PROVE  CreatedInv'
  <2>1. /\ req'[q].op = "none" /\ req'[q].ids = {}
        /\ \A x \in Request \ {q} : req'[x] = req[x]
    BY <1>end, EndSlot
  <2> QED BY <1>end, <2>1, CreatedMove
<1>permissions. ASSUME NEW q \in Request, FindPermissions(q) PROVE CreatedInv'
  <2>1. req[q] \in RequestState /\ rows' = rows /\ links' = links
    BY <1>permissions, <1>0, BusySlot DEF FindPermissions
  <2>2. CASE End(q)
    BY <2>1, <2>2, <1>end
  <2>3. CASE ~End(q)
    <3> DEFINE found == req[q].args \cap rows
    <3>1. Step(q, Prepared(req[q], found, Pushed(q, found)))
      BY <2>3, <1>permissions DEF FindPermissions
    <3>2. /\ req'[q].op = req[q].op /\ req'[q].ids = req[q].ids
          /\ \A x \in Request \ {q} : req'[x] = req[x]
      BY <2>1, <3>1, PreparedSlot
    <3> QED BY <2>1, <3>2, CreatedMove
  <2> QED BY <2>2, <2>3
<1>roles. ASSUME NEW q \in Request, FindRoles(q) PROVE CreatedInv'
  <2>1. req[q] \in RequestState /\ rows' = rows /\ links' = links
    BY <1>roles, <1>0, BusySlot DEF FindRoles
  <2>2. CASE End(q)
    BY <2>1, <2>2, <1>end
  <2>3. CASE ~End(q)
    <3> DEFINE found == req[q].args \cap rows
    <3>1. Step(q, Prepared(req[q], found, Merged(q, found)))
      BY <2>3, <1>roles DEF FindRoles
    <3>2. /\ req'[q].op = req[q].op /\ req'[q].ids = req[q].ids
          /\ \A x \in Request \ {q} : req'[x] = req[x]
      BY <2>1, <3>1, PreparedSlot
    <3> QED BY <2>1, <3>2, CreatedMove
  <2> QED BY <2>2, <2>3
<1>saveLoad. ASSUME NEW q \in Request, SaveLoad(q) PROVE CreatedInv'
  <2>1. /\ req[q] \in RequestState /\ rows' = rows /\ links' = links
        /\ Step(q, Loaded(req[q], req[q].ids \cap rows, LoadedLinks(q)))
    BY <1>saveLoad, <1>0, BusySlot DEF SaveLoad
  <2>2. /\ req'[q].op = req[q].op /\ req'[q].ids = req[q].ids
        /\ \A x \in Request \ {q} : req'[x] = req[x]
    BY <2>1, LoadedSlot
  <2> QED BY <2>1, <2>2, CreatedMove
<1>removeLoad. ASSUME NEW q \in Request, RemoveLoad(q) PROVE CreatedInv'
  <2>1. /\ req[q] \in RequestState /\ rows' = rows /\ links' = links
        /\ Step(q, Loaded(req[q], {}, LinksTouching(req[q].ids)))
    BY <1>removeLoad, <1>0, BusySlot DEF RemoveLoad
  <2>2. /\ req'[q].op = req[q].op /\ req'[q].ids = req[q].ids
        /\ \A x \in Request \ {q} : req'[x] = req[x]
    BY <2>1, LoadedSlot
  <2> QED BY <2>1, <2>2, CreatedMove
<1>saveCommit. ASSUME NEW q \in Request, SaveCommit(q) PROVE CreatedInv'
  <2>1. \A l \in req[q].want : l[1] \in req[q].ids
    BY <1>saveCommit DEF SaveCommit, ShapeInv, Shape, SaveOps
  <2>2. /\ End(q) /\ rows' \subseteq rows \cup req[q].ids
        /\ \A l \in links' \ links : l[1] \in req[q].ids
    BY <1>saveCommit, <2>1 DEF SaveCommit, RowsAfterSave, LinksAfterSave
  <2> QED BY <2>2, <1>end
<1>removeCommit. ASSUME NEW q \in Request, RemoveCommit(q) PROVE CreatedInv'
  BY <1>removeCommit, <1>end DEF RemoveCommit
<1>fail. ASSUME NEW q \in Request, Fail(q) PROVE CreatedInv'
  BY <1>fail, <1>end DEF Fail
<1>stutter. CASE UNCHANGED vars
  BY <1>stutter DEF vars, CreatedInv
<1> QED
  BY <1>create, <1>user, <1>update, <1>updateUser, <1>assign, <1>unassign, <1>delete,
     <1>permissions, <1>roles, <1>saveLoad, <1>removeLoad, <1>saveCommit, <1>removeCommit,
     <1>fail, <1>stutter
  DEF Next, StoreRole, StorePermission, Register, UpdateRole, UpdatePermission,
     UpdateProfile, DeleteUsers, DeleteRoles, DeletePermissions

-----------------------------------------------------------------------------
(***************************************************************************)
(* Deleted ids.                                                            *)
(***************************************************************************)

\* An id that is lost stays lost: no step writes a row that it did not find,
\* except for ids in flight.
LEMMA LostStep ==
    ASSUME TypeOK, IssuedInv, [Next]_vars, NEW x, Lost(x)
    PROVE  Lost(x)'
<1>0. /\ x \in issued /\ x \notin rows
      /\ \A q \in Request : req[q].op \in SaveOps => x \notin req[q].ids
  BY DEF Lost
<1>begin. ASSUME NEW q \in Request, NEW op, NEW pc, NEW ids, NEW args, NEW want,
                 Begin(q, New(op, pc, ids, args, want)), op \in SaveOps => x \notin ids,
                 rows' = rows, issued \subseteq issued'
          PROVE  Lost(x)'
  BY <1>0, <1>begin, BeginSlot DEF Lost
<1>end. ASSUME NEW q \in Request, End(q), x \notin rows', issued' = issued
        PROVE  Lost(x)'
  <2>1. "none" \notin SaveOps
    BY DEF SaveOps, LinkOps
  <2> QED BY <1>0, <1>end, <2>1, EndSlot DEF Lost
<1>move. ASSUME NEW q \in Request, req'[q].op = req[q].op, req'[q].ids = req[q].ids,
                \A y \in Request \ {q} : req'[y] = req[y], rows' = rows, issued' = issued
         PROVE  Lost(x)'
  BY <1>0, <1>move DEF Lost
<1>create. ASSUME NEW y \in Id, Create(y) PROVE Lost(x)'
  BY <1>0, <1>create DEF Create, Lost
<1>user. ASSUME NEW q \in Request, NEW u \in User, NEW R \in SUBSET Role, CreateUser(q, u, R)
         PROVE  Lost(x)'
  BY <1>0, <1>user, <1>begin DEF CreateUser
<1>update. ASSUME NEW q \in Request, NEW y \in Id, Update(q, y) PROVE Lost(x)'
  BY <1>0, <1>update, <1>begin DEF Update, Exists
<1>updateUser. ASSUME NEW q \in Request, NEW u \in User, NEW R \in SUBSET Role, UpdateUser(q, u, R)
               PROVE  Lost(x)'
  BY <1>0, <1>updateUser, <1>begin DEF UpdateUser, Exists
<1>assign. ASSUME NEW q \in Request, NEW op \in {"permissionAssign", "permissionAssignSelected"},
                  NEW r \in Role, NEW P \in SUBSET Permission, PermissionAssign(q, op, r, P)
           PROVE  Lost(x)'
  BY <1>0, <1>assign, <1>begin DEF PermissionAssign, Exists
<1>unassign. ASSUME NEW q \in Request, NEW r \in Role, NEW P \in SUBSET Permission,
                    PermissionUnassign(q, r, P)
             PROVE  Lost(x)'
  BY <1>0, <1>unassign, <1>begin DEF PermissionUnassign, Exists
<1>delete. ASSUME NEW q \in Request, NEW X \in SUBSET Id, Delete(q, X) PROVE Lost(x)'
  <2>1. "delete" \notin SaveOps
    BY DEF SaveOps, LinkOps
  <2> QED BY <1>delete, <1>begin, <2>1 DEF Delete
<1>permissions. ASSUME NEW q \in Request, FindPermissions(q) PROVE Lost(x)'
  <2>1. req[q] \in RequestState /\ rows' = rows /\ issued' = issued
    BY <1>permissions, BusySlot DEF FindPermissions, TypeOK
  <2> QED BY <1>0, <2>1, <1>permissions, <1>end, <1>move, PreparedSlot DEF FindPermissions
<1>roles. ASSUME NEW q \in Request, FindRoles(q) PROVE Lost(x)'
  <2>1. req[q] \in RequestState /\ rows' = rows /\ issued' = issued
    BY <1>roles, BusySlot DEF FindRoles, TypeOK
  <2> QED BY <1>0, <2>1, <1>roles, <1>end, <1>move, PreparedSlot DEF FindRoles
<1>saveLoad. ASSUME NEW q \in Request, SaveLoad(q) PROVE Lost(x)'
  <2>1. req[q] \in RequestState /\ rows' = rows /\ issued' = issued
    BY <1>saveLoad, BusySlot DEF SaveLoad, TypeOK
  <2> QED BY <2>1, <1>saveLoad, <1>move, LoadedSlot DEF SaveLoad
<1>removeLoad. ASSUME NEW q \in Request, RemoveLoad(q) PROVE Lost(x)'
  <2>1. req[q] \in RequestState /\ rows' = rows /\ issued' = issued
    BY <1>removeLoad, BusySlot DEF RemoveLoad, TypeOK
  <2> QED BY <2>1, <1>removeLoad, <1>move, LoadedSlot DEF RemoveLoad
<1>saveCommit. ASSUME NEW q \in Request, SaveCommit(q) PROVE Lost(x)'
  BY <1>0, <1>saveCommit, <1>end DEF SaveCommit, RowsAfterSave
<1>removeCommit. ASSUME NEW q \in Request, RemoveCommit(q) PROVE Lost(x)'
  BY <1>0, <1>removeCommit, <1>end DEF RemoveCommit
<1>fail. ASSUME NEW q \in Request, Fail(q) PROVE Lost(x)'
  BY <1>0, <1>fail, <1>end DEF Fail
<1>stutter. CASE UNCHANGED vars
  BY <1>0, <1>stutter DEF vars, Lost
<1> QED
  BY <1>create, <1>user, <1>update, <1>updateUser, <1>assign, <1>unassign, <1>delete,
     <1>permissions, <1>roles, <1>saveLoad, <1>removeLoad, <1>saveCommit, <1>removeCommit,
     <1>fail, <1>stutter
  DEF Next, StoreRole, StorePermission, Register, UpdateRole, UpdatePermission,
     UpdateProfile, DeleteUsers, DeleteRoles, DeletePermissions

\* What a delete without a competitor removes is lost.
LEMMA DeletedIsLost ==
    ASSUME TypeOK, ShapeInv, IssuedInv, AloneInv, NEW q \in Request, RemoveCommit(q), q \in alone,
           NEW x \in req[q].ids
    PROVE  Lost(x)'
<1>1. End(q) /\ issued' = issued /\ rows' = rows \ req[q].ids /\ InFlight(q)
  BY DEF RemoveCommit, AloneInv
<1>2. x \in issued /\ x \notin rows'
  BY <1>1 DEF IssuedInv
<1>3. req'[q].ids = {} /\ \A y \in Request \ {q} : req'[y] = req[y]
  BY <1>1, EndSlot
<1>4. ASSUME NEW y \in Request \ {q} PROVE x \notin req[y].ids
  <2>1. ~Compete(req[q], req[y])
    BY DEF AloneInv
  <2> QED BY <2>1 DEF Compete, Reach
<1> QED BY <1>1, <1>2, <1>3, <1>4 DEF Lost

LEMMA RetiredStep ==
    TypeOK /\ ShapeInv /\ IssuedInv /\ AloneInv /\ RetiredInv /\ [Next]_vars => RetiredInv'
<1> SUFFICES ASSUME TypeOK, ShapeInv, IssuedInv, AloneInv, RetiredInv, [Next]_vars,
                    NEW x \in retired'
             PROVE  Lost(x)'
  BY DEF RetiredInv
<1>1. CASE x \in retired
  BY <1>1, LostStep DEF RetiredInv
<1>2. CASE x \notin retired
  <2>1. PICK q \in Request : SaveCommit(q) \/ RemoveCommit(q)
    BY <1>2 DEF Next, StoreRole, StorePermission, Register, UpdateRole, UpdatePermission,
       UpdateProfile, DeleteUsers, DeleteRoles, DeletePermissions, vars, reported, Create, CreateUser, Update, UpdateUser, PermissionAssign,
       PermissionUnassign, Delete, FindPermissions, FindRoles, SaveLoad, RemoveLoad, Fail
  <2>2. req[q].op = "delete" /\ q \in alone /\ x \in req[q].ids
    BY <1>2, <2>1 DEF SaveCommit, RemoveCommit, Report
  <2>3. RemoveCommit(q)
    BY <2>1, <2>2 DEF SaveCommit, SaveOps, LinkOps
  <2> QED BY <2>2, <2>3, DeletedIsLost
<1> QED BY <1>1, <1>2

-----------------------------------------------------------------------------
(***************************************************************************)
(* Links reported as made.                                                 *)
(***************************************************************************)

LEMMA SparesIdle == ASSUME NEW l PROVE Spares(Idle, l)
  BY IdleShape DEF Spares, LinkOps

\* Requests that do not compete with the one that made a link spare it.
LEMMA SparesFar ==
    ASSUME NEW r \in RequestState, Shape(r), r.op \in LinkOps,
           NEW s, ~Compete(r, s), NEW l \in Pair, l[1] \in r.ids
    PROVE  Spares(s, l)
<1>1. l[1] \notin s.ids /\ l[2] \notin s.ids
  BY OutOfReach
<1> QED BY <1>1 DEF Spares

\* A link in the table that one of the writing steps finds stays there unless
\* the step was about to take it away.
LEMMA GrantedStep ==
    TypeOK /\ ShapeInv /\ IssuedInv /\ AloneInv /\ GrantedInv /\ [Next]_vars => GrantedInv'
<1> SUFFICES ASSUME TypeOK, ShapeInv, IssuedInv, AloneInv, GrantedInv, [Next]_vars
             PROVE  GrantedInv'
  OBVIOUS
<1>0. /\ rows \subseteq issued /\ granted \subseteq Pair
      /\ \A l \in granted : l \in links /\ l[1] \in rows /\ l[2] \in rows
      /\ \A l \in granted, x \in Request : Spares(req[x], l)
  BY DEF TypeOK, GrantedInv, Effective
<1>begin. ASSUME NEW q \in Request, NEW op, NEW pc, NEW ids, NEW args, NEW want,
                 Begin(q, New(op, pc, ids, args, want)),
                 rows' = rows, links' = links, granted' \subseteq granted,
                 \A l \in granted' :
                    /\ op = "delete" => l[1] \notin ids /\ l[2] \notin ids
                    /\ op \in LinkOps /\ l[1] \in ids =>
                          IF op = "setRoles" /\ pc = "found" THEN l[2] \in args ELSE l \in want
          PROVE  GrantedInv'
  <2>1. /\ req'[q].op = op /\ req'[q].pc = pc /\ req'[q].ids = ids
        /\ req'[q].args = args /\ req'[q].want = want
        /\ \A x \in Request \ {q} : req'[x] = req[x]
    BY <1>begin, BeginSlot
  <2>2. \A l \in granted' : Spares(req'[q], l)
    BY <1>begin, <2>1 DEF Spares
  <2>3. \A l \in granted', x \in Request : Spares(req'[x], l)
    BY <1>0, <1>begin, <2>1, <2>2
  <2> QED BY <1>0, <1>begin, <2>3 DEF GrantedInv, Effective, Spares
<1>end. ASSUME NEW q \in Request, End(q), granted' \subseteq granted,
               \A l \in granted : Effective(l)'
        PROVE  GrantedInv'
  <2>1. req'[q] = Idle /\ \A x \in Request \ {q} : req'[x] = req[x]
    BY <1>end, EndSlot
  <2>2. \A l \in granted', x \in Request : Spares(req'[x], l)
    BY <1>0, <1>end, <2>1, SparesIdle
  <2> QED BY <1>end, <2>2 DEF GrantedInv, Spares
<1>move. ASSUME NEW q \in Request, \A x \in Request \ {q} : req'[x] = req[x],
                rows' = rows, links' = links, granted' = granted,
                \A l \in granted : Spares(req'[q], l)
         PROVE  GrantedInv'
  <2>1. \A l \in granted', x \in Request : Spares(req'[x], l)
    BY <1>0, <1>move
  <2> QED BY <1>0, <1>move, <2>1 DEF GrantedInv, Effective, Spares
<1>create. ASSUME NEW x \in Id, Create(x) PROVE GrantedInv'
  BY <1>0, <1>create DEF Create, reported, GrantedInv, Effective, Spares
<1>user. ASSUME NEW q \in Request, NEW u \in User, NEW R \in SUBSET Role, CreateUser(q, u, R)
         PROVE  GrantedInv'
  <2>1. /\ Begin(q, New("createUser", "ready", {u}, R \cap rows, {u} \X (R \cap rows)))
        /\ rows' = rows /\ links' = links /\ granted' = granted /\ u \notin issued
    BY <1>user DEF CreateUser, reported
  <2>2. \A l \in granted' : l[1] \notin {u}
    BY <1>0, <2>1
  <2> QED BY <2>1, <2>2, <1>begin
<1>update. ASSUME NEW q \in Request, NEW x \in Id, Update(q, x) PROVE GrantedInv'
  <2>1. /\ Begin(q, New("update", "ready", {x}, {}, {}))
        /\ rows' = rows /\ links' = links /\ granted' = granted
    BY <1>update DEF Update, reported
  <2>2. "update" \notin LinkOps
    BY DEF LinkOps
  <2> QED BY <2>1, <2>2, <1>begin
<1>updateUser. ASSUME NEW q \in Request, NEW u \in User, NEW R \in SUBSET Role, UpdateUser(q, u, R)
               PROVE  GrantedInv'
  <2>1. /\ Begin(q, New("setRoles", "found", {u}, R, {}))
        /\ rows' = rows /\ links' = links /\ granted' = granted \ ({u} \X (Role \ R))
    BY <1>updateUser DEF UpdateUser
  <2>2. \A l \in granted' : l[1] \in {u} => l[2] \in R
    BY <1>0, <2>1, PairParts
  <2> QED BY <2>1, <2>2, <1>begin
<1>assign. ASSUME NEW q \in Request, NEW op \in {"permissionAssign", "permissionAssignSelected"},
                  NEW r \in Role, NEW P \in SUBSET Permission, PermissionAssign(q, op, r, P)
           PROVE  GrantedInv'
  <2>1. /\ Begin(q, New(op, "found", {r}, P, LinksOf({r})))
        /\ rows' = rows /\ links' = links /\ granted' = granted
    BY <1>assign DEF PermissionAssign
  <2>2. \A l \in granted' : l[1] \in {r} => l \in LinksOf({r})
    BY <1>0, <2>1 DEF LinksOf
  <2>3. \A l \in granted' :
           /\ op = "delete" => l[1] \notin {r} /\ l[2] \notin {r}
           /\ op \in LinkOps /\ l[1] \in {r} =>
                 IF op = "setRoles" /\ "found" = "found" THEN l[2] \in P ELSE l \in LinksOf({r})
    BY <2>2
  <2> QED BY <2>1, <2>3, <1>begin
<1>unassign. ASSUME NEW q \in Request, NEW r \in Role, NEW P \in SUBSET Permission,
                    PermissionUnassign(q, r, P)
             PROVE  GrantedInv'
  <2>1. /\ Begin(q, New("permissionUnassign", "ready", {r}, P, Filtered(r, P)))
        /\ rows' = rows /\ links' = links /\ granted' = granted \ ({r} \X P)
    BY <1>unassign DEF PermissionUnassign
  <2>2. \A l \in granted' : l[1] \in {r} => l \in Filtered(r, P)
    BY <1>0, <2>1 DEF Filtered, LinksOf
  <2> QED BY <2>1, <2>2, <1>begin
<1>delete. ASSUME NEW q \in Request, NEW X \in SUBSET Id, Delete(q, X) PROVE GrantedInv'
  <2>1. /\ Begin(q, New("delete", "ready", X, {}, {}))
        /\ rows' = rows /\ links' = links
        /\ granted' = {l \in granted : l[1] \notin X /\ l[2] \notin X}
    BY <1>delete DEF Delete
  <2>2. "delete" \notin LinkOps
    BY DEF LinkOps
  <2> QED BY <2>1, <2>2, <1>begin
<1>permissions. ASSUME NEW q \in Request, FindPermissions(q) PROVE GrantedInv'
  <2>1. /\ req[q] \in RequestState /\ rows' = rows /\ links' = links /\ granted' = granted
        /\ req[q].op \in AssignOps
    BY <1>permissions, BusySlot DEF FindPermissions, reported, AssignOps, TypeOK
  <2>2. CASE End(q)
    BY <1>0, <2>1, <2>2, <1>end DEF Effective
  <2>3. CASE ~End(q)
    <3> DEFINE found == req[q].args \cap rows
    <3>1. Step(q, Prepared(req[q], found, Pushed(q, found)))
      BY <2>3, <1>permissions DEF FindPermissions
    <3>2. /\ req'[q].op = req[q].op /\ req'[q].pc = "ready" /\ req'[q].ids = req[q].ids
          /\ req'[q].want = Pushed(q, found)
          /\ \A x \in Request \ {q} : req'[x] = req[x]
      BY <2>1, <3>1, PreparedSlot
    <3>3. \A l \in granted : Spares(req'[q], l)
      BY <1>0, <2>1, <3>2 DEF Spares, Pushed, AssignOps
    <3> QED BY <2>1, <3>2, <3>3, <1>move
  <2> QED BY <2>2, <2>3
<1>roles. ASSUME NEW q \in Request, FindRoles(q) PROVE GrantedInv'
  <2>1. /\ req[q] \in RequestState /\ rows' = rows /\ links' = links /\ granted' = granted
        /\ req[q].op = "setRoles" /\ req[q].pc = "found"
    BY <1>roles, BusySlot DEF FindRoles, reported, TypeOK
  <2>2. CASE End(q)
    BY <1>0, <2>1, <2>2, <1>end DEF Effective
  <2>3. CASE ~End(q)
    <3> DEFINE found == req[q].args \cap rows
    <3>1. Step(q, Prepared(req[q], found, Merged(q, found)))
      BY <2>3, <1>roles DEF FindRoles
    <3>2. /\ req'[q].op = req[q].op /\ req'[q].pc = "ready" /\ req'[q].ids = req[q].ids
          /\ req'[q].want = Merged(q, found)
          /\ \A x \in Request \ {q} : req'[x] = req[x]
      BY <2>1, <3>1, PreparedSlot
    <3>3. ASSUME NEW l \in granted, l[1] \in req[q].ids PROVE l \in Merged(q, found)
      <4>1. l[2] \in req[q].args
        BY <1>0, <2>1, <3>3 DEF Spares, LinkOps
      <4> QED BY <1>0, <4>1, <3>3, PairParts DEF Merged
    <3>4. \A l \in granted : Spares(req'[q], l)
      BY <2>1, <3>2, <3>3 DEF Spares
    <3> QED BY <2>1, <3>2, <3>4, <1>move
  <2> QED BY <2>2, <2>3
<1>saveLoad. ASSUME NEW q \in Request, SaveLoad(q) PROVE GrantedInv'
  <2>1. /\ req[q] \in RequestState /\ rows' = rows /\ links' = links /\ granted' = granted
        /\ req[q].pc = "ready"
        /\ Step(q, Loaded(req[q], req[q].ids \cap rows, LoadedLinks(q)))
    BY <1>saveLoad, BusySlot DEF SaveLoad, reported, TypeOK
  <2>2. /\ req'[q].op = req[q].op /\ req'[q].pc = "loaded" /\ req'[q].ids = req[q].ids
        /\ req'[q].want = req[q].want
        /\ \A x \in Request \ {q} : req'[x] = req[x]
    BY <2>1, LoadedSlot
  <2>3. \A l \in granted : Spares(req'[q], l)
    BY <1>0, <2>1, <2>2 DEF Spares
  <2> QED BY <2>1, <2>2, <2>3, <1>move
<1>removeLoad. ASSUME NEW q \in Request, RemoveLoad(q) PROVE GrantedInv'
  <2>1. /\ req[q] \in RequestState /\ rows' = rows /\ links' = links /\ granted' = granted
        /\ req[q].pc = "ready"
        /\ Step(q, Loaded(req[q], {}, LinksTouching(req[q].ids)))
    BY <1>removeLoad, BusySlot DEF RemoveLoad, reported, TypeOK
  <2>2. /\ req'[q].op = req[q].op /\ req'[q].pc = "loaded" /\ req'[q].ids = req[q].ids
        /\ req'[q].want = req[q].want
        /\ \A x \in Request \ {q} : req'[x] = req[x]
    BY <2>1, LoadedSlot
  <2>3. \A l \in granted : Spares(req'[q], l)
    BY <1>0, <2>1, <2>2 DEF Spares
  <2> QED BY <2>1, <2>2, <2>3, <1>move
<1>saveCommit. ASSUME NEW q \in Request, SaveCommit(q) PROVE GrantedInv'
  <2> DEFINE r == req[q]
  <2>1. /\ r \in RequestState /\ Shape(r) /\ r.op \in SaveOps /\ r.pc = "loaded"
        /\ rows' = rows \cup (r.ids \ r.found)
        /\ links' = (links \ (r.have \ r.want)) \cup (r.want \ r.have)
        /\ End(q)
    BY <1>saveCommit, BusySlot DEF SaveCommit, TypeOK, ShapeInv, RowsAfterSave, LinksAfterSave
  <2>2. req'[q] = Idle /\ \A x \in Request \ {q} : req'[x] = req[x]
    BY <2>1, EndSlot
  <2>3. ASSUME NEW l \in granted PROVE l \in links' /\ l[1] \in rows' /\ l[2] \in rows'
    <3>1. l \notin r.have \ r.want
      <4>1. CASE r.op = "update"
        BY <2>1, <4>1 DEF Shape
      <4>2. CASE r.op \in LinkOps
        BY <1>0, <2>1, <4>2 DEF Shape, Spares
      <4> QED BY <2>1, <4>1, <4>2 DEF SaveOps
    <3> QED BY <1>0, <2>1, <3>1
  <2>4. \A l \in granted, x \in Request : Spares(req'[x], l)
    BY <1>0, <2>2, SparesIdle
  <2>5. ASSUME NEW l \in granted', l \notin granted
        PROVE  /\ l \in links' /\ l[1] \in rows' /\ l[2] \in rows'
               /\ \A x \in Request : Spares(req'[x], l)
    <3>1. /\ q \in alone /\ l \in r.ids \X r.args
          /\ r.op \in AssignOps \cup {"setRoles", "createUser"}
      BY <1>saveCommit, <2>5 DEF SaveCommit, Report, AssignOps
    <3>2. r.op \in LinkOps /\ l \in Pair
      BY <2>1, <3>1 DEF LinkOps, AssignOps, Shape, Pair
    <3>3. l \in r.want
      BY <2>1, <3>1 DEF Shape
    <3>4. /\ r.args \subseteq rows /\ r.found = r.ids \cap rows /\ r.have \subseteq links
      BY <2>1, <3>1, <3>2 DEF AloneInv, UpToDate, LinksOf
    <3>5. l \in links' /\ l[1] \in rows' /\ l[2] \in rows'
      BY <2>1, <3>1, <3>3, <3>4
    <3>6. ASSUME NEW x \in Request \ {q} PROVE Spares(req'[x], l)
      <4>1. ~Compete(r, req[x]) /\ l[1] \in r.ids
        BY <3>1 DEF AloneInv
      <4> HIDE DEF r
      <4>2. Spares(req[x], l)
        BY <2>1, <3>2, <4>1, SparesFar
      <4> QED BY <2>2, <4>2
    <3> QED BY <2>2, <3>5, <3>6, SparesIdle
  <2>6. \A l \in granted' : l \in links' /\ l[1] \in rows' /\ l[2] \in rows'
    BY <2>3, <2>5
  <2>7. \A l \in granted', x \in Request : Spares(req'[x], l)
    BY <2>4, <2>5
  <2> QED BY <2>6, <2>7 DEF GrantedInv, Effective, Spares
<1>removeCommit. ASSUME NEW q \in Request, RemoveCommit(q) PROVE GrantedInv'
  <2> DEFINE r == req[q]
  <2>1. /\ Shape(r) /\ r.op = "delete" /\ End(q)
        /\ rows' = rows \ r.ids /\ links' = links \ r.have
        /\ granted' = granted
    BY <1>removeCommit DEF RemoveCommit, Report, ShapeInv
  <2>2. ASSUME NEW l \in granted PROVE Effective(l)'
    BY <1>0, <2>1 DEF Shape, Spares, Effective
  <2> QED BY <2>1, <2>2, <1>end
<1>fail. ASSUME NEW q \in Request, Fail(q) PROVE GrantedInv'
  BY <1>0, <1>fail, <1>end DEF Fail, reported, Effective
<1>stutter. CASE UNCHANGED vars
  BY <1>stutter DEF vars, reported, GrantedInv, Effective, Spares
<1> QED
  BY <1>create, <1>user, <1>update, <1>updateUser, <1>assign, <1>unassign, <1>delete,
     <1>permissions, <1>roles, <1>saveLoad, <1>removeLoad, <1>saveCommit, <1>removeCommit,
     <1>fail, <1>stutter
  DEF Next, StoreRole, StorePermission, Register, UpdateRole, UpdatePermission,
     UpdateProfile, DeleteUsers, DeleteRoles, DeletePermissions

-----------------------------------------------------------------------------
(***************************************************************************)
(* Links reported as removed.                                              *)
(***************************************************************************)

\* Link l is not in the table and no request is about to make it.
Absent(l) ==
    /\ l \notin links
    /\ l[1] \in issued
    /\ \A q \in Request : Omits(req[q], l)

LEMMA OmitsIdle == ASSUME NEW l PROVE Omits(Idle, l)
  BY IdleShape DEF Omits, LinkOps

\* A link that is absent stays so, unless a request starts that asks for it.
LEMMA AbsentStep ==
    ASSUME TypeOK, ShapeInv, IssuedInv, [Next]_vars,
           NEW l \in revoked, l \in revoked', Absent(l)
    PROVE  Absent(l)'
<1>0. /\ rows \subseteq issued /\ l \in Pair
      /\ l \notin links /\ l[1] \in issued
      /\ \A x \in Request : Omits(req[x], l)
  BY DEF TypeOK, Absent
<1>begin. ASSUME NEW q \in Request, NEW op, NEW pc, NEW ids, NEW args, NEW want,
                 Begin(q, New(op, pc, ids, args, want)),
                 links' = links, issued \subseteq issued',
                 op \in LinkOps /\ l[1] \in ids =>
                    l \notin want /\ (pc = "found" => l[2] \notin args)
          PROVE  Absent(l)'
  <2>1. /\ req'[q].op = op /\ req'[q].pc = pc /\ req'[q].ids = ids
        /\ req'[q].args = args /\ req'[q].want = want
        /\ \A x \in Request \ {q} : req'[x] = req[x]
    BY <1>begin, BeginSlot
  <2>2. Omits(req'[q], l)
    BY <1>begin, <2>1 DEF Omits
  <2>3. \A x \in Request : Omits(req'[x], l)
    BY <1>0, <2>1, <2>2
  <2> QED BY <1>0, <1>begin, <2>3 DEF Absent, Omits
<1>end. ASSUME NEW q \in Request, End(q), l \notin links', issued' = issued
        PROVE  Absent(l)'
  <2>1. req'[q] = Idle /\ \A x \in Request \ {q} : req'[x] = req[x]
    BY <1>end, EndSlot
  <2>2. \A x \in Request : Omits(req'[x], l)
    BY <1>0, <2>1, OmitsIdle
  <2> QED BY <1>0, <1>end, <2>2 DEF Absent, Omits
<1>move. ASSUME NEW q \in Request, \A x \in Request \ {q} : req'[x] = req[x],
                links' = links, issued' = issued, Omits(req'[q], l)
         PROVE  Absent(l)'
  <2>1. \A x \in Request : Omits(req'[x], l)
    BY <1>0, <1>move
  <2> QED BY <1>0, <1>move, <2>1 DEF Absent, Omits
<1>create. ASSUME NEW x \in Id, Create(x) PROVE Absent(l)'
  BY <1>0, <1>create DEF Create, Absent, Omits
<1>user. ASSUME NEW q \in Request, NEW u \in User, NEW R \in SUBSET Role, CreateUser(q, u, R)
         PROVE  Absent(l)'
  <2>1. /\ Begin(q, New("createUser", "ready", {u}, R \cap rows, {u} \X (R \cap rows)))
        /\ links' = links /\ issued \subseteq issued' /\ u \notin issued
    BY <1>user DEF CreateUser
  <2>2. l[1] \notin {u}
    BY <1>0, <2>1
  <2> QED BY <2>1, <2>2, <1>begin
<1>update. ASSUME NEW q \in Request, NEW x \in Id, Update(q, x) PROVE Absent(l)'
  <2>1. Begin(q, New("update", "ready", {x}, {}, {})) /\ links' = links /\ issued' = issued
    BY <1>update DEF Update
  <2>2. "update" \notin LinkOps
    BY DEF LinkOps
  <2> QED BY <2>1, <2>2, <1>begin
<1>updateUser. ASSUME NEW q \in Request, NEW u \in User, NEW R \in SUBSET Role, UpdateUser(q, u, R)
               PROVE  Absent(l)'
  <2>1. /\ Begin(q, New("setRoles", "found", {u}, R, {}))
        /\ links' = links /\ issued' = issued /\ l \notin {u} \X R
    BY <1>updateUser DEF UpdateUser
  <2>2. l[1] \in {u} => l[2] \notin R
    BY <1>0, <2>1, PairParts
  <2> QED BY <2>1, <2>2, <1>begin
<1>assign. ASSUME NEW q \in Request, NEW op \in {"permissionAssign", "permissionAssignSelected"},
                  NEW r \in Role, NEW P \in SUBSET Permission, PermissionAssign(q, op, r, P)
           PROVE  Absent(l)'
  <2>1. /\ Begin(q, New(op, "found", {r}, P, LinksOf({r})))
        /\ links' = links /\ issued' = issued /\ l \notin {r} \X P
    BY <1>assign DEF PermissionAssign
  <2>2. /\ l[1] \in {r} => l[2] \notin P
        /\ l \notin LinksOf({r})
    BY <1>0, <2>1, PairParts DEF LinksOf
  <2>3. op \in LinkOps /\ l[1] \in {r} =>
           l \notin LinksOf({r}) /\ ("found" = "found" => l[2] \notin P)
    BY <2>2
  <2> QED BY <2>1, <2>3, <1>begin
<1>unassign. ASSUME NEW q \in Request, NEW r \in Role, NEW P \in SUBSET Permission,
                    PermissionUnassign(q, r, P)
             PROVE  Absent(l)'
  <2>1. /\ Begin(q, New("permissionUnassign", "ready", {r}, P, Filtered(r, P)))
        /\ links' = links /\ issued' = issued
    BY <1>unassign DEF PermissionUnassign
  <2>2. l \notin Filtered(r, P)
    BY <1>0 DEF Filtered, LinksOf
  <2> QED BY <2>1, <2>2, <1>begin
<1>delete. ASSUME NEW q \in Request, NEW X \in SUBSET Id, Delete(q, X) PROVE Absent(l)'
  <2>1. Begin(q, New("delete", "ready", X, {}, {})) /\ links' = links /\ issued' = issued
    BY <1>delete DEF Delete
  <2>2. "delete" \notin LinkOps
    BY DEF LinkOps
  <2> QED BY <2>1, <2>2, <1>begin
<1>permissions. ASSUME NEW q \in Request, FindPermissions(q) PROVE Absent(l)'
  <2>1. /\ req[q] \in RequestState /\ links' = links /\ issued' = issued
        /\ req[q].op \in AssignOps /\ req[q].pc = "found"
    BY <1>permissions, BusySlot DEF FindPermissions, AssignOps, TypeOK
  <2>2. CASE End(q)
    BY <1>0, <2>1, <2>2, <1>end
  <2>3. CASE ~End(q)
    <3> DEFINE found == req[q].args \cap rows
    <3>1. Step(q, Prepared(req[q], found, Pushed(q, found)))
      BY <2>3, <1>permissions DEF FindPermissions
    <3>2. /\ req'[q].op = req[q].op /\ req'[q].pc = "ready" /\ req'[q].ids = req[q].ids
          /\ req'[q].want = Pushed(q, found)
          /\ \A x \in Request \ {q} : req'[x] = req[x]
      BY <2>1, <3>1, PreparedSlot
    <3>3. l[1] \in req[q].ids => l \notin Pushed(q, found)
      BY <1>0, <2>1 DEF Omits, Pushed, AssignOps, LinkOps
    <3>4. Omits(req'[q], l)
      BY <3>2, <3>3 DEF Omits
    <3> QED BY <2>1, <3>2, <3>4, <1>move
  <2> QED BY <2>2, <2>3
<1>roles. ASSUME NEW q \in Request, FindRoles(q) PROVE Absent(l)'
  <2>1. /\ req[q] \in RequestState /\ links' = links /\ issued' = issued
        /\ req[q].op = "setRoles" /\ req[q].pc = "found"
    BY <1>roles, BusySlot DEF FindRoles, TypeOK
  <2>2. CASE End(q)
    BY <1>0, <2>1, <2>2, <1>end
  <2>3. CASE ~End(q)
    <3> DEFINE found == req[q].args \cap rows
    <3>1. Step(q, Prepared(req[q], found, Merged(q, found)))
      BY <2>3, <1>roles DEF FindRoles
    <3>2. /\ req'[q].op = req[q].op /\ req'[q].pc = "ready" /\ req'[q].ids = req[q].ids
          /\ req'[q].want = Merged(q, found)
          /\ \A x \in Request \ {q} : req'[x] = req[x]
      BY <2>1, <3>1, PreparedSlot
    <3>3. l[1] \in req[q].ids => l \notin Merged(q, found)
      BY <1>0, <2>1 DEF Omits, Merged, LinkOps
    <3>4. Omits(req'[q], l)
      BY <3>2, <3>3 DEF Omits
    <3> QED BY <2>1, <3>2, <3>4, <1>move
  <2> QED BY <2>2, <2>3
<1>saveLoad. ASSUME NEW q \in Request, SaveLoad(q) PROVE Absent(l)'
  <2>1. /\ req[q] \in RequestState /\ links' = links /\ issued' = issued
        /\ Step(q, Loaded(req[q], req[q].ids \cap rows, LoadedLinks(q)))
    BY <1>saveLoad, BusySlot DEF SaveLoad, TypeOK
  <2>2. /\ req'[q].op = req[q].op /\ req'[q].pc = "loaded" /\ req'[q].ids = req[q].ids
        /\ req'[q].want = req[q].want
        /\ \A x \in Request \ {q} : req'[x] = req[x]
    BY <2>1, LoadedSlot
  <2>3. Omits(req'[q], l)
    BY <1>0, <2>2 DEF Omits
  <2> QED BY <2>1, <2>2, <2>3, <1>move
<1>removeLoad. ASSUME NEW q \in Request, RemoveLoad(q) PROVE Absent(l)'
  <2>1. /\ req[q] \in RequestState /\ links' = links /\ issued' = issued
        /\ Step(q, Loaded(req[q], {}, LinksTouching(req[q].ids)))
    BY <1>removeLoad, BusySlot DEF RemoveLoad, TypeOK
  <2>2. /\ req'[q].op = req[q].op /\ req'[q].pc = "loaded" /\ req'[q].ids = req[q].ids
        /\ req'[q].want = req[q].want
        /\ \A x \in Request \ {q} : req'[x] = req[x]
    BY <2>1, LoadedSlot
  <2>3. Omits(req'[q], l)
    BY <1>0, <2>2 DEF Omits
  <2> QED BY <2>1, <2>2, <2>3, <1>move
<1>saveCommit. ASSUME NEW q \in Request, SaveCommit(q) PROVE Absent(l)'
  <2>1. /\ Shape(req[q]) /\ req[q].op \in SaveOps /\ End(q) /\ issued' = issued
        /\ links' = (links \ (req[q].have \ req[q].want)) \cup (req[q].want \ req[q].have)
    BY <1>saveCommit DEF SaveCommit, ShapeInv, LinksAfterSave
  <2>2. l \notin req[q].want
    BY <1>0, <2>1 DEF Shape, Omits, SaveOps
  <2> QED BY <1>0, <2>1, <2>2, <1>end
<1>removeCommit. ASSUME NEW q \in Request, RemoveCommit(q) PROVE Absent(l)'
  BY <1>0, <1>removeCommit, <1>end DEF RemoveCommit
<1>fail. ASSUME NEW q \in Request, Fail(q) PROVE Absent(l)'
  BY <1>0, <1>fail, <1>end DEF Fail
<1>stutter. CASE UNCHANGED vars
  BY <1>stutter DEF vars, Absent, Omits
<1> QED
  BY <1>create, <1>user, <1>update, <1>updateUser, <1>assign, <1>unassign, <1>delete,
     <1>permissions, <1>roles, <1>saveLoad, <1>removeLoad, <1>saveCommit, <1>removeCommit,
     <1>fail, <1>stutter
  DEF Next, StoreRole, StorePermission, Register, UpdateRole, UpdatePermission,
     UpdateProfile, DeleteUsers, DeleteRoles, DeletePermissions

\* A save without a competitor takes the links it drops out of effect for good:
\* a link is absent, or it is one that a deleted row at its other end left
\* behind, which the load did not find.
LEMMA DroppedBySave ==
    ASSUME TypeOK, ShapeInv, IssuedInv, AloneInv, NEW q \in Request, SaveCommit(q), q \in alone,
           req[q].op \in LinkOps, req[q].op # "createUser",
           NEW l \in Pair, l[1] \in req[q].ids, l \notin req[q].want
    PROVE  Lost(l[2])' \/ Absent(l)'
<1> DEFINE r == req[q]
<1>1. /\ r \in RequestState /\ Shape(r) /\ End(q) /\ issued' = issued /\ r.pc = "loaded"
      /\ r.op \in SaveOps
      /\ rows' = rows \cup (r.ids \ r.found)
      /\ links' = (links \ (r.have \ r.want)) \cup (r.want \ r.have)
  BY BusySlot DEF SaveCommit, TypeOK, ShapeInv, RowsAfterSave, LinksAfterSave
<1>2. /\ r.ids \subseteq rows /\ r.found = r.ids \cap rows /\ r.have = LinksOf(r.ids)
      /\ r.ids \subseteq issued
  BY <1>1 DEF AloneInv, UpToDate, IssuedInv
<1>3. req'[q] = Idle /\ \A x \in Request \ {q} : req'[x] = req[x]
  BY <1>1, EndSlot
<1>4. \A x \in Request \ {q} : l[1] \notin req[x].ids /\ l[2] \notin req[x].ids
  <2>1. \A x \in Request \ {q} : ~Compete(r, req[x])
    BY DEF AloneInv
  <2> HIDE DEF r
  <2> QED BY <1>1, <2>1, OutOfReach DEF r
<1>5. CASE l \notin links'
  <2>1. \A x \in Request : Omits(req'[x], l)
    BY <1>3, <1>4, OmitsIdle DEF Omits
  <2> QED BY <1>1, <1>2, <1>5, <2>1 DEF Absent, Omits
<1>6. CASE l \in links'
  <2>1. l \in links /\ l \notin r.have
    BY <1>1, <1>6
  <2>2. l[2] \notin rows /\ l[2] \in issued
    BY <1>2, <2>1 DEF LinksOf, IssuedInv
  <2>3. rows' = rows
    BY <1>1, <1>2
  <2> QED BY <1>1, <1>3, <1>4, <2>2, <2>3, IdleShape DEF Lost
<1> QED BY <1>5, <1>6

LEMMA RevokedStep ==
    TypeOK /\ ShapeInv /\ IssuedInv /\ AloneInv /\ RevokedInv /\ [Next]_vars => RevokedInv'
<1> SUFFICES ASSUME TypeOK, ShapeInv, IssuedInv, AloneInv, RevokedInv, [Next]_vars,
                    NEW l \in revoked'
             PROVE  Lost(l[1])' \/ Lost(l[2])' \/ Absent(l)'
  BY DEF RevokedInv, Absent
<1>0. l \in Pair
  BY TypeStep DEF TypeOK
<1>1. CASE l \in revoked
  <2>1. Lost(l[1]) \/ Lost(l[2]) \/ Absent(l)
    BY <1>1 DEF RevokedInv, Absent
  <2> QED BY <1>1, <2>1, LostStep, AbsentStep
<1>2. CASE l \notin revoked
  <2>1. PICK q \in Request : SaveCommit(q) \/ RemoveCommit(q)
    BY <1>2 DEF Next, StoreRole, StorePermission, Register, UpdateRole, UpdatePermission,
       UpdateProfile, DeleteUsers, DeleteRoles, DeletePermissions, vars, reported, Create, CreateUser, Update, UpdateUser, PermissionAssign,
       PermissionUnassign, Delete, FindPermissions, FindRoles, SaveLoad, RemoveLoad, Fail
  <2>2. /\ q \in alone
        /\ \/ req[q].op = "permissionUnassign" /\ l \in req[q].ids \X req[q].args
           \/ req[q].op = "setRoles" /\ l \in req[q].ids \X (Role \ req[q].args)
           \/ req[q].op = "delete" /\ (l[1] \in req[q].ids \/ l[2] \in req[q].ids)
    BY <1>2, <2>1 DEF SaveCommit, RemoveCommit, Report
  <2>3. CASE SaveCommit(q)
    <3>1. /\ req[q].op \in LinkOps /\ req[q].op # "createUser" /\ l[1] \in req[q].ids
          /\ Shape(req[q]) /\ req[q].pc = "loaded"
      BY <2>2, <2>3 DEF SaveCommit, SaveOps, LinkOps, ShapeInv
    <3>2. l \notin req[q].want
      BY <2>2, <3>1 DEF Shape, LinkOps
    <3> QED BY <1>0, <2>2, <2>3, <3>1, <3>2, DroppedBySave
  <2>4. CASE RemoveCommit(q)
    <3>1. l[1] \in req[q].ids \/ l[2] \in req[q].ids
      BY <2>2, <2>4 DEF RemoveCommit
    <3> QED BY <2>2, <2>4, <3>1, DeletedIsLost
  <2> QED BY <2>1, <2>3, <2>4
<1> QED BY <1>1, <1>2

-----------------------------------------------------------------------------
(***************************************************************************)
(* The theorems.                                                           *)
(***************************************************************************)

LEMMA InitIndInv == Init => IndInv
<1> SUFFICES ASSUME Init PROVE IndInv
  OBVIOUS
<1>1. PICK u \in User, r \in Role : rows = {u, r} /\ links = {<<u, r>>}
  BY DEF Init
<1>2. /\ issued = rows /\ alone = {} /\ granted = {} /\ revoked = {} /\ retired = {}
      /\ req = [q \in Request |-> Idle]
  BY DEF Init
<1>3. TypeOK
  BY <1>1, <1>2 DEF TypeOK, Id, Pair
<1>4. ShapeInv
  BY <1>2, IdleShape DEF ShapeInv
<1>5. IssuedInv
  <2>1. \A q \in Request : ~InFlight(q)
    BY <1>2, IdleShape DEF InFlight
  <2> QED BY <1>1, <1>2, <2>1 DEF IssuedInv
<1>6. AloneInv /\ GrantedInv /\ RevokedInv /\ RetiredInv
  BY <1>2 DEF AloneInv, GrantedInv, RevokedInv, RetiredInv
<1>7. CreatedInv
  BY <1>2, IdleShape DEF CreatedInv
<1> QED BY <1>3, <1>4, <1>5, <1>6, <1>7 DEF IndInv

LEMMA StepIndInv == IndInv /\ [Next]_vars => IndInv'
  BY TypeStep, IssuedStep, AloneStep, CreatedStep, GrantedStep, RevokedStep, RetiredStep DEF IndInv

\* The inductive invariant: what requests in flight may still write agrees with
\* what was reported about links and rows.
THEOREM Invariance == Spec => []IndInv
  BY InitIndInv, StepIndInv, PTL DEF Spec

\* Type correctness, for any sets of ids and of requests.
THEOREM TypeCorrect == Spec => []TypeOK
<1>1. IndInv => TypeOK
  BY DEF IndInv
<1> QED BY <1>1, Invariance, PTL

\* A role or permission reported as assigned stays in effect until a request
\* starts that is to remove it, whatever saves of the same entities follow.
THEOREM GrantedIsKept == Spec => []GrantedHolds
<1>1. IndInv => GrantedHolds
  BY DEF IndInv, GrantedInv, GrantedHolds
<1> QED BY <1>1, Invariance, PTL

\* A link reported as removed gives no access again until it is asked for.
THEOREM RevokedIsKept == Spec => []RevokedHolds
<1>1. IndInv => RevokedHolds
  BY DEF IndInv, RevokedInv, RevokedHolds, Lost, Effective
<1> QED BY <1>1, Invariance, PTL

\* A row reported as deleted is never written again.
THEOREM RetiredIsKept == Spec => []RetiredStaysGone
<1>1. IndInv => RetiredStaysGone
  BY DEF IndInv, RetiredInv, RetiredStaysGone, Lost
<1> QED BY <1>1, Invariance, PTL

-----------------------------------------------------------------------------
(***************************************************************************)
(* The refinement of AccessTables.                                         *)
(***************************************************************************)

\* The tables stay as they are.
Same == rows' = rows /\ shown' = shown /\ known' = known

\* What an administrator can know of.
LEMMA KnownIs ==
    \A x : x \in known <=> x \in issued /\ \A q \in Request : req[q].op = "createUser" => x \notin req[q].ids
  BY DEF known

\* Steps that neither start nor end the creation of a user.
LEMMA KnownSame ==
    ASSUME issued' = issued, NEW q \in Request,
           \A x \in Request \ {q} : req'[x] = req[x],
           req'[q].op = "createUser" <=> req[q].op = "createUser",
           req[q].op = "createUser" => req'[q].ids = req[q].ids
    PROVE  known' = known
<1>1. \A x \in Request : /\ req'[x].op = "createUser" <=> req[x].op = "createUser"
                         /\ req[x].op = "createUser" => req'[x].ids = req[x].ids
  OBVIOUS
<1> QED BY <1>1 DEF known

\* The end of one: only now the user's id is known.
LEMMA KnownMore ==
    ASSUME TypeOK, ShapeInv, IssuedInv, CreatedInv, issued' = issued,
           NEW q \in Request, req[q].op = "createUser", InFlight(q), End(q)
    PROVE  \E u \in User : /\ req[q].ids = {u} /\ u \notin known /\ u \in issued
                           /\ u \notin rows /\ (\A l \in links : l[1] # u)
                           /\ known' = known \cup {u}
<1>1. PICK u \in User : req[q].ids = {u}
  BY DEF ShapeInv, Shape
<1>2. /\ req'[q].op = "none" /\ \A x \in Request \ {q} : req'[x] = req[x]
  BY EndSlot
<1>3. u \in issued /\ u \notin rows /\ (\A l \in links : l[1] # u)
      /\ \A x \in Request \ {q} : u \notin req[x].ids
  BY <1>1 DEF IssuedInv, CreatedInv
<1>4. ASSUME NEW x PROVE x \in known' <=> x \in known \/ x = u
  BY <1>1, <1>2, <1>3 DEF known
<1>5. u \notin known
  BY <1>1, KnownIs
<1> QED BY <1>1, <1>3, <1>4, <1>5

\* A row that is new, or whose user is created: no link becomes visible by itself.
LEMMA TablesCreate ==
    ASSUME TypeOK, IssuedInv, NEW x \in Id, Create(x)
    PROVE  Tables!Create(x)
<1>1. /\ rows' = rows \cup {x} /\ x \notin issued /\ issued' = issued \cup {x}
      /\ links' = links /\ req' = req
  BY DEF Create
<1>2. shown' = shown
  BY <1>1 DEF shown, Effective, IssuedInv
<1>3. \A q \in Request : req[q].op = "createUser" => x \notin req[q].ids
  BY <1>1, IdleShape DEF IssuedInv, InFlight, TypeOK, RequestState
<1>4. known' = known \cup {x} /\ x \notin known
  BY <1>1, <1>3 DEF known
<1> QED BY <1>1, <1>2, <1>4 DEF Tables!Create, Tables!Id, Id

\* A user is created with its roles.
LEMMA TablesCreateUser ==
    ASSUME TypeOK, ShapeInv, IssuedInv, CreatedInv, AloneInv, NEW q \in alone,
           SaveCommit(q), req[q].op = "createUser"
    PROVE  \E u \in User, R \in SUBSET Role : Tables!CreateUser(u, R)
<1> DEFINE R == req[q].args
<1>1. /\ q \in Request /\ InFlight(q) /\ UpToDate(req[q]) /\ req[q] \in RequestState
      /\ req[q].pc = "loaded" /\ End(q) /\ issued' = issued
  BY BusySlot DEF TypeOK, AloneInv, SaveCommit
<1>2. PICK u \in User : /\ req[q].ids = {u} /\ u \notin known /\ u \in issued
                        /\ u \notin rows /\ (\A l \in links : l[1] # u)
                        /\ known' = known \cup {u}
  BY <1>1, KnownMore
<1>3. R \subseteq Role \cap rows /\ R # {} /\ req[q].want = {u} \X R
  BY <1>1, <1>2 DEF ShapeInv, Shape, UpToDate, AssignOps
<1>4. req[q].found = {} /\ req[q].have = {}
  BY <1>1, <1>2 DEF UpToDate, LinksOf, LinkOps, SaveOps
<1>5. rows' = rows \cup {u} /\ links' = links \cup ({u} \X R)
  BY <1>2, <1>3, <1>4 DEF SaveCommit, RowsAfterSave, LinksAfterSave
<1>6. \A l \in links : l[2] # u
  BY <1>2, PairParts, IdsDisjoint DEF TypeOK, Pair
<1>7. shown' = shown \cup ({u} \X R)
  BY <1>2, <1>3, <1>5, <1>6 DEF shown, Effective
<1> HIDE DEF R
<1>8. Tables!CreateUser(u, R)
  BY <1>2, <1>3, <1>5, <1>7 DEF Tables!CreateUser
<1> QED BY <1>3, <1>8

\* A user's roles are replaced.
LEMMA TablesSetRoles ==
    ASSUME TypeOK, ShapeInv, AloneInv, NEW q \in alone, SaveCommit(q), req[q].op = "setRoles"
    PROVE  \E u \in User, R \in SUBSET Role : Tables!SetRoles(u, R)
<1> DEFINE R == req[q].args
<1>1. /\ q \in Request /\ InFlight(q) /\ UpToDate(req[q]) /\ req[q] \in RequestState
      /\ req[q].pc = "loaded" /\ End(q) /\ issued' = issued
  BY BusySlot DEF TypeOK, AloneInv, SaveCommit
<1>2. PICK u \in User : req[q].ids = {u}
  BY DEF ShapeInv, Shape, TypeOK
<1>3. /\ R \subseteq Role \cap rows /\ R # {} /\ req[q].want = {u} \X R /\ u \in rows
      /\ req[q].found = {u} /\ req[q].have = LinksOf({u})
  BY <1>1, <1>2 DEF ShapeInv, Shape, UpToDate, AssignOps, LinkOps, SaveOps
<1>4. rows' = rows
  BY <1>2, <1>3 DEF SaveCommit, RowsAfterSave
<1>5. links' = (links \ (LinksOf({u}) \ ({u} \X R))) \cup (({u} \X R) \ LinksOf({u}))
  BY <1>3 DEF SaveCommit, LinksAfterSave
<1>6. known' = known
  BY <1>1, EndSlot, KnownSame
<1> HIDE DEF R
<1>7. \A l \in links : l[1] = u <=> l \in {u} \X Role
  BY <1>2, PairParts DEF TypeOK
<1>8. shown' = (shown \ ({u} \X Role)) \cup ({u} \X R)
  BY <1>3, <1>4, <1>5, <1>7 DEF shown, Effective, LinksOf
<1>9. Tables!SetRoles(u, R)
  BY <1>3, <1>4, <1>6, <1>8 DEF Tables!SetRoles
<1> QED BY <1>3, <1>9

\* Permissions are added to those of a role.
LEMMA TablesAssign ==
    ASSUME TypeOK, ShapeInv, AloneInv, NEW q \in alone, SaveCommit(q), req[q].op \in AssignOps
    PROVE  \E r \in Role, P \in SUBSET Permission : Tables!Assign(r, P)
<1> DEFINE P == req[q].args
<1>1. /\ q \in Request /\ InFlight(q) /\ UpToDate(req[q]) /\ req[q] \in RequestState
      /\ req[q].pc = "loaded" /\ End(q) /\ issued' = issued
  BY BusySlot DEF TypeOK, AloneInv, SaveCommit
<1>2. PICK r \in Role : req[q].ids = {r}
  BY DEF ShapeInv, Shape, TypeOK
<1>3. /\ P \subseteq Permission \cap rows /\ r \in rows
      /\ req[q].want = LinksOf({r}) \cup ({r} \X P)
      /\ req[q].found = {r} /\ req[q].have = LinksOf({r})
  BY <1>1, <1>2 DEF ShapeInv, Shape, UpToDate, AssignOps, LinkOps, SaveOps
<1>4. rows' = rows
  BY <1>2, <1>3 DEF SaveCommit, RowsAfterSave
<1>5. links' = links \cup ({r} \X P)
  BY <1>3 DEF SaveCommit, LinksAfterSave, LinksOf
<1>6. known' = known
  BY <1>1, EndSlot, KnownSame DEF AssignOps
<1> HIDE DEF P
<1>7. shown' = shown \cup ({r} \X P)
  BY <1>3, <1>4, <1>5 DEF shown, Effective
<1>8. Tables!Assign(r, P)
  BY <1>3, <1>4, <1>6, <1>7 DEF Tables!Assign
<1> QED BY <1>3, <1>8

\* Permissions are taken from those of a role.
LEMMA TablesUnassign ==
    ASSUME TypeOK, ShapeInv, AloneInv, NEW q \in alone, SaveCommit(q),
           req[q].op = "permissionUnassign"
    PROVE  \E r \in Role, P \in SUBSET Permission : Tables!Unassign(r, P)
<1> DEFINE P == req[q].args
<1>1. /\ q \in Request /\ InFlight(q) /\ UpToDate(req[q]) /\ req[q] \in RequestState
      /\ req[q].pc = "loaded" /\ End(q) /\ issued' = issued
  BY BusySlot DEF TypeOK, AloneInv, SaveCommit
<1>2. PICK r \in Role : req[q].ids = {r}
  BY DEF ShapeInv, Shape, TypeOK
<1>3. /\ P \subseteq Permission /\ r \in rows
      /\ req[q].want = LinksOf({r}) \ ({r} \X P)
      /\ req[q].found = {r} /\ req[q].have = LinksOf({r})
  BY <1>1, <1>2 DEF ShapeInv, Shape, UpToDate, AssignOps, LinkOps, SaveOps
<1>4. rows' = rows
  BY <1>2, <1>3 DEF SaveCommit, RowsAfterSave
<1>5. links' = links \ (LinksOf({r}) \cap ({r} \X P))
  BY <1>3 DEF SaveCommit, LinksAfterSave
<1>6. known' = known
  BY <1>1, EndSlot, KnownSame
<1> HIDE DEF P
<1>7. shown' = shown \ ({r} \X P)
  BY <1>4, <1>5 DEF shown, Effective, LinksOf
<1>8. Tables!Unassign(r, P)
  BY <1>3, <1>4, <1>6, <1>7 DEF Tables!Unassign
<1> QED BY <1>3, <1>8

\* A save without the relation writes nothing here.
LEMMA TablesUpdate ==
    ASSUME TypeOK, ShapeInv, AloneInv, NEW q \in alone, SaveCommit(q), req[q].op = "update"
    PROVE  Same
<1>1. /\ q \in Request /\ UpToDate(req[q]) /\ req[q].pc = "loaded" /\ End(q) /\ issued' = issued
  BY DEF TypeOK, AloneInv, SaveCommit
<1>2. req[q].found = req[q].ids /\ req[q].want = {} /\ req[q].have = {}
  BY <1>1 DEF UpToDate, ShapeInv, Shape, SaveOps
<1>3. rows' = rows /\ links' = links
  BY <1>2 DEF SaveCommit, RowsAfterSave, LinksAfterSave
<1>4. known' = known
  BY <1>1, EndSlot, KnownSame
<1> QED BY <1>3, <1>4 DEF Same, shown, Effective

\* Rows go with all their links.
LEMMA TablesDelete ==
    ASSUME TypeOK, ShapeInv, AloneInv, NEW q \in alone, RemoveCommit(q)
    PROVE  \E X \in SUBSET Id : Tables!Delete(X)
<1> DEFINE X == req[q].ids
<1>1. /\ q \in Request /\ UpToDate(req[q]) /\ req[q].op = "delete" /\ req[q].pc = "loaded"
      /\ End(q) /\ issued' = issued /\ rows' = rows \ X /\ links' = links \ req[q].have
  BY DEF TypeOK, AloneInv, RemoveCommit
<1>2. X \subseteq rows /\ \A l \in req[q].have : l[1] \in X \/ l[2] \in X
  BY <1>1 DEF UpToDate, ShapeInv, Shape
<1>3. known' = known
  BY <1>1, EndSlot, KnownSame
<1> HIDE DEF X
<1>4. shown' = shown \ Tables!Touching(X)
  BY <1>1, <1>2 DEF shown, Effective, Tables!Touching
<1>5. Tables!Delete(X)
  BY <1>1, <1>2, <1>3, <1>4 DEF Tables!Delete
<1>6. X \in SUBSET Id
  BY <1>2 DEF TypeOK
<1> QED BY <1>5, <1>6

\* Requests begin, read and load without anybody seeing it.
LEMMA TablesBegin ==
    ASSUME TypeOK, NEW q \in Request, NEW op, NEW pc, NEW ids, NEW args, NEW want,
           Begin(q, New(op, pc, ids, args, want)), op # "createUser",
           UNCHANGED <<rows, links, issued>>
    PROVE  Same
<1>1. /\ req'[q].op = op /\ \A x \in Request \ {q} : req'[x] = req[x]
  BY BeginSlot
<1>2. req[q].op # "createUser"
  BY BeginSlot, IdleShape DEF InFlight, TypeOK, RequestState
<1>3. known' = known
  BY <1>1, <1>2, KnownSame
<1> QED BY <1>3 DEF Same, shown, Effective

LEMMA TablesGoOn ==
    ASSUME NEW q \in Request, req'[q].op = req[q].op, req'[q].ids = req[q].ids,
           \A x \in Request \ {q} : req'[x] = req[x],
           UNCHANGED <<rows, links, issued>>
    PROVE  Same
<1>1. known' = known
  BY KnownSame
<1> QED BY <1>1 DEF Same, shown, Effective

\* Each step of a request that has met no competitor is a step of the tables, or none.
LEMMA TablesStep ==
    ASSUME IndInv, [Next]_vars, Undisturbed
    PROVE  Same \/ Tables!Next
<1>0. /\ TypeOK /\ ShapeInv /\ IssuedInv /\ CreatedInv /\ AloneInv
      /\ req \in [Request -> RequestState \cup {Idle}]
  BY DEF IndInv, TypeOK
<1>1. Tables!Id = Id
  BY DEF Tables!Id, Id
<1>alone. ASSUME NEW q \in Request, InFlight(q), req'[q] # req[q]
          PROVE  q \in alone
  BY <1>alone DEF Undisturbed
<1>create. ASSUME NEW x \in Id, Create(x) PROVE Tables!Next
  BY <1>create, <1>0, <1>1, TablesCreate DEF Tables!Next
<1>user. ASSUME NEW q \in Request, NEW u \in User, NEW R \in SUBSET Role, CreateUser(q, u, R)
         PROVE  Same
  <2>1. /\ Begin(q, New("createUser", "ready", {u}, R \cap rows, {u} \X (R \cap rows)))
        /\ rows' = rows /\ links' = links /\ u \notin issued /\ issued' = issued \cup {u}
    BY <1>user DEF CreateUser
  <2>2. /\ req'[q].op = "createUser" /\ req'[q].ids = {u} /\ ~InFlight(q)
        /\ \A x \in Request \ {q} : req'[x] = req[x]
    BY <1>0, <2>1, BeginSlot
  <2>3. req[q].op # "createUser"
    BY <1>0, <2>2, IdleShape DEF InFlight, RequestState
  <2>4. known' = known
    <3>1. ASSUME NEW x PROVE x \in known' <=> x \in known
      BY <1>0, <2>1, <2>2, <2>3, <3>1 DEF known
    <3> QED BY <3>1
  <2> QED BY <2>1, <2>4 DEF Same, shown, Effective
<1>update. ASSUME NEW q \in Request, NEW x \in Id, Update(q, x) PROVE Same
  BY <1>update, <1>0, TablesBegin DEF Update
<1>updateUser. ASSUME NEW q \in Request, NEW u \in User, NEW R \in SUBSET Role, UpdateUser(q, u, R)
               PROVE  Same
  BY <1>updateUser, <1>0, TablesBegin DEF UpdateUser
<1>assign. ASSUME NEW q \in Request, NEW op \in {"permissionAssign", "permissionAssignSelected"},
                  NEW x \in Role, NEW P \in SUBSET Permission, PermissionAssign(q, op, x, P)
           PROVE  Same
  BY <1>assign, <1>0, TablesBegin DEF PermissionAssign
<1>unassign. ASSUME NEW q \in Request, NEW x \in Role, NEW P \in SUBSET Permission,
                    PermissionUnassign(q, x, P)
             PROVE  Same
  BY <1>unassign, <1>0, TablesBegin DEF PermissionUnassign
<1>delete. ASSUME NEW q \in Request, NEW X \in SUBSET Id, Delete(q, X) PROVE Same
  BY <1>delete, <1>0, TablesBegin DEF Delete
<1>permissions. ASSUME NEW q \in Request, FindPermissions(q) PROVE Same
  <2>1. /\ req[q] \in RequestState /\ UNCHANGED <<rows, links, issued>>
        /\ req[q].op # "createUser"
    BY <1>permissions, <1>0, BusySlot DEF FindPermissions
  <2>2. CASE End(q)
    <3>1. known' = known
      BY <1>0, <2>1, <2>2, EndSlot, KnownSame
    <3> QED BY <2>1, <3>1 DEF Same, shown, Effective
  <2>3. CASE ~End(q)
    <3> DEFINE found == req[q].args \cap rows
    <3>1. Step(q, Prepared(req[q], found, Pushed(q, found)))
      BY <2>3, <1>permissions DEF FindPermissions
    <3>2. /\ req'[q].op = req[q].op /\ req'[q].ids = req[q].ids
          /\ \A x \in Request \ {q} : req'[x] = req[x]
      BY <1>0, <2>1, <3>1, PreparedSlot
    <3> QED BY <2>1, <3>2, TablesGoOn
  <2> QED BY <2>2, <2>3
<1>roles. ASSUME NEW q \in Request, FindRoles(q) PROVE Same
  <2>1. /\ req[q] \in RequestState /\ UNCHANGED <<rows, links, issued>>
        /\ req[q].op # "createUser"
    BY <1>roles, <1>0, BusySlot DEF FindRoles
  <2>2. CASE End(q)
    <3>1. known' = known
      BY <1>0, <2>1, <2>2, EndSlot, KnownSame
    <3> QED BY <2>1, <3>1 DEF Same, shown, Effective
  <2>3. CASE ~End(q)
    <3> DEFINE found == req[q].args \cap rows
    <3>1. Step(q, Prepared(req[q], found, Merged(q, found)))
      BY <2>3, <1>roles DEF FindRoles
    <3>2. /\ req'[q].op = req[q].op /\ req'[q].ids = req[q].ids
          /\ \A x \in Request \ {q} : req'[x] = req[x]
      BY <1>0, <2>1, <3>1, PreparedSlot
    <3> QED BY <2>1, <3>2, TablesGoOn
  <2> QED BY <2>2, <2>3
<1>saveLoad. ASSUME NEW q \in Request, SaveLoad(q) PROVE Same
  <2>1. /\ req[q] \in RequestState /\ UNCHANGED <<rows, links, issued>>
        /\ Step(q, Loaded(req[q], req[q].ids \cap rows, LoadedLinks(q)))
    BY <1>saveLoad, <1>0, BusySlot DEF SaveLoad
  <2>2. /\ req'[q].op = req[q].op /\ req'[q].ids = req[q].ids
        /\ \A x \in Request \ {q} : req'[x] = req[x]
    BY <1>0, <2>1, LoadedSlot
  <2> QED BY <2>1, <2>2, TablesGoOn
<1>removeLoad. ASSUME NEW q \in Request, RemoveLoad(q) PROVE Same
  <2>1. /\ req[q] \in RequestState /\ UNCHANGED <<rows, links, issued>>
        /\ Step(q, Loaded(req[q], {}, LinksTouching(req[q].ids)))
    BY <1>removeLoad, <1>0, BusySlot DEF RemoveLoad
  <2>2. /\ req'[q].op = req[q].op /\ req'[q].ids = req[q].ids
        /\ \A x \in Request \ {q} : req'[x] = req[x]
    BY <1>0, <2>1, LoadedSlot
  <2> QED BY <2>1, <2>2, TablesGoOn
<1>ends. ASSUME NEW q \in Request, InFlight(q), End(q) PROVE q \in alone
  <2>1. req'[q].pc = "idle"
    BY <1>0, <1>ends, EndSlot
  <2> QED BY <1>ends, <2>1, <1>alone DEF InFlight
<1>saveCommit. ASSUME NEW q \in Request, SaveCommit(q) PROVE Same \/ Tables!Next
  <2>1. q \in alone /\ req[q].op \in SaveOps
    BY <1>saveCommit, <1>ends DEF SaveCommit, InFlight
  <2>2. CASE req[q].op = "createUser"
    BY <1>0, <1>saveCommit, <2>1, <2>2, TablesCreateUser DEF Tables!Next
  <2>3. CASE req[q].op = "setRoles"
    BY <1>0, <1>saveCommit, <2>1, <2>3, TablesSetRoles DEF Tables!Next
  <2>4. CASE req[q].op \in AssignOps
    BY <1>0, <1>saveCommit, <2>1, <2>4, TablesAssign DEF Tables!Next
  <2>5. CASE req[q].op = "permissionUnassign"
    BY <1>0, <1>saveCommit, <2>1, <2>5, TablesUnassign DEF Tables!Next
  <2>6. CASE req[q].op = "update"
    BY <1>0, <1>saveCommit, <2>1, <2>6, TablesUpdate
  <2> QED BY <2>1, <2>2, <2>3, <2>4, <2>5, <2>6 DEF SaveOps, LinkOps, AssignOps
<1>removeCommit. ASSUME NEW q \in Request, RemoveCommit(q) PROVE Tables!Next
  <2>1. q \in alone
    BY <1>removeCommit, <1>ends DEF RemoveCommit, InFlight
  <2> QED BY <1>0, <1>1, <1>removeCommit, <2>1, TablesDelete DEF Tables!Next
<1>fail. ASSUME NEW q \in Request, Fail(q) PROVE Same \/ Tables!Next
  <2>1. /\ InFlight(q) /\ End(q) /\ UNCHANGED <<rows, links, issued>>
    BY <1>fail DEF Fail
  <2>2. shown' = shown
    BY <2>1 DEF shown, Effective
  <2>3. CASE req[q].op = "createUser"
    <3>1. PICK u \in User : u \notin known /\ known' = known \cup {u}
      BY <1>0, <2>1, <2>3, KnownMore
    <3>2. Tables!GiveUp(u)
      BY <2>1, <2>2, <3>1 DEF Tables!GiveUp
    <3> QED BY <3>2 DEF Tables!Next
  <2>4. CASE req[q].op # "createUser"
    <3>1. known' = known
      BY <1>0, <2>1, <2>4, EndSlot, KnownSame
    <3> QED BY <2>1, <2>2, <3>1 DEF Same
  <2> QED BY <2>3, <2>4
<1>stutter. CASE UNCHANGED vars
  BY <1>stutter DEF vars, Same, shown, Effective, known
<1> QED
  BY <1>create, <1>user, <1>update, <1>updateUser, <1>assign, <1>unassign, <1>delete,
     <1>permissions, <1>roles, <1>saveLoad, <1>removeLoad, <1>saveCommit, <1>removeCommit,
     <1>fail, <1>stutter
  DEF Next, StoreRole, StorePermission, Register, UpdateRole, UpdatePermission,
     UpdateProfile, DeleteUsers, DeleteRoles, DeletePermissions

LEMMA TablesInit == Init => Tables!Init
<1> SUFFICES ASSUME Init PROVE Tables!Init
  OBVIOUS
<1>1. PICK u \in User, r \in Role : rows = {u, r} /\ links = {<<u, r>>}
  BY DEF Init
<1>2. shown = links
  BY <1>1 DEF shown, Effective
<1>3. known = rows
  BY IdleShape DEF Init, known
<1> QED BY <1>1, <1>2, <1>3 DEF Tables!Init

\* The services implement the tables: what a request without a competitor writes,
\* whatever others do beside it, is one step of AccessTables, and exactly what it was
\* asked for.
THEOREM TablesImplemented == Spec => ImplementsTables
<1>1. IndInv /\ [Next]_vars
        => [Undisturbed /\ (Tables!tables)' # Tables!tables => Tables!Next]_vars
  <2> SUFFICES ASSUME IndInv, [Next]_vars, Undisturbed, (Tables!tables)' # Tables!tables
               PROVE  Tables!Next
    OBVIOUS
  <2>1. ~Same
    BY DEF Same, Tables!tables
  <2> QED BY <2>1, TablesStep
<1> QED BY <1>1, TablesInit, Invariance, PTL DEF Spec, ImplementsTables

=============================================================================
