---------------------------- MODULE SeederProofs ----------------------------
(***************************************************************************)
(* What the seed guarantees, for any number of seeds, visitors and rows,   *)
(* and, in the second half, what the entrypoint and the migrations do, for *)
(* any number of containers.                                               *)
(*                                                                         *)
(* The steps of the seed are of two kinds.  Those of seeds and visitors    *)
(* only add rows and links (Grow); among them, Moves says which seed moved *)
(* and where to.  Those of the administrator (Edit) move no seed and empty *)
(* the sets calm, alone and again.                                         *)
(***************************************************************************)
EXTENDS Seeder, Boot, TLAPS

Pcs == Looking \cup Inserting \cup Over

\* Seed p is now at pc; the rows it holds are r and u.
Moves(p, pc, r, u) ==
    /\ seed' \in [Seed -> Seeds]
    /\ seed'[p].pc = pc /\ seed'[p].role = r /\ seed'[p].user = u
    /\ \A x \in Seed : x # p => seed'[x] = seed[x]

\* Rows and links are added, none is changed or removed.
Grow ==
    /\ settings \subseteq settings'
    /\ links \subseteq links'
    /\ \A r \in Role : roles[r] # None => roles'[r] = roles[r]
    /\ \A u \in User : users[u] # None => users'[u] = users[u]

LEMMA MoveMoves ==
  ASSUME TypeOK, NEW p \in Seed, NEW pc \in Pcs, NEW r \in Role \cup {None},
         NEW u \in User \cup {None}, Move(p, pc, r, u)
  PROVE  Moves(p, pc, r, u)
<1> DEFINE z == [pc |-> pc, role |-> r, user |-> u]
<1>1. z \in Seeds /\ z.pc = pc /\ z.role = r /\ z.user = u
  BY DEF Seeds, Pcs
<1>2. seed \in [Seed -> Seeds] /\ seed' = [seed EXCEPT ![p] = z]
  BY DEF TypeOK, Move
<1> HIDE DEF z
<1>3. /\ seed' \in [Seed -> Seeds]
      /\ seed'[p] = z
      /\ \A x \in Seed : x # p => seed'[x] = seed[x]
  BY <1>1, <1>2
<1> QED BY <1>1, <1>3 DEF Moves

LEMMA GotoMoves ==
  ASSUME TypeOK, NEW p \in Seed, NEW pc \in Pcs, Goto(p, pc)
  PROVE  Moves(p, pc, seed[p].role, seed[p].user)
<1>1. seed[p].role \in Role \cup {None} /\ seed[p].user \in User \cup {None}
  BY DEF TypeOK, Seeds
<1> QED BY <1>1, MoveMoves DEF Goto

-----------------------------------------------------------------------------
(***************************************************************************)
(* The initial states.                                                     *)
(***************************************************************************)
LEMMA InitialState == Init => IndInv
<1> SUFFICES ASSUME Init PROVE IndInv
  OBVIOUS
<1> USE SeederAssumption DEF Init, Idle
<1>idle. Idle \in Seeds
  BY DEF Seeds, Over
<1>tables. /\ settings \subseteq Setting
           /\ roles \in [Role -> Name \cup {None}]
           /\ users \in [User -> Row \cup {None}]
           /\ links \subseteq User \X Role
           /\ issued \subseteq Role \cup User
           /\ RowsInv
           /\ \A s, t \in settings : s = t
  <2>1. CASE Empty
    BY <2>1 DEF Empty, RowsInv
  <2>2. CASE Migrated
    <3>1. PICK s \in Setting, r \in Role, u \in User :
            /\ settings = {s} /\ links = {<<u, r>>} /\ issued = {u, r}
            /\ roles = [x \in Role |-> IF x = r THEN Administrator ELSE None]
            /\ users = [x \in User |->
                          IF x = u THEN [email |-> AdminEmail, code |-> AdminCode] ELSE None]
      BY <2>2 DEF Migrated
    <3>2. [email |-> AdminEmail, code |-> AdminCode] \in Row
      BY DEF Row
    <3>3. RowsInv
      BY <3>1, <3>2 DEF RowsInv, Row
    <3> QED BY <3>1, <3>2, <3>3
  <2> QED BY <2>1, <2>2
<1>1. TypeOK
  BY <1>idle, <1>tables DEF TypeOK
<1>2. HeldInv /\ CalmInv /\ AloneInv /\ AgainInv /\ FailsOnCodeOnly /\ AgainInsertsNothing
  BY DEF HeldInv, CalmInv, AloneInv, AgainInv, FailsOnCodeOnly, AgainInsertsNothing
<1>3. SettingInv /\ OneSetting
  BY <1>tables DEF SettingInv, OneSetting, PendingSetting
<1> QED BY <1>1, <1>2, <1>3, <1>tables DEF IndInv

-----------------------------------------------------------------------------
(***************************************************************************)
(* The tables.                                                             *)
(***************************************************************************)

\* A step of a seed or of a visitor only adds.
LEMMA Growth ==
  ASSUME TypeOK, RowsInv,
         (\E p \in Seed : SeedStep(p)) \/ (\E v \in Visitor : IndexFind(v) \/ IndexSave(v))
  PROVE  Grow
<1> USE DEF TypeOK, tables
<1>1. ASSUME NEW p \in Seed, InsertRole(p) PROVE Grow
  BY <1>1 DEF InsertRole, Grow, RowsInv
<1>2. ASSUME NEW p \in Seed, InsertUser(p) PROVE Grow
  BY <1>2 DEF InsertUser, Grow, RowsInv
<1>3. ASSUME NEW p \in Seed, InsertSetting(p) PROVE Grow
  BY <1>3 DEF InsertSetting, Grow
<1>4. ASSUME NEW p \in Seed, InsertLink(p) PROVE Grow
  BY <1>4 DEF InsertLink, Grow
<1>5. ASSUME UNCHANGED tables PROVE Grow
  BY <1>5 DEF Grow
<1>6. ASSUME NEW v \in Visitor, IndexSave(v) PROVE Grow
  BY <1>6 DEF IndexSave, Grow
<1>7. ASSUME NEW p \in Seed, SeedStep(p) PROVE Grow
  <2>1. CASE Boot(p) \/ Reject(p) \/ Stop(p) \/ FindSetting(p) \/ FindRole(p)
             \/ FindUser(p) \/ FindLink(p)
    BY <2>1, <1>5 DEF Boot, Reject, Stop, FindSetting, FindRole, FindUser, FindLink
  <2> QED BY <1>7, <2>1, <1>1, <1>2, <1>3, <1>4 DEF SeedStep
<1>8. ASSUME NEW v \in Visitor, IndexFind(v) PROVE Grow
  BY <1>8, <1>5 DEF IndexFind
<1> QED BY <1>6, <1>7, <1>8

LEMMA AdminKept == ASSUME Grow, TypeOK, AdminThere PROVE AdminThere'
  BY SeederAssumption DEF Grow, AdminThere, TypeOK

LEMMA RowsStep == TypeOK /\ RowsInv /\ [Next]_vars => RowsInv'
<1> SUFFICES ASSUME TypeOK, RowsInv, [Next]_vars PROVE RowsInv'
  OBVIOUS
<1> USE SeederAssumption DEF TypeOK, RowsInv, tables
<1>same. ASSUME UNCHANGED <<roles, users, issued>> PROVE RowsInv'
  BY <1>same
<1>row. \A e \in Email, c \in Code : [email |-> e, code |-> c] # None
  BY DEF Row
<1>role. ASSUME NEW r \in Role, NEW n \in Name, roles' = [roles EXCEPT ![r] = n],
                ~NameTaken(n), UNCHANGED users, issued \cup {r} = issued'
         PROVE  RowsInv'
  <2>1. \A x \in Role : roles'[x] # None =>
           x \in issued' /\ \A y \in Role : roles'[y] = roles'[x] => y = x
    BY <1>role DEF NameTaken
  <2>2. \A u \in User : users'[u] # None =>
           u \in issued' /\ \A x \in User :
              users'[x] # None /\ users'[x].email = users'[u].email => x = u
    BY <1>role
  <2> QED BY <2>1, <2>2
<1>user. ASSUME NEW u \in User, NEW e \in Email, NEW c \in Code,
                users' = [users EXCEPT ![u] = [email |-> e, code |-> c]],
                \A x \in User \ {u} : users[x] # None => users[x].email # e,
                UNCHANGED roles, issued \cup {u} = issued'
         PROVE  RowsInv'
  <2>1. users'[u] = [email |-> e, code |-> c] /\ users'[u].email = e
    BY <1>user
  <2>2. \A x \in User : x # u => users'[x] = users[x]
    BY <1>user
  <2>3. \A x \in User : users'[x] # None =>
           x \in issued' /\ \A y \in User :
              users'[y] # None /\ users'[y].email = users'[x].email => y = x
    BY <1>user, <2>1, <2>2
  <2>4. \A x \in Role : roles'[x] # None =>
           x \in issued' /\ \A y \in Role : roles'[y] = roles'[x] => y = x
    BY <1>user
  <2> QED BY <2>3, <2>4
<1>1. ASSUME NEW p \in Seed, SeedStep(p) PROVE RowsInv'
  <2>1. CASE InsertRole(p)
    BY <2>1, <1>role DEF InsertRole
  <2>2. CASE InsertUser(p)
    BY <2>2, <1>user DEF InsertUser, EmailTaken
  <2>3. CASE ~InsertRole(p) /\ ~InsertUser(p)
    BY <1>1, <2>3, <1>same DEF SeedStep, Boot, Reject, Stop, FindSetting, InsertSetting,
                               FindRole, FindUser, FindLink, InsertLink
  <2> QED BY <2>1, <2>2, <2>3
<1>2. ASSUME NEW v \in Visitor, IndexFind(v) \/ IndexSave(v) PROVE RowsInv'
  BY <1>2, <1>same DEF IndexFind, IndexSave
<1>3. CASE EditStep
  <2>1. ASSUME NEW r \in Role, DeleteRole(r) PROVE RowsInv'
    BY <2>1 DEF DeleteRole
  <2>2. ASSUME NEW r \in Role, NEW n \in Name, StoreRole(r, n) PROVE RowsInv'
    BY <2>2, <1>role DEF StoreRole
  <2>3. ASSUME NEW r \in Role, NEW n \in Name, UpdateRole(r, n) PROVE RowsInv'
    <3>1. issued \cup {r} = issued'
      BY <2>3 DEF UpdateRole
    <3> QED BY <2>3, <3>1, <1>role DEF UpdateRole
  <2>4. ASSUME NEW u \in User, DeleteUser(u) PROVE RowsInv'
    BY <2>4 DEF DeleteUser
  <2>5. ASSUME NEW u \in User, NEW e \in Email, NEW c \in Code,
               NEW R \in SUBSET {r \in Role : roles[r] # None}, UpdateUser(u, e, c, R)
        PROVE  RowsInv'
    <3>1. issued \cup {u} = issued'
      BY <2>5 DEF UpdateUser
    <3> QED BY <2>5, <3>1, <1>user DEF UpdateUser
  <2>6. ASSUME NEW u \in User, NEW e \in Email, NEW c \in Code,
               NEW R \in SUBSET {r \in Role : roles[r] # None}, CreateUser(u, e, c, R)
        PROVE  RowsInv'
    <3>1. \A x \in User \ {u} : users[x] # None => users[x].email # e
      BY <2>6 DEF CreateUser, EmailTaken
    <3> QED BY <2>6, <3>1, <1>user DEF CreateUser
  <2> QED BY <1>3, <2>1, <2>2, <2>3, <2>4, <2>5, <2>6 DEF EditStep
<1>4. CASE UNCHANGED vars
  BY <1>4, <1>same DEF vars
<1> QED BY <1>1, <1>2, <1>3, <1>4 DEF Next

-----------------------------------------------------------------------------
(***************************************************************************)
(* Type correctness.                                                       *)
(***************************************************************************)

\* Where each step of a seed leads.
LEMMA StepLeads ==
  ASSUME TypeOK, NEW p \in Seed
  PROVE  LET To(pc) == Moves(p, pc, seed[p].role, seed[p].user) IN
         /\ Boot(p) => Moves(p, "setting", None, None)
         /\ Reject(p) => To("failed")
         /\ Stop(p) => To("idle")
         /\ FindSetting(p) => To(IF SettingMissing THEN "insertSetting" ELSE "role")
         /\ InsertSetting(p) => To("role")
         /\ FindRole(p) => \/ \E r \in Role : /\ roles[r] = Administrator
                                              /\ Moves(p, "user", r, seed[p].user)
                           \/ ~NameTaken(Administrator) /\ To("insertRole")
         /\ InsertRole(p) => \E r \in Role \ issued :
                                /\ roles' = [roles EXCEPT ![r] = Administrator]
                                /\ Moves(p, "user", r, seed[p].user)
         /\ FindUser(p) => \/ \E u \in User : /\ users[u] # None /\ users[u].email = AdminEmail
                                              /\ Moves(p, "link", seed[p].role, u)
                           \/ ~EmailTaken(AdminEmail) /\ To("insertUser")
         /\ InsertUser(p) => \E u \in User \ issued :
                                /\ users' = [users EXCEPT ![u] = [email |-> AdminEmail, code |-> AdminCode]]
                                /\ Moves(p, "link", seed[p].role, u)
         /\ FindLink(p) => To(IF LinkFound(seed[p].user, seed[p].role) THEN "done" ELSE "insertLink")
         /\ InsertLink(p) => To("done")
<1> DEFINE To(pc) == Moves(p, pc, seed[p].role, seed[p].user)
<1>0. seed[p].role \in Role \cup {None} /\ seed[p].user \in User \cup {None}
  BY DEF TypeOK, Seeds
<1>1. \A pc \in Pcs : Goto(p, pc) => To(pc)
  BY GotoMoves
<1>2. \A pc \in Pcs, r \in Role \cup {None}, u \in User \cup {None} :
         Move(p, pc, r, u) => Moves(p, pc, r, u)
  BY MoveMoves
<1>3. /\ "setting" \in Pcs /\ "role" \in Pcs /\ "user" \in Pcs /\ "link" \in Pcs
      /\ "insertSetting" \in Pcs /\ "insertRole" \in Pcs /\ "insertUser" \in Pcs
      /\ "insertLink" \in Pcs /\ "idle" \in Pcs /\ "done" \in Pcs /\ "failed" \in Pcs
  BY DEF Pcs, Looking, Inserting, Over
<1> HIDE DEF To
<1>4. Boot(p) => Moves(p, "setting", None, None)
  BY <1>2, <1>3 DEF Boot
<1>5. /\ Reject(p) => To("failed")
      /\ Stop(p) => To("idle")
      /\ InsertSetting(p) => To("role")
      /\ InsertLink(p) => To("done")
  BY <1>1, <1>3 DEF Reject, Stop, InsertSetting, InsertLink
<1>6. FindSetting(p) => To(IF SettingMissing THEN "insertSetting" ELSE "role")
  BY <1>1, <1>3 DEF FindSetting
<1>7. FindLink(p) => To(IF LinkFound(seed[p].user, seed[p].role) THEN "done" ELSE "insertLink")
  BY <1>1, <1>3 DEF FindLink
<1>8. FindRole(p) => \/ \E r \in Role : roles[r] = Administrator /\ Moves(p, "user", r, seed[p].user)
                     \/ ~NameTaken(Administrator) /\ To("insertRole")
  BY <1>0, <1>1, <1>2, <1>3 DEF FindRole
<1>9. InsertRole(p) => \E r \in Role \ issued : /\ roles' = [roles EXCEPT ![r] = Administrator]
                                                /\ Moves(p, "user", r, seed[p].user)
  BY <1>0, <1>2, <1>3 DEF InsertRole
<1>10. FindUser(p) => \/ \E u \in User : /\ users[u] # None /\ users[u].email = AdminEmail
                                         /\ Moves(p, "link", seed[p].role, u)
                      \/ ~EmailTaken(AdminEmail) /\ To("insertUser")
  BY <1>0, <1>1, <1>2, <1>3 DEF FindUser
<1>11. InsertUser(p) => \E u \in User \ issued :
          /\ users' = [users EXCEPT ![u] = [email |-> AdminEmail, code |-> AdminCode]]
          /\ Moves(p, "link", seed[p].role, u)
  BY <1>0, <1>2, <1>3 DEF InsertUser
<1> QED BY <1>4, <1>5, <1>6, <1>7, <1>8, <1>9, <1>10, <1>11 DEF To

\* The other seeds stay where they are.
LEMMA StepMoves ==
  ASSUME TypeOK, NEW p \in Seed, SeedStep(p)
  PROVE  seed' \in [Seed -> Seeds] /\ \A x \in Seed : x # p => seed'[x] = seed[x]
  BY StepLeads DEF SeedStep, Moves

Held(p) ==
    /\ seed[p].pc \in {"user", "insertUser", "link", "insertLink"} => seed[p].role \in Role
    /\ seed[p].pc \in {"link", "insertLink"} => seed[p].user \in User

LEMMA HeldStep == TypeOK /\ HeldInv /\ [Next]_vars => HeldInv'
<1> SUFFICES ASSUME TypeOK, HeldInv, [Next]_vars PROVE HeldInv'
  OBVIOUS
<1>1. CASE UNCHANGED seed
  BY <1>1 DEF HeldInv
<1>2. ASSUME NEW p \in Seed, SeedStep(p) PROVE HeldInv'
  <2>1. Held(p)
    BY DEF Held, HeldInv
  <2>2. Held(p)'
    <3>1. CASE Boot(p) \/ Reject(p) \/ Stop(p) \/ FindSetting(p) \/ InsertSetting(p)
      BY <3>1, StepLeads DEF Moves, Held
    <3>2. CASE FindRole(p) \/ InsertRole(p)
      BY <3>2, StepLeads DEF Moves, Held
    <3>3. CASE FindUser(p)
      <4>1. seed[p].role \in Role
        BY <3>3, <2>1 DEF FindUser, Held
      <4> QED BY <3>3, <4>1, StepLeads DEF Moves, Held
    <3>4. CASE InsertUser(p)
      <4>1. seed[p].role \in Role
        BY <3>4, <2>1 DEF InsertUser, Held
      <4> QED BY <3>4, <4>1, StepLeads DEF Moves, Held
    <3>5. CASE FindLink(p)
      <4>1. seed[p].role \in Role /\ seed[p].user \in User
        BY <3>5, <2>1 DEF FindLink, Held
      <4> QED BY <3>5, <4>1, StepLeads DEF Moves, Held
    <3>6. CASE InsertLink(p)
      BY <3>6, StepLeads DEF Moves, Held
    <3> QED BY <1>2, <3>1, <3>2, <3>3, <3>4, <3>5, <3>6 DEF SeedStep
  <2>3. \A x \in Seed : x # p => seed'[x] = seed[x]
    BY <1>2, StepMoves
  <2> QED BY <2>2, <2>3 DEF HeldInv, Held
<1>3. ASSUME NEW v \in Visitor, IndexFind(v) \/ IndexSave(v) PROVE HeldInv'
  BY <1>3, <1>1 DEF IndexFind, IndexSave
<1>4. CASE EditStep
  BY <1>4, <1>1 DEF EditStep, Edit, StoreRole, UpdateRole, DeleteRole, CreateUser, UpdateUser, DeleteUser
<1>5. CASE UNCHANGED vars
  BY <1>5, <1>1 DEF vars
<1> QED BY <1>2, <1>3, <1>4, <1>5 DEF Next

LEMMA TypeStep == TypeOK /\ HeldInv /\ [Next]_vars => TypeOK'
<1> SUFFICES ASSUME TypeOK, HeldInv, [Next]_vars PROVE TypeOK'
  OBVIOUS
<1> USE SeederAssumption DEF tables
<1>1. ASSUME NEW p \in Seed, SeedStep(p) PROVE TypeOK'
  <2>1. seed' \in [Seed -> Seeds]
    BY <1>1, StepMoves
  <2> USE <2>1 DEF TypeOK
  <2>2. CASE Boot(p)
    BY <2>2 DEF Boot
  <2>3. CASE Reject(p) \/ Stop(p) \/ FindRole(p) \/ FindUser(p) \/ FindLink(p)
    BY <2>3 DEF Reject, Stop, FindRole, FindUser, FindLink
  <2>4. CASE FindSetting(p)
    BY <2>4 DEF FindSetting
  <2>5. CASE InsertSetting(p)
    BY <2>5 DEF InsertSetting
  <2>6. CASE InsertRole(p)
    BY <2>6 DEF InsertRole
  <2>7. CASE InsertUser(p)
    <3>1. [email |-> AdminEmail, code |-> AdminCode] \in Row
      BY DEF Row
    <3> QED BY <2>7, <3>1 DEF InsertUser
  <2>8. CASE InsertLink(p)
    <3>1. NewLink(p) \in User \X Role
      BY <2>8 DEF InsertLink, NewLink, HeldInv
    <3> QED BY <2>8, <3>1 DEF InsertLink
  <2> QED BY <1>1, <2>2, <2>3, <2>4, <2>5, <2>6, <2>7, <2>8 DEF SeedStep
<1> USE DEF TypeOK
<1>2. ASSUME NEW v \in Visitor, IndexFind(v) \/ IndexSave(v) PROVE TypeOK'
  BY <1>2 DEF IndexFind, IndexSave
<1>3. CASE EditStep
  <2>1. ASSUME NEW r \in Role, DeleteRole(r) PROVE TypeOK'
    BY <2>1 DEF DeleteRole, Edit
  <2>2. ASSUME NEW r \in Role, NEW n \in Name, StoreRole(r, n) \/ UpdateRole(r, n) PROVE TypeOK'
    BY <2>2 DEF StoreRole, UpdateRole, Edit
  <2>3. ASSUME NEW u \in User, DeleteUser(u) PROVE TypeOK'
    BY <2>3 DEF DeleteUser, Edit
  <2>4. ASSUME NEW u \in User, NEW e \in Email, NEW c \in Code,
               NEW R \in SUBSET {r \in Role : roles[r] # None},
               CreateUser(u, e, c, R) \/ UpdateUser(u, e, c, R)
        PROVE  TypeOK'
    <3>1. [email |-> e, code |-> c] \in Row
      BY DEF Row
    <3> QED BY <2>4, <3>1 DEF CreateUser, UpdateUser, Edit
  <2> QED BY <1>3, <2>1, <2>2, <2>3, <2>4 DEF EditStep
<1>4. CASE UNCHANGED vars
  BY <1>4 DEF vars
<1> QED BY <1>1, <1>2, <1>3, <1>4 DEF Next

-----------------------------------------------------------------------------
(***************************************************************************)
(* What the three groups of steps leave alone.                             *)
(***************************************************************************)
VisitorStep == \E v \in Visitor : IndexFind(v) \/ IndexSave(v)

LEMMA EditIsEdit == EditStep => Edit
  BY DEF EditStep, StoreRole, UpdateRole, DeleteRole, CreateUser, UpdateUser, DeleteUser

LEMMA VisitorKeeps ==
  VisitorStep => UNCHANGED <<roles, users, links, issued, seed, calm, alone, again>>
  BY DEF VisitorStep, IndexFind, IndexSave, tables

\* Every step of a seed but its first is one of a running seed.
LEMMA Later ==
  ASSUME NEW p \in Seed, SeedStep(p), ~Boot(p)
  PROVE  Running(p) /\ UNCHANGED <<calm, alone, again>>
  BY DEF SeedStep, Reject, Stop, FindSetting, InsertSetting, FindRole, InsertRole, FindUser,
         InsertUser, FindLink, InsertLink, Running, Over

\* The two rows the seed looks for stay what they are.
LEMMA RowsKept ==
  ASSUME Grow, TypeOK
  PROVE  /\ \A r \in Role : roles[r] = Administrator => roles'[r] = Administrator
         /\ \A u \in User : IsAdmin(u) => users'[u] # None /\ users'[u].email = AdminEmail
  BY SeederAssumption DEF Grow, TypeOK, IsAdmin

-----------------------------------------------------------------------------
(***************************************************************************)
(* Seeds that met no edit.                                                 *)
(***************************************************************************)
Calm(p) ==
    /\ seed[p].pc \in {"user", "insertUser", "link", "insertLink"} => IsAdministrator(seed[p].role)
    /\ seed[p].pc \in {"link", "insertLink"} => IsAdmin(seed[p].user)
    /\ seed[p].pc = "done" => AdminThere

LEMMA CalmKept ==
  ASSUME TypeOK, Grow, NEW x \in Seed, seed'[x] = seed[x], Calm(x)
  PROVE  Calm(x)'
<1>1. AdminThere => AdminThere'
  BY AdminKept
<1>2. \A r : IsAdministrator(r) => r \in Role /\ roles'[r] = Administrator
  BY RowsKept DEF IsAdministrator
<1>3. \A u : IsAdmin(u) => u \in User /\ users'[u] # None /\ users'[u].email = AdminEmail
  BY RowsKept DEF IsAdmin
<1> QED BY <1>1, <1>2, <1>3 DEF Calm, IsAdministrator, IsAdmin

LEMMA CalmMoves ==
  ASSUME TypeOK, HeldInv, Grow, NEW p \in Seed, SeedStep(p), Boot(p) \/ Calm(p)
  PROVE  Calm(p)'
<1>k. /\ \A r \in Role : roles[r] = Administrator => roles'[r] = Administrator
      /\ \A u \in User : IsAdmin(u) => users'[u] # None /\ users'[u].email = AdminEmail
  BY RowsKept
<1>1. CASE Boot(p) \/ Reject(p) \/ Stop(p) \/ FindSetting(p) \/ InsertSetting(p)
  BY <1>1, StepLeads DEF Moves, Calm
<1>2. CASE FindRole(p)
  BY <1>2, <1>k, StepLeads DEF Moves, Calm, IsAdministrator
<1>3. CASE InsertRole(p)
  BY <1>3, StepLeads DEF Moves, Calm, IsAdministrator, TypeOK
<1>4. CASE FindUser(p)
  <2>1. Calm(p) /\ seed[p].pc = "user"
    BY <1>4 DEF FindUser, Boot, Running, Over
  <2>2. seed[p].role \in Role /\ roles[seed[p].role] = Administrator
    BY <2>1 DEF Calm, IsAdministrator
  <2> QED BY <1>4, <1>k, <2>2, StepLeads DEF Moves, Calm, IsAdministrator, IsAdmin
<1>5. CASE InsertUser(p)
  <2>1. Calm(p) /\ seed[p].pc = "insertUser"
    BY <1>5 DEF InsertUser, Boot, Running, Over
  <2>2. seed[p].role \in Role /\ roles'[seed[p].role] = Administrator
    BY <1>k, <2>1 DEF Calm, IsAdministrator
  <2>3. PICK u \in User : /\ users' = [users EXCEPT ![u] = [email |-> AdminEmail, code |-> AdminCode]]
                          /\ Moves(p, "link", seed[p].role, u)
    BY <1>5, StepLeads
  <2>4. [email |-> AdminEmail, code |-> AdminCode] # None
    BY SeederAssumption
  <2>5. users'[u] # None /\ users'[u].email = AdminEmail
    BY <2>3, <2>4 DEF TypeOK
  <2> QED BY <2>2, <2>3, <2>5 DEF Moves, Calm, IsAdministrator, IsAdmin
<1>6. CASE FindLink(p) \/ InsertLink(p)
  <2>1. Calm(p) /\ seed[p].pc \in {"link", "insertLink"}
    BY <1>6 DEF FindLink, InsertLink, Boot, Running, Over
  <2>2. seed[p].role \in Role /\ roles'[seed[p].role] = Administrator
    BY <1>k, <2>1 DEF Calm, IsAdministrator
  <2>3. /\ seed[p].user \in User
        /\ users'[seed[p].user] # None /\ users'[seed[p].user].email = AdminEmail
    BY <1>k, <2>1 DEF Calm, IsAdmin
  <2>4. <<seed[p].user, seed[p].role>> \in links' => AdminThere'
    BY <2>2, <2>3 DEF AdminThere
  <2>5. CASE FindLink(p)
    <3>1. links' = links
      BY <2>5 DEF FindLink, tables
    <3>2. CASE LinkFound(seed[p].user, seed[p].role)
      BY <2>4, <2>5, <3>1, <3>2, StepLeads DEF Moves, Calm, LinkFound
    <3>3. CASE ~LinkFound(seed[p].user, seed[p].role)
      BY <2>2, <2>3, <2>5, <3>3, StepLeads DEF Moves, Calm, IsAdministrator, IsAdmin
    <3> QED BY <3>2, <3>3
  <2>6. CASE InsertLink(p)
    <3>1. <<seed[p].user, seed[p].role>> \in links'
      BY <2>6 DEF InsertLink, NewLink
    <3> QED BY <2>4, <2>6, <3>1, StepLeads DEF Moves, Calm
  <2> QED BY <1>6, <2>5, <2>6
<1> QED BY <1>1, <1>2, <1>3, <1>4, <1>5, <1>6 DEF SeedStep

LEMMA CalmStep == TypeOK /\ RowsInv /\ HeldInv /\ CalmInv /\ [Next]_vars => CalmInv'
<1> SUFFICES ASSUME TypeOK, RowsInv, HeldInv, CalmInv, [Next]_vars PROVE CalmInv'
  OBVIOUS
<1>1. ASSUME NEW p \in Seed, SeedStep(p) PROVE CalmInv'
  <2>1. Grow
    BY <1>1, Growth
  <2>2. calm' \subseteq calm \cup {p}
    BY <1>1, Later DEF Boot
  <2>3. ASSUME NEW x \in calm', x # p PROVE Calm(x)'
    <3>1. x \in Seed /\ seed'[x] = seed[x] /\ Calm(x)
      BY <1>1, <2>2, <2>3, StepMoves DEF TypeOK, CalmInv, Calm
    <3> QED BY <2>1, <3>1, CalmKept
  <2>4. ASSUME p \in calm' PROVE Calm(p)'
    <3>1. Boot(p) \/ Calm(p)
      BY <1>1, <2>4, Later DEF CalmInv, Calm
    <3> QED BY <1>1, <2>1, <3>1, CalmMoves
  <2> QED BY <2>3, <2>4 DEF CalmInv, Calm
<1>2. CASE VisitorStep
  BY <1>2, VisitorKeeps DEF CalmInv, IsAdministrator, IsAdmin, AdminThere
<1>3. CASE EditStep
  BY <1>3, EditIsEdit DEF Edit, CalmInv
<1>4. CASE UNCHANGED vars
  BY <1>4 DEF vars, tables, CalmInv, IsAdministrator, IsAdmin, AdminThere
<1> QED BY <1>1, <1>2, <1>3, <1>4 DEF Next, VisitorStep

-----------------------------------------------------------------------------
(***************************************************************************)
(* Seeds that met no other seed.                                           *)
(***************************************************************************)
Missing(p) ==
    /\ seed[p].pc = "insertRole" => ~NameTaken(Administrator)
    /\ seed[p].pc = "insertUser" => ~EmailTaken(AdminEmail)
    /\ seed[p].pc = "insertLink" => NewLink(p) \notin links

CodeHeld == \E u \in User : users[u] # None /\ users[u].code = AdminCode /\ users[u].email # AdminEmail

\* Of the seeds that are alone after a step of p, only p can be running.
LEMMA AloneAfter ==
  ASSUME TypeOK, AloneInv, NEW p \in Seed, SeedStep(p), NEW x \in alone'
  PROVE  /\ x # p => x \in alone /\ seed'[x] = seed[x] /\ ~Running(x)
         /\ x = p => /\ \A y \in Seed : Running(y) => y = p
                     /\ Boot(p) \/ p \in alone
<1>1. CASE Boot(p)
  <2>1. CASE \E y \in Seed : Running(y)
    BY <1>1, <2>1, StepMoves DEF Boot, TypeOK
  <2>2. CASE ~ \E y \in Seed : Running(y)
    BY <1>1, <2>2, StepMoves DEF Boot, TypeOK
  <2> QED BY <2>1, <2>2
<1>2. CASE ~Boot(p)
  <2>1. x \in alone /\ Running(p) /\ x \in Seed
    BY <1>2, Later DEF TypeOK
  <2>2. Running(x) => \A y \in Seed : Running(y) => y = x
    BY <2>1 DEF AloneInv
  <2> QED BY <2>1, <2>2, StepMoves
<1> QED BY <1>1, <1>2

LEMMA MissingMoves ==
  ASSUME TypeOK, NEW p \in Seed, SeedStep(p)
  PROVE  Missing(p)'
<1>1. CASE FindRole(p)
  <2>1. UNCHANGED roles
    BY <1>1 DEF FindRole, tables
  <2> QED BY <1>1, <2>1, StepLeads DEF Moves, Missing, NameTaken
<1>2. CASE FindUser(p)
  <2>1. UNCHANGED users
    BY <1>2 DEF FindUser, tables
  <2> QED BY <1>2, <2>1, StepLeads DEF Moves, Missing, EmailTaken
<1>3. CASE FindLink(p)
  <2>1. UNCHANGED links
    BY <1>3 DEF FindLink, tables
  <2>2. CASE LinkFound(seed[p].user, seed[p].role)
    BY <1>3, <2>2, StepLeads DEF Moves, Missing
  <2>3. CASE ~LinkFound(seed[p].user, seed[p].role)
    BY <1>3, <2>1, <2>3, StepLeads DEF Moves, Missing, NewLink, LinkFound
  <2> QED BY <2>2, <2>3
<1>4. CASE ~FindRole(p) /\ ~FindUser(p) /\ ~FindLink(p)
  <2>1. seed'[p].pc \notin {"insertRole", "insertUser", "insertLink"}
    BY <1>4, StepLeads DEF SeedStep, Moves
  <2> QED BY <2>1 DEF Missing
<1> QED BY <1>1, <1>2, <1>3, <1>4

LEMMA AloneStep == TypeOK /\ AloneInv /\ [Next]_vars => AloneInv'
<1> SUFFICES ASSUME TypeOK, AloneInv, [Next]_vars PROVE AloneInv'
  OBVIOUS
<1>1. ASSUME NEW p \in Seed, SeedStep(p) PROVE AloneInv'
  <2>1. ASSUME NEW x \in alone'
        PROVE  (Running(x) => \A y \in Seed : Running(y) => y = x)' /\ Missing(x)'
    <3>1. CASE x = p
      <4>1. \A y \in Seed : Running(y)' => y = p
        BY <1>1, <2>1, <3>1, AloneAfter, StepMoves DEF Running
      <4> QED BY <1>1, <3>1, <4>1, MissingMoves
    <3>2. CASE x # p
      BY <1>1, <2>1, <3>2, AloneAfter DEF Running, Missing, Over
    <3> QED BY <3>1, <3>2
  <2> QED BY <2>1 DEF AloneInv, Missing
<1>2. CASE VisitorStep
  BY <1>2, VisitorKeeps DEF AloneInv, Running, NameTaken, EmailTaken, NewLink
<1>3. CASE EditStep
  BY <1>3, EditIsEdit DEF Edit, AloneInv
<1>4. CASE UNCHANGED vars
  BY <1>4 DEF vars, tables, AloneInv, Running, NameTaken, EmailTaken, NewLink
<1> QED BY <1>1, <1>2, <1>3, <1>4 DEF Next, VisitorStep

LEMMA FailsStep ==
  TypeOK /\ RowsInv /\ AloneInv /\ FailsOnCodeOnly /\ [Next]_vars => FailsOnCodeOnly'
<1> SUFFICES ASSUME TypeOK, RowsInv, AloneInv, FailsOnCodeOnly, [Next]_vars PROVE FailsOnCodeOnly'
  OBVIOUS
<1>1. ASSUME NEW p \in Seed, SeedStep(p) PROVE FailsOnCodeOnly'
  <2>1. CodeHeld => CodeHeld'
    <3>1. Grow
      BY <1>1, Growth
    <3> QED BY <3>1, SeederAssumption DEF Grow, CodeHeld, TypeOK
  <2>2. ASSUME NEW x \in alone', seed'[x].pc = "failed" PROVE CodeHeld'
    <3>1. CASE x # p
      <4>1. x \in alone /\ seed[x].pc = "failed"
        BY <1>1, <2>2, <3>1, AloneAfter
      <4> QED BY <2>1, <4>1 DEF FailsOnCodeOnly, CodeHeld
    <3>2. CASE x = p
      <4>1. Reject(p)
        BY <1>1, <2>2, <3>2, StepLeads DEF SeedStep, Moves
      <4>2. p \in alone
        BY <1>1, <2>2, <3>2, <4>1, AloneAfter DEF Boot, Reject, Running, Over
      <4>3. Missing(p)
        BY <4>2 DEF AloneInv, Missing
      <4>4. seed[p].pc = "insertUser" /\ ~EmailTaken(AdminEmail) /\ CodeTaken(AdminCode)
        BY <4>1, <4>3 DEF Reject, Missing
      <4>5. CodeHeld
        BY <4>4 DEF EmailTaken, CodeTaken, CodeHeld
      <4> QED BY <2>1, <4>5
    <3> QED BY <3>1, <3>2
  <2> QED BY <2>2 DEF FailsOnCodeOnly, CodeHeld
<1>2. CASE VisitorStep
  BY <1>2, VisitorKeeps DEF FailsOnCodeOnly
<1>3. CASE EditStep
  BY <1>3, EditIsEdit DEF Edit, FailsOnCodeOnly
<1>4. CASE UNCHANGED vars
  BY <1>4 DEF vars, tables, FailsOnCodeOnly
<1> QED BY <1>1, <1>2, <1>3, <1>4 DEF Next, VisitorStep

-----------------------------------------------------------------------------
(***************************************************************************)
(* Seeds that begin with everything there.                                 *)
(***************************************************************************)
LEMMA AgainStep == TypeOK /\ RowsInv /\ AgainInv /\ [Next]_vars => AgainInv'
<1> SUFFICES ASSUME TypeOK, RowsInv, AgainInv, [Next]_vars PROVE AgainInv'
  OBVIOUS
<1>1. CASE (\E p \in Seed : SeedStep(p)) \/ VisitorStep
  <2>1. Grow
    BY <1>1, Growth DEF VisitorStep
  <2>2. settings # {} => settings' # {}
    <3>1. settings \subseteq settings'
      BY <2>1 DEF Grow
    <3> QED BY <3>1
  <2>3. AdminThere => AdminThere'
    BY <2>1, AdminKept
  <2>4. \A x \in again' : x \in again \/ (settings # {} /\ AdminThere)
    <3>1. ASSUME NEW p \in Seed, SeedStep(p)
          PROVE  \A x \in again' : x \in again \/ (settings # {} /\ AdminThere)
      <4>1. CASE Boot(p)
        BY <4>1 DEF Boot
      <4>2. CASE ~Boot(p)
        BY <3>1, <4>2, Later
      <4> QED BY <4>1, <4>2
    <3> QED BY <1>1, <3>1, VisitorKeeps
  <2> QED BY <2>2, <2>3, <2>4 DEF AgainInv
<1>2. CASE EditStep
  BY <1>2, EditIsEdit DEF Edit, AgainInv
<1>3. CASE UNCHANGED vars
  BY <1>3 DEF vars, tables, AgainInv, AdminThere
<1> QED BY <1>1, <1>2, <1>3 DEF Next, VisitorStep

\* The link is found, as rows are unique in the columns the seed looks at.
LEMMA LinkIsThere ==
  ASSUME TypeOK, RowsInv, AdminThere, NEW u, NEW r, IsAdmin(u), IsAdministrator(r)
  PROVE  <<u, r>> \in links
<1>1. PICK y \in User, x \in Role : /\ users[y] # None /\ users[y].email = AdminEmail
                                    /\ roles[x] = Administrator
                                    /\ <<y, x>> \in links
  BY DEF AdminThere
<1>2. y = u
  BY <1>1 DEF IsAdmin, RowsInv
<1>3. x = r
  BY <1>1, SeederAssumption DEF IsAdministrator, RowsInv
<1> QED BY <1>1, <1>2, <1>3

LEMMA InsertsNothingStep ==
  TypeOK /\ RowsInv /\ CalmInv /\ AgainInv /\ AgainInsertsNothing /\ [Next]_vars
    => AgainInsertsNothing'
<1> SUFFICES ASSUME TypeOK, RowsInv, CalmInv, AgainInv, AgainInsertsNothing, [Next]_vars
             PROVE  AgainInsertsNothing'
  OBVIOUS
<1>1. ASSUME NEW p \in Seed, SeedStep(p) PROVE AgainInsertsNothing'
  <2>1. again' \subseteq again \cup {p}
    BY <1>1, Later DEF Boot
  <2>2. ASSUME NEW x \in again', x # p PROVE seed'[x].pc \notin Inserting
    BY <1>1, <2>1, <2>2, StepMoves DEF AgainInsertsNothing, TypeOK
  <2>3. ASSUME p \in again' PROVE seed'[p].pc \notin Inserting
    <3>1. CASE Boot(p)
      BY <3>1, StepLeads DEF Moves, Inserting
    <3>2. CASE ~Boot(p)
      <4>1. p \in again /\ p \in calm
        BY <1>1, <2>3, <3>2, Later DEF TypeOK
      <4>2. settings # {} /\ AdminThere
        BY <4>1 DEF AgainInv
      <4>3. NameTaken(Administrator) /\ EmailTaken(AdminEmail)
        BY <4>2 DEF AdminThere, NameTaken, EmailTaken
      <4>4. FindLink(p) => LinkFound(seed[p].user, seed[p].role)
        BY <4>1, <4>2, LinkIsThere DEF FindLink, CalmInv, LinkFound
      <4>5. CASE FindSetting(p)
        BY <4>2, <4>5, StepLeads DEF Moves, Inserting, SettingMissing
      <4>6. CASE FindRole(p)
        BY <4>3, <4>6, StepLeads DEF Moves, Inserting
      <4>7. CASE FindUser(p)
        BY <4>3, <4>7, StepLeads DEF Moves, Inserting
      <4>8. CASE FindLink(p)
        BY <4>4, <4>8, StepLeads DEF Moves, Inserting
      <4>9. CASE Reject(p) \/ Stop(p) \/ InsertSetting(p) \/ InsertRole(p) \/ InsertUser(p) \/ InsertLink(p)
        BY <4>9, StepLeads DEF Moves, Inserting
      <4> QED BY <1>1, <3>2, <4>5, <4>6, <4>7, <4>8, <4>9 DEF SeedStep
    <3> QED BY <3>1, <3>2
  <2> QED BY <2>2, <2>3 DEF AgainInsertsNothing
<1>2. CASE VisitorStep
  BY <1>2, VisitorKeeps DEF AgainInsertsNothing
<1>3. CASE EditStep
  BY <1>3, EditIsEdit DEF Edit, AgainInsertsNothing
<1>4. CASE UNCHANGED vars
  BY <1>4 DEF vars, tables, AgainInsertsNothing
<1> QED BY <1>1, <1>2, <1>3, <1>4 DEF Next, VisitorStep

-----------------------------------------------------------------------------
(***************************************************************************)
(* The row of settings.                                                    *)
(***************************************************************************)

\* A step that makes nobody insert and leaves the rows alone.
LEMMA SettingKept ==
  ASSUME SettingInv, OneSetting, quiet' = quiet, index' = index, settings' = settings,
         \A x \in Seed : seed'[x].pc = "insertSetting" => seed[x].pc = "insertSetting"
  PROVE  SettingInv' /\ OneSetting'
<1>1. PendingSetting' => PendingSetting
  BY DEF PendingSetting
<1> QED BY <1>1 DEF SettingInv, OneSetting

\* A step after which nobody is about to insert, with one row at most.
LEMMA SettingSettled ==
  ASSUME quiet' => /\ index' = {}
                   /\ \A x \in Seed : seed'[x].pc # "insertSetting"
                   /\ \A s, t \in settings' : s = t
  PROVE  SettingInv' /\ OneSetting'
  BY DEF SettingInv, OneSetting, PendingSetting

LEMMA SettingStep ==
  TypeOK /\ SettingInv /\ OneSetting /\ [Next]_vars => SettingInv' /\ OneSetting'
<1> SUFFICES ASSUME TypeOK, SettingInv, OneSetting, [Next]_vars PROVE SettingInv' /\ OneSetting'
  OBVIOUS
<1>1. ASSUME NEW p \in Seed, SeedStep(p) PROVE SettingInv' /\ OneSetting'
  <2>0. \A x \in Seed : x # p => seed'[x] = seed[x]
    BY <1>1, StepMoves
  <2>1. CASE FindSetting(p)
    <3>1. CASE SettingMissing
      <4>1. seed'[p].pc = "insertSetting"
        BY <2>1, <3>1, StepLeads DEF Moves
      <4>2. quiet' => /\ index' = {} /\ settings' = {}
                      /\ \A x \in Seed : x # p => seed'[x].pc # "insertSetting"
        BY <2>0, <2>1, <3>1 DEF FindSetting, PendingSetting, SettingMissing, tables
      <4> QED BY <4>1, <4>2 DEF SettingInv, OneSetting
    <3>2. CASE ~SettingMissing
      <4>1. seed'[p].pc = "role"
        BY <2>1, <3>2, StepLeads DEF Moves
      <4>2. quiet' = quiet /\ index' = index /\ settings' = settings
        BY <2>1, <3>2 DEF FindSetting, TypeOK, tables
      <4> QED BY <2>0, <4>1, <4>2, SettingKept
    <3> QED BY <3>1, <3>2
  <2>2. CASE InsertSetting(p)
    <3>1. seed'[p].pc = "role"
      BY <2>2, StepLeads DEF Moves
    <3>2. PICK s : settings' = settings \cup {s}
      BY <2>2 DEF InsertSetting
    <3>3. quiet' = quiet /\ index' = index
      BY <2>2 DEF InsertSetting
    <3>4. quiet => settings = {} /\ index = {} /\ \A x \in Seed : seed[x].pc = "insertSetting" => x = p
      BY <2>2 DEF InsertSetting, SettingInv, PendingSetting
    <3> QED BY <2>0, <3>1, <3>2, <3>3, <3>4, SettingSettled
  <2>3. CASE ~FindSetting(p) /\ ~InsertSetting(p)
    <3>1. seed'[p].pc # "insertSetting"
      BY <1>1, <2>3, StepLeads DEF SeedStep, Moves
    <3>2. quiet' = quiet /\ index' = index /\ settings' = settings
      BY <1>1, <2>3 DEF SeedStep, Boot, Reject, Stop, FindRole, InsertRole, FindUser, InsertUser,
                        FindLink, InsertLink, tables
    <3> QED BY <2>0, <3>1, <3>2, SettingKept
  <2> QED BY <2>1, <2>2, <2>3
<1>2. ASSUME NEW v \in Visitor, IndexFind(v) PROVE SettingInv' /\ OneSetting'
  <2>1. quiet' => index' = {v} /\ settings' = {} /\ \A x \in Seed : seed'[x].pc # "insertSetting"
    BY <1>2 DEF IndexFind, PendingSetting, tables
  <2> QED BY <2>1 DEF SettingInv, OneSetting
<1>3. ASSUME NEW v \in Visitor, IndexSave(v) PROVE SettingInv' /\ OneSetting'
  <2>1. PICK s : settings' = settings \cup {s}
    BY <1>3 DEF IndexSave
  <2>2. quiet' = quiet /\ seed' = seed /\ index' = index \ {v}
    BY <1>3 DEF IndexSave
  <2>3. quiet => /\ settings = {} /\ index = {v}
                 /\ \A x \in Seed : seed[x].pc # "insertSetting"
    BY <1>3 DEF IndexSave, SettingInv, PendingSetting
  <2> QED BY <2>1, <2>2, <2>3, SettingSettled
<1>4. CASE EditStep
  BY <1>4, EditIsEdit, SettingKept DEF Edit
<1>5. CASE UNCHANGED vars
  BY <1>5, SettingKept DEF vars, tables
<1> QED BY <1>1, <1>2, <1>3, <1>4, <1>5 DEF Next

-----------------------------------------------------------------------------
(***************************************************************************)
(* The theorems.                                                           *)
(***************************************************************************)
LEMMA InductiveStep == IndInv /\ [Next]_vars => IndInv'
<1> SUFFICES ASSUME IndInv, [Next]_vars PROVE IndInv'
  OBVIOUS
<1>0. /\ TypeOK /\ RowsInv /\ HeldInv /\ CalmInv /\ AloneInv /\ AgainInv /\ SettingInv
      /\ FailsOnCodeOnly /\ AgainInsertsNothing /\ OneSetting
  BY DEF IndInv
<1>1. TypeOK' /\ RowsInv' /\ HeldInv'
  BY <1>0, TypeStep, RowsStep, HeldStep
<1>2. CalmInv' /\ AloneInv' /\ AgainInv'
  BY <1>0, CalmStep, AloneStep, AgainStep
<1>3. FailsOnCodeOnly' /\ AgainInsertsNothing'
  BY <1>0, FailsStep, InsertsNothingStep
<1>4. SettingInv' /\ OneSetting'
  BY <1>0, SettingStep
<1> QED BY <1>1, <1>2, <1>3, <1>4 DEF IndInv

\* Type correctness, with everything the seed relies on: unique columns, rows
\* found that stay, rows missing that stay missing while nobody interferes.
THEOREM Inductive == Spec => []IndInv
<1>1. Init => IndInv
  BY InitialState
<1>2. IndInv /\ [Next]_vars => IndInv'
  BY InductiveStep
<1> QED BY <1>1, <1>2, PTL DEF Spec

\* A seed that ended and met no edit leaves the default administrator with the
\* role, however many seeds boot at once and wherever others stopped.
THEOREM AdminReadyAlways == Spec => []AdminReady
<1>1. IndInv => AdminReady
  BY DEF IndInv, CalmInv, AdminReady
<1> QED BY <1>1, Inductive, PTL

\* Rows, links, seeds and requests in flight keep their types.
THEOREM TypeCorrect == Spec => []TypeOK
<1>1. IndInv => TypeOK
  BY DEF IndInv
<1> QED BY <1>1, Inductive, PTL

\* A seed on its own fails on the code of the default administrator only.
THEOREM FailsOnCodeOnlyAlways == Spec => []FailsOnCodeOnly
<1>1. IndInv => FailsOnCodeOnly
  BY DEF IndInv
<1> QED BY <1>1, Inductive, PTL

\* A seed that begins with everything there inserts nothing.
THEOREM AgainInsertsNothingAlways == Spec => []AgainInsertsNothing
<1>1. IndInv => AgainInsertsNothing
  BY DEF IndInv
<1> QED BY <1>1, Inductive, PTL

\* There is one row of settings unless two insertions overlap.
THEOREM OneSettingAlways == Spec => []OneSetting
<1>1. IndInv => OneSetting
  BY DEF IndInv
<1> QED BY <1>1, Inductive, PTL

-----------------------------------------------------------------------------
(***************************************************************************)
(* The entrypoint and the migrations (Boot).                               *)
(*                                                                         *)
(* A run is a list of statements that is worked off from the front.  What  *)
(* the proof needs of the list (BootInv: Forward for a container, Backward *)
(* for the operator) is proved of each script, of the scripts one after    *)
(* the other as migration:run loads them, and of the tail of a list; then  *)
(* of each action, which leaves a tail, or a new list, or none.            *)
(***************************************************************************)

\* Concatenation.
LEMMA Concat ==
  ASSUME NEW S, NEW s \in Seq(S), NEW t \in Seq(S)
  PROVE  /\ s \o t \in Seq(S)
         /\ DOMAIN (s \o t) = 1..(Len(s) + Len(t))
         /\ Len(s) \in Nat /\ Len(t) \in Nat /\ DOMAIN s = 1..Len(s) /\ DOMAIN t = 1..Len(t)
         /\ \A i \in DOMAIN s : (s \o t)[i] = s[i]
         /\ \A i \in DOMAIN t : (s \o t)[Len(s) + i] = t[i]
         /\ ToSet(s \o t) = ToSet(s) \cup ToSet(t)
<1> DEFINE c == s \o t
<1>1. /\ c \in Seq(S) /\ DOMAIN c = 1..(Len(s) + Len(t))
      /\ Len(s) \in Nat /\ Len(t) \in Nat /\ DOMAIN s = 1..Len(s) /\ DOMAIN t = 1..Len(t)
  OBVIOUS
<1>2. /\ \A i \in DOMAIN s : c[i] = s[i]
      /\ \A i \in DOMAIN t : c[Len(s) + i] = t[i]
  OBVIOUS
<1> HIDE DEF c
<1>3. \A i \in DOMAIN c : (\E j \in DOMAIN s : c[i] = s[j]) \/ \E j \in DOMAIN t : c[i] = t[j]
  <2> TAKE i \in DOMAIN c
  <2>1. CASE i \in DOMAIN s
    BY <1>2, <2>1
  <2>2. CASE i \notin DOMAIN s
    <3>1. i - Len(s) \in DOMAIN t /\ Len(s) + (i - Len(s)) = i
      BY <1>1, <2>2
    <3> QED BY <1>2, <3>1
  <2> QED BY <2>1, <2>2
<1>4. \A i \in DOMAIN t : Len(s) + i \in DOMAIN c
  BY <1>1
<1>5. \A i \in DOMAIN s : i \in DOMAIN c
  BY <1>1
<1>6. ToSet(c) = ToSet(s) \cup ToSet(t)
  BY <1>2, <1>3, <1>4, <1>5 DEF ToSet
<1> QED BY <1>1, <1>2, <1>6 DEF c

\* The same, for what lists of statements hold.
LEMMA ConcatSet ==
  \A s, t \in Seq(Statements) :
      s \o t \in Seq(Statements) /\ ToSet(s \o t) = ToSet(s) \cup ToSet(t)
  BY Concat

\* Lists written out.
LEMMA Short ==
  /\ \A a : ToSet(<<a>>) = {a} /\ DOMAIN <<a>> = {1}
  /\ \A a, b : ToSet(<<a, b>>) = {a, b} /\ DOMAIN <<a, b>> = {1, 2}
  /\ ToSet(<< >>) = {} /\ DOMAIN << >> = {}
  BY DEF ToSet

\* The four migrations and what each is there for.
LEMMA KnownIs ==
  Known = {"InitialSchema", "AddGuardNameFavicon", "CreateSessionTable", "AddAdminUser"}
  BY DEF Known, Migrations, ToSet

\* What each migration runs.
LEMMA UpIs ==
  /\ Up["InitialSchema"] = InitialSchemaUp
  /\ Up["AddGuardNameFavicon"] = AddGuardNameFaviconUp
  /\ Up["CreateSessionTable"] = CreateSessionTable
  /\ Up["AddAdminUser"] = AddAdminUser
  BY DEF Up

\* The rows of the seed, in their order.
LEMMA RowsAre ==
  /\ \A r \in AdminRows : InsertRow(r) \in Statements
  /\ AddAdminUser \in Seq(Statements) /\ DOMAIN AddAdminUser = 1..4
  /\ ToSet(AddAdminUser) = {InsertRow(r) : r \in AdminRows}
  /\ \A i \in 1..4 : \E r \in AdminRows : AddAdminUser[i] = InsertRow(r)
<1>1. \A r \in AdminRows : InsertRow(r) \in Statements
  BY DEF Statements
<1>2. AddAdminUser \in Seq(Statements) /\ DOMAIN AddAdminUser = 1..4
  BY <1>1 DEF AddAdminUser, SeedInitialData, AdminRows
<1>3. DOMAIN AddAdminUser = {1, 2, 3, 4}
  BY <1>2
<1>4. ToSet(AddAdminUser)
        = {InsertRow("setting"), InsertRow("role"), InsertRow("user"), InsertRow("link")}
  BY <1>3 DEF AddAdminUser, SeedInitialData, ToSet
<1>5. {InsertRow(r) : r \in AdminRows}
        = {InsertRow("setting"), InsertRow("role"), InsertRow("user"), InsertRow("link")}
  BY DEF AdminRows
<1>6. \A i \in DOMAIN AddAdminUser : AddAdminUser[i] \in ToSet(AddAdminUser)
  BY DEF ToSet
<1> QED BY <1>1, <1>2, <1>4, <1>5, <1>6

Tables1 == {"users", "roles", "permissions", "settings", "users_roles", "roles_permissions"}
Indexes1 == {"users__", "roles__", "permissions__"}

\* The statements of each, as a set.
LEMMA UpLists ==
  /\ \A m \in Known : Up[m] \in Seq(Statements)
  /\ ToSet(Up["InitialSchema"]) = {Table(t) : t \in Tables1} \cup {Index(i) : i \in Indexes1}
  /\ ToSet(Up["AddGuardNameFavicon"]) = {Column("guard_name"), Column("favicon")}
  /\ ToSet(Up["CreateSessionTable"]) = {Table("sessions")}
  /\ ToSet(Up["AddAdminUser"]) = {InsertRow(r) : r \in AdminRows}
<1>1. /\ \A t \in Tables1 \cup {"sessions"} : Table(t) \in Statements
      /\ \A i \in Indexes1 : Index(i) \in Statements
      /\ \A c \in {"guard_name", "favicon"} : Column(c) \in Statements
  BY DEF Statements, Tables1, Indexes1
<1>2. /\ Users \in Seq(Statements) /\ ToSet(Users) = {Table("users"), Index("users__")}
      /\ Roles \in Seq(Statements) /\ ToSet(Roles) = {Table("roles"), Index("roles__")}
      /\ Permissions \in Seq(Statements)
      /\ ToSet(Permissions) = {Table("permissions"), Index("permissions__")}
      /\ Settings \in Seq(Statements) /\ ToSet(Settings) = {Table("settings")}
      /\ JoinTables \in Seq(Statements)
      /\ ToSet(JoinTables) = {Table("users_roles"), Table("roles_permissions")}
  BY <1>1, Short DEF Users, Roles, Permissions, Settings, JoinTables, Tables1, Indexes1
<1>3. /\ AddGuardNameFaviconUp \in Seq(Statements) /\ CreateSessionTable \in Seq(Statements)
  BY <1>1 DEF AddGuardNameFaviconUp, CreateSessionTable
<1>4. /\ InitialSchemaUp \in Seq(Statements)
      /\ ToSet(InitialSchemaUp) = ToSet(Users) \cup ToSet(Roles) \cup ToSet(Permissions)
                                    \cup ToSet(Settings) \cup ToSet(JoinTables)
  <2>1. /\ Users \o Roles \in Seq(Statements)
        /\ ToSet(Users \o Roles) = ToSet(Users) \cup ToSet(Roles)
    BY <1>2, ConcatSet
  <2>2. /\ Users \o Roles \o Permissions \in Seq(Statements)
        /\ ToSet(Users \o Roles \o Permissions) = ToSet(Users \o Roles) \cup ToSet(Permissions)
    BY <1>2, <2>1, ConcatSet
  <2>3. /\ Users \o Roles \o Permissions \o Settings \in Seq(Statements)
        /\ ToSet(Users \o Roles \o Permissions \o Settings)
             = ToSet(Users \o Roles \o Permissions) \cup ToSet(Settings)
    BY <1>2, <2>2, ConcatSet
  <2>4. /\ InitialSchemaUp \in Seq(Statements)
        /\ ToSet(InitialSchemaUp)
             = ToSet(Users \o Roles \o Permissions \o Settings) \cup ToSet(JoinTables)
    BY <1>2, <2>3, ConcatSet DEF InitialSchemaUp
  <2> QED BY <2>1, <2>2, <2>3, <2>4
<1>5. ToSet(Up["InitialSchema"]) = {Table(t) : t \in Tables1} \cup {Index(i) : i \in Indexes1}
  <2>1. {Table(t) : t \in Tables1} = {Table("users"), Table("roles"), Table("permissions"),
            Table("settings"), Table("users_roles"), Table("roles_permissions")}
    BY DEF Tables1
  <2>2. {Index(i) : i \in Indexes1} = {Index("users__"), Index("roles__"), Index("permissions__")}
    BY DEF Indexes1
  <2> QED BY <1>2, <1>4, <2>1, <2>2, UpIs
<1>6. \A m \in Known : Up[m] \in Seq(Statements)
  BY <1>3, <1>4, KnownIs, UpIs, RowsAre
<1> QED BY <1>5, <1>6, UpIs, RowsAre, Short DEF AddGuardNameFaviconUp, CreateSessionTable

\* What each migration is there for.
LEMMA ObjectsAre ==
  /\ Objects("InitialSchema") = Tables1 \cup Indexes1
  /\ Objects("AddGuardNameFavicon") = {"guard_name", "favicon"}
  /\ Objects("CreateSessionTable") = {"sessions"}
  /\ Objects("AddAdminUser") = AdminRows
<1>1. \A m, x : x \in Objects(m) <=> \E s \in ToSet(Up[m]) : s.what = x
  BY DEF Objects, ToSet
<1>2. \A t : Table(t).what = t /\ Index(t).what = t /\ Column(t).what = t /\ InsertRow(t).what = t
  BY DEF Table, Index, Column, InsertRow
<1>3. Objects("InitialSchema") = Tables1 \cup Indexes1
  BY <1>1, <1>2, UpLists
<1>4. Objects("AddGuardNameFavicon") = {"guard_name", "favicon"}
  BY <1>1, <1>2, UpLists
<1>5. Objects("CreateSessionTable") = {"sessions"}
  BY <1>1, <1>2, UpLists
<1>6. Objects("AddAdminUser") = AdminRows
  BY <1>1, <1>2, UpLists
<1> QED BY <1>3, <1>4, <1>5, <1>6

\* Statements, by kind.
LEMMA StatementsAre ==
  /\ \A t : /\ Table(t).do = "table" /\ Table(t).what = t /\ Makes(Table(t))
            /\ Requires(Table(t)) = Earlier(t) /\ Adds(Table(t)) = {t} \cup Columns(t)
            /\ Removes(Table(t)) = {} /\ Ddl(Table(t))
  /\ \A i : /\ Index(i).do = "index" /\ Index(i).what = i /\ Makes(Index(i))
            /\ Requires(Index(i)) = Earlier(i) /\ Adds(Index(i)) = {i}
            /\ Removes(Index(i)) = {} /\ Ddl(Index(i))
  /\ \A c : /\ Column(c).do = "column" /\ Column(c).what = c /\ Makes(Column(c))
            /\ Requires(Column(c)) = Earlier(c) /\ Adds(Column(c)) = {c}
            /\ Removes(Column(c)) = {} /\ Ddl(Column(c))
  /\ \A r : /\ InsertRow(r).do = "row" /\ InsertRow(r).what = r /\ Makes(InsertRow(r))
            /\ Requires(InsertRow(r)) = Needs(r) /\ Adds(InsertRow(r)) = {r}
            /\ Removes(InsertRow(r)) = {} /\ ~Ddl(InsertRow(r))
  /\ \A m : /\ Record(m).do = "record" /\ Record(m).what = m /\ ~Makes(Record(m))
            /\ Requires(Record(m)) = Recorded(m) /\ Adds(Record(m)) = {m}
            /\ Removes(Record(m)) = {} /\ ~Ddl(Record(m))
  /\ \A x : /\ Drop(x).do = "drop" /\ Drop(x).what = x /\ ~Makes(Drop(x))
            /\ Adds(Drop(x)) = {} /\ Removes(Drop(x)) = Gone(x) /\ Ddl(Drop(x))
  /\ \A m : /\ Unrecord(m).do = "unrecord" /\ Unrecord(m).what = m /\ ~Makes(Unrecord(m))
            /\ Adds(Unrecord(m)) = {} /\ Removes(Unrecord(m)) = {m} /\ ~Ddl(Unrecord(m))
<1>1. \A t : /\ Table(t).do = "table" /\ Table(t).what = t /\ Makes(Table(t))
            /\ Requires(Table(t)) = Earlier(t) /\ Adds(Table(t)) = {t} \cup Columns(t)
            /\ Removes(Table(t)) = {} /\ Ddl(Table(t))
  BY DEF Table, Makes, Requires, Adds, Removes, Ddl
<1>2. \A i : /\ Index(i).do = "index" /\ Index(i).what = i /\ Makes(Index(i))
            /\ Requires(Index(i)) = Earlier(i) /\ Adds(Index(i)) = {i}
            /\ Removes(Index(i)) = {} /\ Ddl(Index(i))
  BY DEF Index, Makes, Requires, Adds, Removes, Ddl
<1>3. \A c : /\ Column(c).do = "column" /\ Column(c).what = c /\ Makes(Column(c))
            /\ Requires(Column(c)) = Earlier(c) /\ Adds(Column(c)) = {c}
            /\ Removes(Column(c)) = {} /\ Ddl(Column(c))
  BY DEF Column, Makes, Requires, Adds, Removes, Ddl
<1>4. \A r : /\ InsertRow(r).do = "row" /\ InsertRow(r).what = r /\ Makes(InsertRow(r))
            /\ Requires(InsertRow(r)) = Needs(r) /\ Adds(InsertRow(r)) = {r}
            /\ Removes(InsertRow(r)) = {} /\ ~Ddl(InsertRow(r))
  BY DEF InsertRow, Makes, Requires, Adds, Removes, Ddl
<1>5. \A m : /\ Record(m).do = "record" /\ Record(m).what = m /\ ~Makes(Record(m))
            /\ Requires(Record(m)) = Recorded(m) /\ Adds(Record(m)) = {m}
            /\ Removes(Record(m)) = {} /\ ~Ddl(Record(m))
  BY DEF Record, Makes, Requires, Adds, Removes, Ddl
<1>6. \A x : /\ Drop(x).do = "drop" /\ Drop(x).what = x /\ ~Makes(Drop(x))
            /\ Adds(Drop(x)) = {} /\ Removes(Drop(x)) = Gone(x) /\ Ddl(Drop(x))
  BY DEF Drop, Makes, Adds, Removes, Ddl
<1>7. \A m : /\ Unrecord(m).do = "unrecord" /\ Unrecord(m).what = m /\ ~Makes(Unrecord(m))
            /\ Adds(Unrecord(m)) = {} /\ Removes(Unrecord(m)) = {m} /\ ~Ddl(Unrecord(m))
  BY DEF Unrecord, Makes, Adds, Removes, Ddl
<1> QED BY <1>1, <1>2, <1>3, <1>4, <1>5, <1>6, <1>7

\* The same, for any statement.
LEMMA StatementKinds ==
  ASSUME NEW s \in Statements
  PROVE  /\ s.do = "table" => s = Table(s.what) /\ s.what \in Tables1 \cup {"sessions"}
         /\ s.do = "index" => s = Index(s.what) /\ s.what \in Indexes1
         /\ s.do = "column" => s = Column(s.what) /\ s.what \in {"guard_name", "favicon"}
         /\ s.do = "row" => s = InsertRow(s.what) /\ s.what \in AdminRows
         /\ s.do = "record" => s = Record(s.what) /\ s.what \in Known
         /\ s.do = "drop" => s = Drop(s.what) /\ s.what \in Facts
         /\ s.do = "unrecord" => s = Unrecord(s.what) /\ s.what \in Known
         /\ s.do \in {"table", "index", "column", "row", "record", "drop", "unrecord"}
<1>1. CASE s \in {Table(t) : t \in Tables1 \cup {"sessions"}}
  BY <1>1, StatementsAre
<1>2. CASE s \in {Index(i) : i \in Indexes1}
  BY <1>2, StatementsAre
<1>3. CASE s \in {Column(c) : c \in {"guard_name", "favicon"}} \cup {InsertRow(r) : r \in AdminRows}
  BY <1>3, StatementsAre
<1>4. CASE s \in {Drop(x) : x \in Facts}
  BY <1>4, StatementsAre
<1>5. CASE s \in {Record(m) : m \in Known} \cup {Unrecord(m) : m \in Known}
  BY <1>5, StatementsAre
<1>6. Tables1 \cup {"sessions"} = {"users", "roles", "permissions", "settings",
                                   "users_roles", "roles_permissions", "sessions"}
  BY DEF Tables1
<1> QED BY <1>1, <1>2, <1>3, <1>4, <1>5, <1>6 DEF Statements, Indexes1

\* What an up makes.
LEMMA UpMakes ==
  ASSUME NEW m \in Known, NEW s \in ToSet(Up[m])
  PROVE  /\ Makes(s) /\ s.do # "record" /\ s.what \in Objects(m)
         /\ s.do = "row" => m = "AddAdminUser"
         /\ Adds(s) \subseteq Objects(m)
                 \cup (IF m = "InitialSchema" THEN Objects("AddGuardNameFavicon") ELSE {})
<1>1. Columns("sessions") = {} /\ \A t : Columns(t) \subseteq {"guard_name", "favicon"}
  BY DEF Columns
<1>2. s.what \in Objects(m)
  BY DEF Objects, ToSet
<1>3. CASE m = "InitialSchema"
  <2>1. CASE s \in {Table(t) : t \in Tables1}
    <3>1. PICK t \in Tables1 : s = Table(t)
      BY <2>1
    <3>2. /\ Makes(s) /\ s.do = "table" /\ Adds(s) = {t} \cup Columns(t)
      BY <3>1, StatementsAre
    <3> QED BY <1>1, <1>2, <1>3, <3>2, ObjectsAre
  <2>2. CASE s \in {Index(i) : i \in Indexes1}
    <3>1. PICK i \in Indexes1 : s = Index(i)
      BY <2>2
    <3>2. /\ Makes(s) /\ s.do = "index" /\ Adds(s) = {i}
      BY <3>1, StatementsAre
    <3> QED BY <1>2, <1>3, <3>2, ObjectsAre
  <2> QED BY <1>3, <2>1, <2>2, UpLists
<1>4. CASE m = "AddGuardNameFavicon"
  <2>1. PICK c \in {"guard_name", "favicon"} : s = Column(c)
    BY <1>4, UpLists
  <2>2. /\ Makes(s) /\ s.do = "column" /\ Adds(s) = {c}
    BY <2>1, StatementsAre
  <2> QED BY <1>2, <1>4, <2>2, ObjectsAre
<1>5. CASE m = "CreateSessionTable"
  <2>1. s = Table("sessions")
    BY <1>5, UpLists
  <2>2. /\ Makes(s) /\ s.do = "table" /\ Adds(s) = {"sessions"}
    BY <1>1, <2>1, StatementsAre
  <2> QED BY <1>2, <1>5, <2>2, ObjectsAre
<1>6. CASE m = "AddAdminUser"
  <2>1. PICK r \in AdminRows : s = InsertRow(r)
    BY <1>6, UpLists
  <2>2. /\ Makes(s) /\ s.do = "row" /\ Adds(s) = {r}
    BY <2>1, StatementsAre
  <2> QED BY <1>2, <1>6, <2>1, <2>2, ObjectsAre
<1> QED BY <1>3, <1>4, <1>5, <1>6, KnownIs

\* What concatenation keeps.
Whats(s) == {a.what : a \in ToSet(s)}
Notes(s) == UNION {Objects(a.what) : a \in {b \in ToSet(s) : b.do = "record"}}
FollowedBy(s, F) ==
    \A i \in DOMAIN s : Makes(s[i]) =>
        \A o \in Adds(s[i]) \ F : \E j \in DOMAIN s :
            j > i /\ s[j].do = "record" /\ o \in Objects(s[j].what)

\* What the first list makes is there for the second.
LEMMA ConcatPrepared ==
  ASSUME NEW s \in Seq(Statements), NEW t \in Seq(Statements), NEW X,
         Prepared(s, X), Prepared(t, X \cup Whats(s))
  PROVE  Prepared(s \o t, X)
<1> DEFINE c == s \o t
<1>1. /\ DOMAIN c = 1..(Len(s) + Len(t)) /\ Len(s) \in Nat /\ Len(t) \in Nat
      /\ DOMAIN s = 1..Len(s) /\ DOMAIN t = 1..Len(t)
      /\ \A i \in DOMAIN s : c[i] = s[i]
      /\ \A i \in DOMAIN t : c[Len(s) + i] = t[i]
  BY Concat
<1> HIDE DEF c
<1> SUFFICES ASSUME NEW i \in DOMAIN c, NEW o \in Requires(c[i]) \ X
             PROVE  \E j \in 1..(i - 1) : c[j].what = o
  BY DEF Prepared, c
<1>2. CASE i \in DOMAIN s
  <2>1. PICK j \in 1..(i - 1) : s[j].what = o
    BY <1>1, <1>2 DEF Prepared
  <2>2. j \in DOMAIN s
    BY <1>1, <1>2
  <2> QED BY <1>1, <2>1, <2>2
<1>3. CASE i \notin DOMAIN s
  <2> DEFINE k == i - Len(s)
  <2>1. k \in DOMAIN t /\ k \in Nat /\ i = Len(s) + k
    BY <1>1, <1>3
  <2> HIDE DEF k
  <2>2. c[i] = t[k]
    BY <1>1, <2>1
  <2>3. CASE o \in Whats(s)
    <3>1. PICK j \in DOMAIN s : s[j].what = o
      BY <2>3 DEF Whats, ToSet
    <3>2. j \in 1..(i - 1)
      BY <1>1, <2>1, <3>1
    <3> QED BY <1>1, <3>1, <3>2
  <2>4. CASE o \notin Whats(s)
    <3>1. PICK j \in 1..(k - 1) : t[j].what = o
      BY <2>1, <2>2, <2>4 DEF Prepared
    <3>2. j \in DOMAIN t /\ Len(s) + j \in 1..(i - 1)
      BY <1>1, <2>1, <3>1
    <3> QED BY <1>1, <3>1, <3>2
  <2> QED BY <2>3, <2>4
<1> QED BY <1>2, <1>3

\* What the first list makes may be recorded in the second.
LEMMA ConcatFollowed ==
  ASSUME NEW s \in Seq(Statements), NEW t \in Seq(Statements), NEW F,
         FollowedBy(s, F \cup Notes(t)), FollowedBy(t, F)
  PROVE  FollowedBy(s \o t, F) /\ Notes(s \o t) = Notes(s) \cup Notes(t)
<1> DEFINE c == s \o t
<1>1. /\ DOMAIN c = 1..(Len(s) + Len(t)) /\ Len(s) \in Nat /\ Len(t) \in Nat
      /\ DOMAIN s = 1..Len(s) /\ DOMAIN t = 1..Len(t)
      /\ \A i \in DOMAIN s : c[i] = s[i]
      /\ \A i \in DOMAIN t : c[Len(s) + i] = t[i]
      /\ ToSet(c) = ToSet(s) \cup ToSet(t)
  BY Concat
<1> HIDE DEF c
<1>2. Notes(c) = Notes(s) \cup Notes(t)
  BY <1>1 DEF Notes
<1>3. ASSUME NEW i \in DOMAIN c, Makes(c[i]), NEW o \in Adds(c[i]) \ F
      PROVE  \E j \in DOMAIN c : j > i /\ c[j].do = "record" /\ o \in Objects(c[j].what)
  <2>1. ASSUME NEW k \in DOMAIN t, t[k].do = "record", o \in Objects(t[k].what), Len(s) + k > i
        PROVE  \E j \in DOMAIN c : j > i /\ c[j].do = "record" /\ o \in Objects(c[j].what)
    <3>1. Len(s) + k \in DOMAIN c /\ c[Len(s) + k] = t[k]
      BY <1>1
    <3> QED BY <2>1, <3>1
  <2>2. CASE i \in DOMAIN s /\ o \in Notes(t)
    <3>1. PICK k \in DOMAIN t : t[k].do = "record" /\ o \in Objects(t[k].what)
      BY <2>2 DEF Notes, ToSet
    <3>2. Len(s) + k > i
      BY <1>1, <2>2, <3>1
    <3> QED BY <2>1, <3>1, <3>2
  <2>3. CASE i \in DOMAIN s /\ o \notin Notes(t)
    <3>1. PICK j \in DOMAIN s : j > i /\ s[j].do = "record" /\ o \in Objects(s[j].what)
      BY <1>1, <1>3, <2>3 DEF FollowedBy
    <3>2. j \in DOMAIN c
      BY <1>1
    <3> QED BY <1>1, <3>1, <3>2
  <2>4. CASE i \notin DOMAIN s
    <3> DEFINE k == i - Len(s)
    <3>1. k \in DOMAIN t /\ k \in Nat /\ i = Len(s) + k
      BY <1>1, <2>4
    <3> HIDE DEF k
    <3>2. c[i] = t[k]
      BY <1>1, <3>1
    <3>3. PICK j \in DOMAIN t : j > k /\ t[j].do = "record" /\ o \in Objects(t[j].what)
      BY <1>3, <3>1, <3>2 DEF FollowedBy
    <3>4. Len(s) + j > i
      BY <1>1, <3>1, <3>3
    <3> QED BY <2>1, <3>3, <3>4
  <2> QED BY <2>2, <2>3, <2>4
<1> QED BY <1>2, <1>3 DEF FollowedBy, c

\* Two ordered lists, one after the other.
LEMMA ConcatOrdered ==
  ASSUME NEW s \in Seq(Statements), NEW t \in Seq(Statements), Ordered(s), Ordered(t),
         \A x \in ToSet(s), y \in ToSet(t) :
             /\ y.do = "index" => x.what \in Earlier(y.what)
             /\ x.do = "row" => y = Record("AddAdminUser")
  PROVE  Ordered(s \o t)
<1> DEFINE c == s \o t
<1>1. /\ DOMAIN c = 1..(Len(s) + Len(t)) /\ Len(s) \in Nat /\ Len(t) \in Nat
      /\ DOMAIN s = 1..Len(s) /\ DOMAIN t = 1..Len(t)
      /\ \A i \in DOMAIN s : c[i] = s[i]
      /\ \A i \in DOMAIN t : c[Len(s) + i] = t[i]
  BY Concat
<1> HIDE DEF c
<1> SUFFICES ASSUME NEW i \in DOMAIN c, NEW j \in 1..(i - 1)
             PROVE  /\ c[i].do = "index" => c[j].what \in Earlier(c[i].what)
                    /\ c[j].do = "row" => c[i].do = "row" \/ c[i] = Record("AddAdminUser")
  BY DEF Ordered, c
<1>2. CASE i \in DOMAIN s
  <2>1. j \in DOMAIN s
    BY <1>1, <1>2
  <2> QED BY <1>1, <1>2, <2>1 DEF Ordered
<1>3. CASE i \notin DOMAIN s /\ j \in DOMAIN s
  <2>1. i - Len(s) \in DOMAIN t /\ Len(s) + (i - Len(s)) = i
    BY <1>1, <1>3
  <2>2. c[i] = t[i - Len(s)] /\ c[j] = s[j]
    BY <1>1, <1>3, <2>1
  <2>3. c[i] \in ToSet(t) /\ c[j] \in ToSet(s)
    BY <1>3, <2>1, <2>2 DEF ToSet
  <2> QED BY <2>3
<1>4. CASE i \notin DOMAIN s /\ j \notin DOMAIN s
  <2> DEFINE k == i - Len(s)
             l == j - Len(s)
  <2>1. k \in DOMAIN t /\ l \in 1..(k - 1) /\ Len(s) + k = i /\ Len(s) + l = j /\ l \in DOMAIN t
    BY <1>1, <1>4
  <2> HIDE DEF k, l
  <2>2. c[i] = t[k] /\ c[j] = t[l]
    BY <1>1, <2>1
  <2> QED BY <2>1, <2>2 DEF Ordered
<1> QED BY <1>2, <1>3, <1>4

\* The script of each migration, on its own.
LEMMA PreparedMore ==
  ASSUME NEW s, NEW X, NEW Y, X \subseteq Y, Prepared(s, X)
  PROVE  Prepared(s, Y)
  BY DEF Prepared

\* What is made before what, written out.
LEMMA EarlierAre ==
  /\ Earlier("users") = {} /\ Earlier("users__") = {"users"}
  /\ Earlier("roles") = {"users", "users__"} /\ Earlier("roles__") = {"users", "users__", "roles"}
  /\ Earlier("permissions") = {"users", "users__", "roles", "roles__"}
  /\ Earlier("permissions__") = {"users", "users__", "roles", "roles__", "permissions"}
  /\ Earlier("guard_name") = {"roles"} /\ Earlier("favicon") = {"settings"}
  /\ \A x : x \notin {"users__", "roles", "roles__", "permissions", "permissions__",
                      "guard_name", "favicon"} => Earlier(x) = {}
  /\ \A x : Earlier(x) \subseteq {"users", "users__", "roles", "roles__", "permissions", "settings"}
  BY DEF Earlier

\* What the insertion of each row needs.
LEMMA NeedsAre ==
  /\ Needs("setting") = {"settings"} /\ Needs("role") = {"roles", "guard_name"}
  /\ Needs("user") = {"users"} /\ Needs("link") = {"users_roles"}
  /\ TableOf["setting"] = "settings" /\ TableOf["role"] = "roles"
  /\ TableOf["user"] = "users" /\ TableOf["link"] = "users_roles"
  BY DEF Needs, TableOf

\* A script is its migration and the record of it.
LEMMA ScriptParts ==
  ASSUME NEW m \in Known
  PROVE  /\ Script(m) \in Seq(Statements) /\ Script(m) # << >>
         /\ ToSet(Script(m)) = ToSet(Up[m]) \cup {Record(m)}
         /\ Whats(Up[m]) = Objects(m)
         /\ Whats(Script(m)) = Objects(m) \cup {m}
         /\ Notes(Script(m)) = Objects(m)
         /\ <<Record(m)>> \in Seq(Statements) /\ Up[m] \in Seq(Statements)
         /\ \A s \in ToSet(Up[m]) : Makes(s) /\ s.do # "record"
<1>1. /\ <<Record(m)>> \in Seq(Statements) /\ ToSet(<<Record(m)>>) = {Record(m)}
      /\ Up[m] \in Seq(Statements)
  BY UpLists, Short DEF Statements
<1>2. /\ Script(m) \in Seq(Statements)
      /\ ToSet(Script(m)) = ToSet(Up[m]) \cup {Record(m)}
  BY <1>1, ConcatSet DEF Script
<1>3. Whats(Up[m]) = Objects(m)
  BY DEF Whats, Objects, ToSet
<1>4. Whats(Script(m)) = Objects(m) \cup {m}
  BY <1>2, <1>3, StatementsAre DEF Whats
<1>5. \A s \in ToSet(Up[m]) : Makes(s) /\ s.do # "record"
  BY UpMakes
<1>6. Notes(Script(m)) = Objects(m)
  BY <1>2, <1>5, StatementsAre DEF Notes
<1>7. Script(m) # << >>
  BY <1>2, Short
<1> QED BY <1>1, <1>2, <1>3, <1>4, <1>5, <1>6, <1>7

\* A migration may be recorded when all it is there for is made.
LEMMA PreparedScript ==
  ASSUME NEW m \in Known, NEW X, Prepared(Up[m], X), Recorded(m) \subseteq X \cup Objects(m)
  PROVE  Prepared(Script(m), X)
<1>1. Prepared(<<Record(m)>>, X \cup Whats(Up[m]))
  BY ScriptParts, Short, StatementsAre DEF Prepared
<1> QED BY <1>1, ScriptParts, ConcatPrepared DEF Script

\* InitialSchema needs nothing.
LEMMA PreparedInitial == Prepared(Script("InitialSchema"), {})
<1> DEFINE A == {"users", "users__"}
           B == A \cup {"roles", "roles__"}
           C == B \cup {"permissions", "permissions__"}
<1>1. /\ Users \in Seq(Statements) /\ Roles \in Seq(Statements) /\ Permissions \in Seq(Statements)
      /\ Settings \in Seq(Statements) /\ JoinTables \in Seq(Statements)
      /\ Whats(Users) = A /\ Whats(Roles) = {"roles", "roles__"}
      /\ Whats(Permissions) = {"permissions", "permissions__"}
  BY Short, StatementsAre
     DEF Users, Roles, Permissions, Settings, JoinTables, Whats, Statements
<1>2. Prepared(Users, {})
  BY Short, StatementsAre, EarlierAre DEF Prepared, Users
<1>3. Prepared(Roles, A)
  BY Short, StatementsAre, EarlierAre DEF Prepared, Roles
<1>4. Prepared(Permissions, B)
  BY Short, StatementsAre, EarlierAre DEF Prepared, Permissions
<1>5. \A X : Prepared(Settings, X) /\ Prepared(JoinTables, X)
  BY Short, StatementsAre, EarlierAre DEF Prepared, Settings, JoinTables
<1> HIDE DEF A, B, C
<1>6. Users \o Roles \in Seq(Statements) /\ Prepared(Users \o Roles, {})
  <2>1. Prepared(Roles, {} \cup Whats(Users))
    BY <1>1, <1>3
  <2> QED BY <1>1, <1>2, <2>1, ConcatPrepared, ConcatSet
<1>7. Users \o Roles \o Permissions \in Seq(Statements) /\ Prepared(Users \o Roles \o Permissions, {})
  <2>1. Whats(Users \o Roles) = B
    <3>1. ToSet(Users \o Roles) = ToSet(Users) \cup ToSet(Roles)
      BY <1>1, ConcatSet
    <3>2. Whats(Users \o Roles) = Whats(Users) \cup Whats(Roles)
      BY <3>1 DEF Whats
    <3> QED BY <1>1, <3>2 DEF B
  <2>2. Prepared(Permissions, {} \cup Whats(Users \o Roles))
    BY <1>4, <2>1
  <2> QED BY <1>1, <1>6, <2>2, ConcatPrepared, ConcatSet
<1>8. /\ Users \o Roles \o Permissions \o Settings \in Seq(Statements)
      /\ Prepared(Users \o Roles \o Permissions \o Settings, {})
  BY <1>1, <1>5, <1>7, ConcatPrepared, ConcatSet
<1>9. Prepared(InitialSchemaUp, {})
  <2> DEFINE L == Users \o Roles \o Permissions \o Settings
  <2>1. L \in Seq(Statements) /\ Prepared(L, {}) /\ Prepared(JoinTables, {} \cup Whats(L))
    BY <1>5, <1>8
  <2> HIDE DEF L
  <2>2. Prepared(L \o JoinTables, {})
    BY <1>1, <2>1, ConcatPrepared
  <2> QED BY <2>2 DEF InitialSchemaUp, L
<1> QED BY <1>9, PreparedScript, UpIs, KnownIs DEF Recorded

\* The columns need InitialSchema; the rows need its tables and the columns.
LEMMA PreparedOthers ==
  /\ Prepared(Script("AddGuardNameFavicon"), Objects("InitialSchema") \cup {"InitialSchema"})
  /\ Prepared(Script("CreateSessionTable"), {})
  /\ Prepared(Script("AddAdminUser"), Objects("InitialSchema") \cup Objects("AddGuardNameFavicon"))
<1>1. /\ Earlier("guard_name") \subseteq Objects("InitialSchema")
      /\ Earlier("favicon") \subseteq Objects("InitialSchema")
      /\ \A r \in AdminRows : Needs(r) \subseteq Objects("InitialSchema") \cup Objects("AddGuardNameFavicon")
  BY ObjectsAre, EarlierAre, NeedsAre DEF AdminRows, Tables1
<1>2. Prepared(Up["AddGuardNameFavicon"], Objects("InitialSchema") \cup {"InitialSchema"})
  BY <1>1, UpIs, Short, StatementsAre DEF Prepared, AddGuardNameFaviconUp
<1>3. Prepared(Up["CreateSessionTable"], {})
  BY UpIs, Short, StatementsAre, EarlierAre DEF Prepared, CreateSessionTable
<1>4. Prepared(Up["AddAdminUser"], Objects("InitialSchema") \cup Objects("AddGuardNameFavicon"))
  BY <1>1, UpIs, RowsAre, StatementsAre DEF Prepared
<1> QED BY <1>2, <1>3, <1>4, PreparedScript, KnownIs DEF Recorded

\* Each migration records what it makes; the tables of InitialSchema come with
\* columns that AddGuardNameFavicon records.
LEMMA FollowedScripts ==
  /\ FollowedBy(Script("InitialSchema"), Objects("AddGuardNameFavicon"))
  /\ \A m \in Known \ {"InitialSchema"} : FollowedBy(Script(m), {})
<1>1. ASSUME NEW m \in Known, NEW F, \A s \in ToSet(Up[m]) : Adds(s) \subseteq F \cup Objects(m)
      PROVE  FollowedBy(Script(m), F)
  <2>1. FollowedBy(Up[m], F \cup Notes(<<Record(m)>>))
    <3>1. Notes(<<Record(m)>>) = Objects(m)
      BY Short, StatementsAre DEF Notes
    <3> QED BY <1>1, <3>1 DEF FollowedBy, ToSet
  <2>2. FollowedBy(<<Record(m)>>, F)
    BY Short, StatementsAre DEF FollowedBy
  <2> QED BY <2>1, <2>2, ScriptParts, ConcatFollowed DEF Script
<1>2. \A s \in ToSet(Up["InitialSchema"]) :
         Adds(s) \subseteq Objects("AddGuardNameFavicon") \cup Objects("InitialSchema")
  BY UpMakes, KnownIs
<1>3. ASSUME NEW m \in Known \ {"InitialSchema"}
      PROVE  \A s \in ToSet(Up[m]) : Adds(s) \subseteq {} \cup Objects(m)
  BY UpMakes
<1> QED BY <1>1, <1>2, <1>3, KnownIs

\* The indexes of InitialSchema come after all that is made before them.
LEMMA OrderedInitial == Ordered(Up["InitialSchema"])
<1>1. /\ Users \in Seq(Statements) /\ Roles \in Seq(Statements) /\ Permissions \in Seq(Statements)
      /\ Settings \in Seq(Statements) /\ JoinTables \in Seq(Statements)
      /\ ToSet(Users) = {Table("users"), Index("users__")}
      /\ ToSet(Roles) = {Table("roles"), Index("roles__")}
      /\ ToSet(Permissions) = {Table("permissions"), Index("permissions__")}
      /\ ToSet(Settings) = {Table("settings")}
      /\ ToSet(JoinTables) = {Table("users_roles"), Table("roles_permissions")}
  BY Short DEF Users, Roles, Permissions, Settings, JoinTables, Statements
<1>2. Ordered(Users) /\ Ordered(Roles) /\ Ordered(Permissions) /\ Ordered(Settings) /\ Ordered(JoinTables)
  BY Short, StatementsAre, EarlierAre
     DEF Ordered, Users, Roles, Permissions, Settings, JoinTables
<1> DEFINE R == Users \o Roles
           P == R \o Permissions
           S == P \o Settings
<1>3. R \in Seq(Statements) /\ ToSet(R) = ToSet(Users) \cup ToSet(Roles) /\ Ordered(R)
  <2>1. \A x \in ToSet(Users), y \in ToSet(Roles) :
             /\ y.do = "index" => x.what \in Earlier(y.what)
             /\ x.do = "row" => y = Record("AddAdminUser")
    BY <1>1, StatementsAre, EarlierAre
  <2> QED BY <1>1, <1>2, <2>1, ConcatOrdered, ConcatSet
<1> HIDE DEF R
<1>4. P \in Seq(Statements) /\ ToSet(P) = ToSet(R) \cup ToSet(Permissions) /\ Ordered(P)
  <2>1. \A x \in ToSet(R), y \in ToSet(Permissions) :
             /\ y.do = "index" => x.what \in Earlier(y.what)
             /\ x.do = "row" => y = Record("AddAdminUser")
    BY <1>1, <1>3, StatementsAre, EarlierAre
  <2> QED BY <1>1, <1>2, <1>3, <2>1, ConcatOrdered, ConcatSet
<1> HIDE DEF P
<1>5. S \in Seq(Statements) /\ ToSet(S) = ToSet(P) \cup ToSet(Settings) /\ Ordered(S)
  <2>1. \A x \in ToSet(P), y \in ToSet(Settings) :
             /\ y.do = "index" => x.what \in Earlier(y.what)
             /\ x.do = "row" => y = Record("AddAdminUser")
    BY <1>1, <1>3, <1>4, StatementsAre
  <2> QED BY <1>1, <1>2, <1>4, <2>1, ConcatOrdered, ConcatSet
<1> HIDE DEF S
<1>6. Ordered(S \o JoinTables)
  <2>1. \A x \in ToSet(S), y \in ToSet(JoinTables) :
             /\ y.do = "index" => x.what \in Earlier(y.what)
             /\ x.do = "row" => y = Record("AddAdminUser")
    BY <1>1, <1>3, <1>4, <1>5, StatementsAre
  <2> QED BY <1>1, <1>2, <1>5, <2>1, ConcatOrdered
<1> QED BY <1>6, UpIs DEF InitialSchemaUp, S, P, R

\* So they do in each script.
LEMMA OrderedScripts == \A m \in Known : Ordered(Script(m))
<1>1. ASSUME NEW m \in Known, Ordered(Up[m])
      PROVE  Ordered(Script(m))
  <2>1. Ordered(<<Record(m)>>)
    BY Short, StatementsAre DEF Ordered
  <2>2. \A x \in ToSet(Up[m]), y \in ToSet(<<Record(m)>>) :
             /\ y.do = "index" => x.what \in Earlier(y.what)
             /\ x.do = "row" => y = Record("AddAdminUser")
    BY UpMakes, Short, StatementsAre
  <2> QED BY <1>1, <2>1, <2>2, ScriptParts, ConcatOrdered DEF Script
<1>2. /\ Ordered(Up["AddGuardNameFavicon"]) /\ Ordered(Up["CreateSessionTable"])
      /\ Ordered(Up["AddAdminUser"])
  <2>1. Ordered(Up["AddGuardNameFavicon"]) /\ Ordered(Up["CreateSessionTable"])
    BY UpIs, Short, StatementsAre DEF Ordered, AddGuardNameFaviconUp, CreateSessionTable
  <2>2. ASSUME NEW i \in DOMAIN AddAdminUser
        PROVE  AddAdminUser[i].do = "row"
    BY RowsAre, StatementsAre
  <2>3. \A i \in DOMAIN AddAdminUser : \A j \in 1..(i - 1) : j \in DOMAIN AddAdminUser
    BY RowsAre
  <2>4. Ordered(AddAdminUser)
    BY <2>2, <2>3 DEF Ordered
  <2> QED BY <2>1, <2>4, UpIs
<1> QED BY <1>1, <1>2, OrderedInitial, KnownIs

\* What migration:run loads.
LEMMA FollowedMore ==
  ASSUME NEW s, NEW F, NEW G, F \subseteq G, FollowedBy(s, F)
  PROVE  FollowedBy(s, G)
  BY DEF FollowedBy

\* The empty list.
LEMMA Nothing ==
  /\ \A X : Prepared(<< >>, X) /\ FollowedBy(<< >>, X)
  /\ Ordered(<< >>) /\ Whats(<< >>) = {} /\ Notes(<< >>) = {} /\ << >> \in Seq(Statements)
  BY Short DEF Prepared, FollowedBy, Ordered, Whats, Notes

\* A migration that is due, or is not.
LEMMA DueIs ==
  ASSUME NEW m \in Known, Whole(db)
  PROVE  /\ Due(m) \in Seq(Statements)
         /\ Objects(m) \cup {m} \subseteq db \cup Whats(Due(m))
         /\ ToSet(Due(m)) = IF m \in db THEN {} ELSE ToSet(Up[m]) \cup {Record(m)}
         /\ Ordered(Due(m))
         /\ Notes(Due(m)) = IF m \in db THEN {} ELSE Objects(m)
<1>1. CASE m \in db
  BY <1>1, Nothing, Short DEF Due, Whole, Recorded
<1>2. CASE m \notin db
  BY <1>2, ScriptParts, OrderedScripts DEF Due
<1> QED BY <1>1, <1>2

\* What is loaded has before each statement what it requires.
LEMMA PendingPrepared ==
  ASSUME Whole(db)
  PROVE  Pending \in Seq(Statements) /\ Prepared(Pending, db)
<1> DEFINE A == Due("InitialSchema")
           B == Due("AddGuardNameFavicon")
           C == Due("CreateSessionTable")
           D == Due("AddAdminUser")
<1>1. /\ A \in Seq(Statements) /\ B \in Seq(Statements) /\ C \in Seq(Statements) /\ D \in Seq(Statements)
      /\ Objects("InitialSchema") \cup {"InitialSchema"} \subseteq db \cup Whats(A)
      /\ Objects("AddGuardNameFavicon") \subseteq db \cup Whats(B)
  BY DueIs, KnownIs
<1>2. Prepared(A, db)
  BY PreparedInitial, PreparedMore, Nothing DEF Due
<1>3. Prepared(B, db \cup Whats(A))
  BY <1>1, PreparedOthers, PreparedMore, Nothing DEF Due
<1>4. \A X : Prepared(C, X)
  BY PreparedOthers, PreparedMore, Nothing DEF Due
<1>5. \A X : Objects("InitialSchema") \cup Objects("AddGuardNameFavicon") \subseteq X => Prepared(D, X)
  BY PreparedOthers, PreparedMore, Nothing DEF Due
<1> HIDE DEF A, B, C, D
<1>6. A \o B \in Seq(Statements) /\ Prepared(A \o B, db) /\ Whats(A \o B) = Whats(A) \cup Whats(B)
  <2>1. ToSet(A \o B) = ToSet(A) \cup ToSet(B) /\ A \o B \in Seq(Statements)
    BY <1>1, ConcatSet
  <2>2. Whats(A \o B) = Whats(A) \cup Whats(B)
    BY <2>1 DEF Whats
  <2> QED BY <1>1, <1>2, <1>3, <2>1, <2>2, ConcatPrepared
<1>7. /\ A \o B \o C \in Seq(Statements) /\ Prepared(A \o B \o C, db)
      /\ Whats(A \o B \o C) = Whats(A \o B) \cup Whats(C)
  <2>1. ToSet(A \o B \o C) = ToSet(A \o B) \cup ToSet(C) /\ A \o B \o C \in Seq(Statements)
    BY <1>1, <1>6, ConcatSet
  <2>2. Whats(A \o B \o C) = Whats(A \o B) \cup Whats(C)
    BY <2>1 DEF Whats
  <2>3. Prepared(C, db \cup Whats(A \o B))
    BY <1>4
  <2> QED BY <1>1, <1>6, <2>1, <2>2, <2>3, ConcatPrepared
<1>8. A \o B \o C \o D \in Seq(Statements) /\ Prepared(A \o B \o C \o D, db)
  <2>1. Prepared(D, db \cup Whats(A \o B \o C))
    BY <1>1, <1>5, <1>6, <1>7
  <2> QED BY <1>1, <1>7, <2>1, ConcatPrepared, ConcatSet
<1> QED BY <1>8 DEF Pending, A, B, C, D

\* It is the scripts of the migrations that are not recorded.
LEMMA PendingSet ==
  ASSUME Whole(db)
  PROVE  ToSet(Pending) = UNION {ToSet(Up[m]) \cup {Record(m)} : m \in Known \ db}
<1> DEFINE A == Due("InitialSchema")
           B == Due("AddGuardNameFavicon")
           C == Due("CreateSessionTable")
           D == Due("AddAdminUser")
<1>1. /\ A \in Seq(Statements) /\ B \in Seq(Statements) /\ C \in Seq(Statements) /\ D \in Seq(Statements)
  BY DueIs, KnownIs
<1> HIDE DEF A, B, C, D
<1>2. ToSet(A \o B) = ToSet(A) \cup ToSet(B) /\ A \o B \in Seq(Statements)
  BY <1>1, ConcatSet
<1>3. ToSet(A \o B \o C) = ToSet(A \o B) \cup ToSet(C) /\ A \o B \o C \in Seq(Statements)
  BY <1>1, <1>2, ConcatSet
<1>4. ToSet(A \o B \o C \o D) = ToSet(A \o B \o C) \cup ToSet(D)
  BY <1>1, <1>3, ConcatSet
<1>5. ToSet(Pending) = UNION {ToSet(Due(m)) : m \in Known}
  BY <1>2, <1>3, <1>4, KnownIs DEF Pending, A, B, C, D
<1>6. \A m \in Known : ToSet(Due(m)) = IF m \in db THEN {} ELSE ToSet(Up[m]) \cup {Record(m)}
  BY DueIs
<1> QED BY <1>5, <1>6

\* Each statement of it is followed by the record of what it makes.
LEMMA PendingFollowed ==
  ASSUME Whole(db)
  PROVE  FollowedBy(Pending, {})
<1> DEFINE A == Due("InitialSchema")
           B == Due("AddGuardNameFavicon")
           C == Due("CreateSessionTable")
           D == Due("AddAdminUser")
<1>1. /\ A \in Seq(Statements) /\ B \in Seq(Statements) /\ C \in Seq(Statements) /\ D \in Seq(Statements)
  BY DueIs, KnownIs
<1>2. FollowedBy(A, Notes(B))
  <2>1. CASE "InitialSchema" \in db
    BY <2>1, Nothing DEF Due
  <2>2. CASE "InitialSchema" \notin db
    <3>1. "AddGuardNameFavicon" \notin db
      BY <2>2, KnownIs DEF Whole, Recorded
    <3>2. Notes(B) = Objects("AddGuardNameFavicon")
      BY <3>1, DueIs, KnownIs
    <3> QED BY <2>2, <3>2, FollowedScripts DEF Due
  <2> QED BY <2>1, <2>2
<1>3. FollowedBy(B, {}) /\ FollowedBy(C, {}) /\ FollowedBy(D, {})
  BY FollowedScripts, Nothing, KnownIs DEF Due
<1> HIDE DEF A, B, C, D
<1>4. A \o B \in Seq(Statements) /\ FollowedBy(A \o B, {})
  <2>1. FollowedBy(A, {} \cup Notes(B))
    BY <1>2
  <2> QED BY <1>1, <1>3, <2>1, ConcatFollowed, ConcatSet
<1>5. A \o B \o C \in Seq(Statements) /\ FollowedBy(A \o B \o C, {})
  <2>1. FollowedBy(A \o B, {} \cup Notes(C))
    BY <1>4, FollowedMore
  <2> QED BY <1>1, <1>3, <1>4, <2>1, ConcatFollowed, ConcatSet
<1>6. FollowedBy(A \o B \o C \o D, {})
  <2>1. FollowedBy(A \o B \o C, {} \cup Notes(D))
    BY <1>5, FollowedMore
  <2> QED BY <1>1, <1>3, <1>5, <2>1, ConcatFollowed
<1> QED BY <1>6 DEF Pending, A, B, C, D

\* It is ordered.
LEMMA PendingOrdered ==
  ASSUME Whole(db)
  PROVE  Ordered(Pending)
<1> DEFINE A == Due("InitialSchema")
           B == Due("AddGuardNameFavicon")
           C == Due("CreateSessionTable")
           D == Due("AddAdminUser")
<1>1. /\ A \in Seq(Statements) /\ B \in Seq(Statements) /\ C \in Seq(Statements) /\ D \in Seq(Statements)
      /\ Ordered(A) /\ Ordered(B) /\ Ordered(C) /\ Ordered(D)
  BY DueIs, KnownIs
<1>2. /\ \A y \in ToSet(B) \cup ToSet(C) \cup ToSet(D) : y.do # "index"
      /\ \A x \in ToSet(A) \cup ToSet(B) \cup ToSet(C) : x.do # "row"
  <2>1. \A m \in Known : ToSet(Due(m)) \subseteq ToSet(Up[m]) \cup {Record(m)}
    BY DueIs
  <2>2. \A m \in Known \ {"AddAdminUser"} : \A x \in ToSet(Due(m)) : x.do # "row"
    BY <2>1, UpMakes, StatementsAre
  <2>3. \A m \in Known \ {"InitialSchema"} : \A y \in ToSet(Due(m)) : y.do # "index"
    <3>1. \A m \in Known \ {"InitialSchema"} : \A y \in ToSet(Up[m]) : y.do # "index"
      <4>1. \A y \in ToSet(Up["AddGuardNameFavicon"]) : y.do # "index"
        BY UpLists, StatementsAre
      <4>2. \A y \in ToSet(Up["CreateSessionTable"]) : y.do # "index"
        BY UpLists, StatementsAre
      <4>3. \A y \in ToSet(Up["AddAdminUser"]) : y.do # "index"
        BY UpLists, StatementsAre
      <4> QED BY <4>1, <4>2, <4>3, KnownIs
    <3> QED BY <2>1, <3>1, StatementsAre
  <2> QED BY <2>2, <2>3, KnownIs
<1> HIDE DEF A, B, C, D
<1>3. A \o B \in Seq(Statements) /\ Ordered(A \o B) /\ ToSet(A \o B) = ToSet(A) \cup ToSet(B)
  BY <1>1, <1>2, ConcatOrdered, ConcatSet
<1>4. /\ A \o B \o C \in Seq(Statements) /\ Ordered(A \o B \o C)
      /\ ToSet(A \o B \o C) = ToSet(A \o B) \cup ToSet(C)
  BY <1>1, <1>2, <1>3, ConcatOrdered, ConcatSet
<1>5. Ordered(A \o B \o C \o D)
  BY <1>1, <1>2, <1>3, <1>4, ConcatOrdered
<1> QED BY <1>5 DEF Pending, A, B, C, D

\* All of that: what a run that starts on a whole database has before it.
LEMMA PendingIs ==
  ASSUME Whole(db)
  PROVE  /\ Pending \in Seq(Statements)
         /\ \A s \in ToSet(Pending) : Makes(s) \/ s.do = "record"
         /\ Prepared(Pending, db) /\ Sufficient(Pending, db) /\ Ordered(Pending) /\ Followed(Pending)
<1>1. \A s \in ToSet(Pending) : Makes(s) \/ s.do = "record"
  BY PendingSet, UpMakes, StatementsAre
<1>2. Followed(Pending)
  BY PendingFollowed DEF Followed, FollowedBy
<1>3. Sufficient(Pending, db)
  <2>1. ASSUME NEW m \in Known, m \notin db
        PROVE  \E s \in ToSet(Pending) : s.what = m
    BY <2>1, PendingSet, StatementsAre
  <2> QED BY <2>1 DEF Sufficient, ToSet
<1> QED BY <1>1, <1>2, <1>3, PendingPrepared, PendingOrdered

\* What migration:revert does.
LEMMA UndoIs ==
  /\ \A m \in Known : Undo(m) \in Seq(Statements) /\ Undo(m) # << >>
  /\ ToSet(Undo("InitialSchema")) = {Drop(t) : t \in Tables1} \cup {Unrecord("InitialSchema")}
  /\ ToSet(Undo("AddGuardNameFavicon"))
       = {Drop("favicon"), Drop("guard_name"), Unrecord("AddGuardNameFavicon")}
  /\ ToSet(Undo("CreateSessionTable")) = {Drop("sessions"), Unrecord("CreateSessionTable")}
  /\ ToSet(Undo("AddAdminUser")) = {Unrecord("AddAdminUser")}
  /\ DOMAIN Down["InitialSchema"] = 1..6
<1>1. \A m \in Known : Objects(m) \cup {m} \subseteq Facts
  BY DEF Facts
<1>2. /\ \A t \in Tables1 \cup {"favicon", "guard_name", "sessions"} : Drop(t) \in Statements
      /\ \A m \in Known : Unrecord(m) \in Statements
  BY <1>1, KnownIs, ObjectsAre DEF Statements
<1>3. /\ Down["InitialSchema"] = InitialSchemaDown
      /\ Down["AddGuardNameFavicon"] = AddGuardNameFaviconDown
      /\ Down["CreateSessionTable"] = << Drop("sessions") >>
      /\ Down["AddAdminUser"] = << >>
  BY DEF Down
<1>4. /\ InitialSchemaDown \in Seq(Statements) /\ DOMAIN InitialSchemaDown = 1..6
      /\ ToSet(InitialSchemaDown) = {Drop(t) : t \in Tables1}
  <2>1. /\ Drop("users") \in Statements /\ Drop("roles") \in Statements
        /\ Drop("permissions") \in Statements /\ Drop("settings") \in Statements
        /\ Drop("users_roles") \in Statements /\ Drop("roles_permissions") \in Statements
    BY <1>2 DEF Tables1
  <2>2. InitialSchemaDown \in Seq(Statements) /\ DOMAIN InitialSchemaDown = 1..6
    BY <2>1 DEF InitialSchemaDown
  <2>3. DOMAIN InitialSchemaDown = {1, 2, 3, 4, 5, 6}
    BY <2>2
  <2>4. ToSet(InitialSchemaDown)
          = {Drop("roles_permissions"), Drop("users_roles"), Drop("settings"),
             Drop("permissions"), Drop("roles"), Drop("users")}
    BY <2>3 DEF InitialSchemaDown, ToSet
  <2>5. {Drop(t) : t \in Tables1} = {Drop("users"), Drop("roles"), Drop("permissions"),
             Drop("settings"), Drop("users_roles"), Drop("roles_permissions")}
    BY DEF Tables1
  <2> QED BY <2>2, <2>4, <2>5
<1>5. /\ AddGuardNameFaviconDown \in Seq(Statements)
      /\ ToSet(AddGuardNameFaviconDown) = {Drop("favicon"), Drop("guard_name")}
      /\ << Drop("sessions") >> \in Seq(Statements)
      /\ ToSet(<< Drop("sessions") >>) = {Drop("sessions")}
  BY <1>2, Short DEF AddGuardNameFaviconDown
<1>6. ASSUME NEW m \in Known
      PROVE  /\ Undo(m) \in Seq(Statements) /\ ToSet(Undo(m)) = ToSet(Down[m]) \cup {Unrecord(m)}
  <2>1. Down[m] \in Seq(Statements)
    BY <1>3, <1>4, <1>5, KnownIs, Nothing
  <2>2. <<Unrecord(m)>> \in Seq(Statements) /\ ToSet(<<Unrecord(m)>>) = {Unrecord(m)}
    BY <1>2, Short
  <2> QED BY <2>1, <2>2, ConcatSet DEF Undo
<1>7. \A m \in Known : Undo(m) \in Seq(Statements) /\ Undo(m) # << >>
  BY <1>6, Short
<1> QED BY <1>3, <1>4, <1>5, <1>6, <1>7, KnownIs, Short

\* What each statement takes away and adds are facts.
LEMMA FactsAre ==
  /\ \A m \in Known : Objects(m) \cup {m} \subseteq Facts
  /\ Tables1 \cup Indexes1 \cup {"guard_name", "favicon", "sessions"} \cup AdminRows \subseteq Facts
  /\ Facts = Known \cup Tables1 \cup Indexes1 \cup {"guard_name", "favicon", "sessions"} \cup AdminRows
<1>1. \A m \in Known : Objects(m) \cup {m} \subseteq Facts
  BY DEF Facts
<1>2. Facts = Known \cup Tables1 \cup Indexes1 \cup {"guard_name", "favicon", "sessions"} \cup AdminRows
  BY KnownIs, ObjectsAre DEF Facts
<1> QED BY <1>1, <1>2

\* What a statement adds and removes, by its kind.
LEMMA Changes ==
  ASSUME NEW s \in Statements
  PROVE  /\ Adds(s) \subseteq Facts /\ Removes(s) \subseteq Facts /\ s.what \in Facts
         /\ Makes(s) => Removes(s) = {} /\ s.what \in Adds(s) /\ s.what \notin Known
                        /\ Adds(s) \cap Known = {}
         /\ s.do = "record" => Removes(s) = {} /\ Adds(s) = {s.what}
         /\ s.do \in {"drop", "unrecord"} => Adds(s) = {} /\ s.what \in Removes(s)
<1>1. /\ \A x : Columns(x) \subseteq {"guard_name", "favicon"}
      /\ \A x \in Facts : Gone(x) \subseteq Facts /\ x \in Gone(x)
  BY FactsAre DEF Columns, Gone, Indexes1, AdminRows
<1>2. Known \cap (Tables1 \cup Indexes1 \cup {"guard_name", "favicon", "sessions"} \cup AdminRows) = {}
  BY KnownIs DEF Tables1, Indexes1, AdminRows
<1>3. CASE s.do = "table"
  <2>1. PICK t \in Tables1 \cup {"sessions"} : s = Table(t)
    BY <1>3, StatementKinds
  <2>2. /\ Adds(s) = {t} \cup Columns(t) /\ Removes(s) = {} /\ s.what = t /\ Makes(s)
    BY <2>1, StatementsAre
  <2> QED BY <1>1, <1>2, <1>3, <2>2, FactsAre
<1>4. CASE s.do = "index"
  <2>1. PICK i \in Indexes1 : s = Index(i)
    BY <1>4, StatementKinds
  <2>2. /\ Adds(s) = {i} /\ Removes(s) = {} /\ s.what = i /\ Makes(s)
    BY <2>1, StatementsAre
  <2> QED BY <1>2, <1>4, <2>2, FactsAre
<1>5. CASE s.do = "column"
  <2>1. PICK c \in {"guard_name", "favicon"} : s = Column(c)
    BY <1>5, StatementKinds
  <2>2. /\ Adds(s) = {c} /\ Removes(s) = {} /\ s.what = c /\ Makes(s)
    BY <2>1, StatementsAre
  <2> QED BY <1>2, <1>5, <2>2, FactsAre
<1>6. CASE s.do = "row"
  <2>1. PICK r \in AdminRows : s = InsertRow(r)
    BY <1>6, StatementKinds
  <2>2. /\ Adds(s) = {r} /\ Removes(s) = {} /\ s.what = r /\ Makes(s)
    BY <2>1, StatementsAre
  <2> QED BY <1>2, <1>6, <2>2, FactsAre
<1>7. CASE s.do = "record"
  <2>1. PICK m \in Known : s = Record(m)
    BY <1>7, StatementKinds
  <2>2. ~Makes(s)
    BY <2>1, StatementsAre
  <2> QED BY <1>7, <2>1, <2>2, StatementsAre, FactsAre
<1>8. CASE s.do = "drop"
  <2>1. PICK x \in Facts : s = Drop(x)
    BY <1>8, StatementKinds
  <2>2. ~Makes(s) /\ Adds(s) = {} /\ Removes(s) = Gone(x) /\ s.what = x
    BY <2>1, StatementsAre
  <2> QED BY <1>1, <1>8, <2>2
<1>9. CASE s.do = "unrecord"
  <2>1. PICK m \in Known : s = Unrecord(m)
    BY <1>9, StatementKinds
  <2>2. ~Makes(s) /\ Adds(s) = {} /\ Removes(s) = {m} /\ s.what = m
    BY <2>1, StatementsAre
  <2> QED BY <1>9, <2>2, FactsAre
<1> QED BY <1>3, <1>4, <1>5, <1>6, <1>7, <1>8, <1>9, StatementKinds

\* A list of statements without its first.
LEMMA TailIs ==
  ASSUME NEW t \in Seq(Statements), t # << >>
  PROVE  /\ Tail(t) \in Seq(Statements) /\ Head(t) = t[1] /\ Head(t) \in Statements
         /\ 1 \in DOMAIN t /\ Head(t) \in ToSet(t)
         /\ \A i \in DOMAIN Tail(t) : i \in Nat /\ i >= 1 /\ i + 1 \in DOMAIN t /\ Tail(t)[i] = t[i + 1]
         /\ \A i \in DOMAIN t : i \in Nat /\ (i = 1 \/ (i > 1 /\ i - 1 \in DOMAIN Tail(t) /\ Tail(t)[i - 1] = t[i]))
         /\ ToSet(t) = {Head(t)} \cup ToSet(Tail(t))
<1>1. /\ Tail(t) \in Seq(Statements) /\ Head(t) = t[1] /\ Head(t) \in Statements
      /\ DOMAIN t = 1..Len(t) /\ Len(t) \in Nat /\ Len(t) >= 1
      /\ DOMAIN Tail(t) = 1..(Len(t) - 1)
      /\ \A i \in 1..(Len(t) - 1) : Tail(t)[i] = t[i + 1]
  OBVIOUS
<1>2. 1 \in DOMAIN t /\ Head(t) \in ToSet(t)
  BY <1>1 DEF ToSet
<1>3. \A i \in DOMAIN Tail(t) : i \in Nat /\ i >= 1 /\ i + 1 \in DOMAIN t /\ Tail(t)[i] = t[i + 1]
  BY <1>1
<1>4. ASSUME NEW i \in DOMAIN t, i # 1
      PROVE  i \in Nat /\ i > 1 /\ i - 1 \in DOMAIN Tail(t) /\ Tail(t)[i - 1] = t[i]
  <2>1. i \in Nat /\ i > 1 /\ i - 1 \in 1..(Len(t) - 1) /\ (i - 1) + 1 = i
    BY <1>1, <1>4
  <2> QED BY <1>1, <2>1
<1>5. ToSet(t) = {Head(t)} \cup ToSet(Tail(t))
  <2>1. ToSet(t) = {t[i] : i \in DOMAIN t} /\ ToSet(Tail(t)) = {Tail(t)[i] : i \in DOMAIN Tail(t)}
    BY DEF ToSet
  <2>2. \A i \in DOMAIN t : t[i] = Head(t) \/ \E j \in DOMAIN Tail(t) : t[i] = Tail(t)[j]
    BY <1>1, <1>4
  <2>3. \A j \in DOMAIN Tail(t) : \E i \in DOMAIN t : t[i] = Tail(t)[j]
    BY <1>3
  <2>4. \E i \in DOMAIN t : t[i] = Head(t)
    BY <1>1
  <2> QED BY <2>1, <2>2, <2>3, <2>4
<1> QED BY <1>1, <1>2, <1>3, <1>4, <1>5

-----------------------------------------------------------------------------
(***************************************************************************)
(* Types, and what each action does to the runs.                           *)
(***************************************************************************)
\* The empty run is a run.
LEMMA RunTypes ==
  /\ NoRun \in Runs /\ NoRun.todo = << >> /\ NoRun.looked = FALSE /\ NoRun.closed = FALSE
  /\ NoRun.add = {} /\ NoRun.del = {}
  BY Nothing DEF NoRun, Runs

\* The actions in terms of the fields of a run.
LEMMA CheckIs ==
  ASSUME BootTypeOK, NEW p \in Process, Check(p)
  PROVE  /\ run[p] \in Runs /\ run[p].todo # << >> /\ run[p].looked = FALSE /\ Migrating(p)
         /\ NextOf(p) \in Statements /\ NextOf(p) \in ToSet(run[p].todo)
         /\ NextOf(p).do \in {"table", "column", "row", "drop"}
         /\ run' = [run EXCEPT ![p] = run'[p]] /\ run'[p] \in Runs
         /\ run'[p].closed = run[p].closed /\ run'[p].add = run[p].add /\ run'[p].del = run[p].del
         /\ \/ /\ Skips(p, NextOf(p)) /\ run'[p].todo = Tail(run[p].todo) /\ run'[p].looked = FALSE
            \/ /\ ~Skips(p, NextOf(p)) /\ run'[p].todo = run[p].todo /\ run'[p].looked = TRUE
         /\ UNCHANGED <<transactional, db, phase, secrets, history>>
<1> DEFINE r == run[p]
<1>1. run \in [Process -> Runs] /\ r \in Runs /\ r.todo # << >> /\ r.looked = FALSE
  BY DEF BootTypeOK, Check, Runs
<1>2. r.todo \in Seq(Statements) /\ r.looked \in BOOLEAN /\ r.closed \in BOOLEAN
      /\ r.add \in SUBSET Facts /\ r.del \in SUBSET Facts
  BY <1>1 DEF Runs
<1>3. Tail(r.todo) \in Seq(Statements) /\ Head(r.todo) \in Statements /\ Head(r.todo) \in ToSet(r.todo)
  BY <1>1, <1>2, TailIs
<1>4. run' = [run EXCEPT ![p] = IF Skips(p, NextOf(p)) THEN [r EXCEPT !.todo = Tail(r.todo)]
                                ELSE [r EXCEPT !.looked = TRUE]]
  BY DEF Check
<1> HIDE DEF r
<1>5. CASE Skips(p, NextOf(p))
  <2>1. run'[p] = [r EXCEPT !.todo = Tail(r.todo)]
    BY <1>1, <1>4, <1>5
  <2>2. run' = [run EXCEPT ![p] = run'[p]]
    BY <1>1, <1>4, <1>5
  <2>3. /\ run'[p] \in Runs /\ run'[p].todo = Tail(r.todo) /\ run'[p].looked = r.looked
        /\ run'[p].closed = r.closed /\ run'[p].add = r.add /\ run'[p].del = r.del
    BY <1>1, <1>2, <1>3, <2>1 DEF Runs
  <2> QED BY <1>1, <1>2, <1>3, <1>5, <2>2, <2>3 DEF Check, NextOf, r
<1>6. CASE ~Skips(p, NextOf(p))
  <2>1. run'[p] = [r EXCEPT !.looked = TRUE]
    BY <1>1, <1>4, <1>6
  <2>2. run' = [run EXCEPT ![p] = run'[p]]
    BY <1>1, <1>4, <1>6
  <2>3. /\ run'[p] \in Runs /\ run'[p].todo = r.todo /\ run'[p].looked = TRUE
        /\ run'[p].closed = r.closed /\ run'[p].add = r.add /\ run'[p].del = r.del
    BY <1>1, <1>2, <2>1 DEF Runs
  <2> QED BY <1>1, <1>2, <1>3, <1>6, <2>2, <2>3 DEF Check, NextOf, r
<1> QED BY <1>5, <1>6

\* A statement that runs: in one transaction, or committed at once.
LEMMA ExecuteIs ==
  ASSUME BootTypeOK, NEW p \in Process, Execute(p)
  PROVE  LET s == NextOf(p)
             after == (View(p) \ Removes(s)) \cup Adds(s)
         IN  /\ run[p] \in Runs /\ run[p].todo # << >> /\ Migrating(p)
             /\ s \in Statements /\ s \in ToSet(run[p].todo)
             /\ Ready(p) /\ ~Refused(p, s)
             /\ run' = [run EXCEPT ![p] = run'[p]] /\ run'[p] \in Runs
             /\ run'[p].todo = Tail(run[p].todo) /\ run'[p].looked = FALSE
             /\ View(p)' = after
             /\ \/ /\ ~transactional /\ (run[p].closed \/ Ddl(s))
                   /\ db' = after /\ after \subseteq Facts
                   /\ run'[p].closed = TRUE /\ run'[p].add = {} /\ run'[p].del = {}
                \/ /\ transactional \/ ~(run[p].closed \/ Ddl(s))
                   /\ db' = db /\ run'[p].closed = run[p].closed
                   /\ run'[p].add = (run[p].add \ Removes(s)) \cup Adds(s)
                   /\ run'[p].del = (run[p].del \ Adds(s)) \cup Removes(s)
             /\ UNCHANGED <<transactional, phase, secrets, history>>
<1> DEFINE r == run[p]
           s == NextOf(p)
           next == [r EXCEPT !.todo = Tail(r.todo), !.looked = FALSE]
           closes == ~transactional /\ (r.closed \/ Ddl(s))
           after == (View(p) \ Removes(s)) \cup Adds(s)
<1>1. run \in [Process -> Runs] /\ r \in Runs /\ r.todo # << >> /\ Migrating(p)
  BY DEF BootTypeOK, Execute, Ready
<1>2. r.todo \in Seq(Statements) /\ r.looked \in BOOLEAN /\ r.closed \in BOOLEAN
      /\ r.add \in SUBSET Facts /\ r.del \in SUBSET Facts
  BY <1>1 DEF Runs
<1>3. /\ Tail(r.todo) \in Seq(Statements) /\ s \in Statements /\ s \in ToSet(r.todo)
  BY <1>1, <1>2, TailIs DEF NextOf
<1>4. Adds(s) \subseteq Facts /\ Removes(s) \subseteq Facts /\ View(p) \subseteq Facts
  BY <1>2, <1>3, Changes DEF View, BootTypeOK
<1>5. /\ closes => /\ db' = after
                   /\ run' = [run EXCEPT ![p] = [next EXCEPT !.closed = TRUE, !.add = {}, !.del = {}]]
      /\ ~closes => /\ db' = db
                    /\ run' = [run EXCEPT ![p] = [next EXCEPT !.add = (next.add \ Removes(s)) \cup Adds(s),
                                                              !.del = (next.del \ Adds(s)) \cup Removes(s)]]
  BY DEF Execute
<1>6. /\ next \in Runs /\ next.todo = Tail(r.todo) /\ next.looked = FALSE /\ next.closed = r.closed
      /\ next.add = r.add /\ next.del = r.del
  BY <1>1, <1>2, <1>3 DEF Runs
<1>7. Ready(p) /\ ~Refused(p, s) /\ UNCHANGED <<transactional, phase, secrets, history>>
  BY DEF Execute
<1>8. View(p)' = (db' \ run'[p].del) \cup run'[p].add
  BY DEF View
<1>9. View(p) = (db \ r.del) \cup r.add
  BY DEF View
<1>10. r = run[p] /\ s = NextOf(p) /\ after = (View(p) \ Removes(s)) \cup Adds(s)
       /\ (closes <=> ~transactional /\ (r.closed \/ Ddl(s)))
  OBVIOUS
<1>11. Adds(s) \cap Removes(s) = {}
  BY <1>3, Changes, StatementKinds DEF Makes
<1> HIDE DEF r, s, next, closes, after
<1>12. CASE closes
  <2>1. run'[p] = [next EXCEPT !.closed = TRUE, !.add = {}, !.del = {}] /\ db' = after
    BY <1>1, <1>5, <1>12
  <2>2. run' = [run EXCEPT ![p] = run'[p]]
    BY <1>1, <1>5, <1>12
  <2>3. /\ run'[p] \in Runs /\ run'[p].todo = Tail(r.todo) /\ run'[p].looked = FALSE
        /\ run'[p].closed = TRUE /\ run'[p].add = {} /\ run'[p].del = {}
    BY <1>6, <2>1 DEF Runs
  <2>4. View(p)' = after
    BY <1>8, <2>1, <2>3
  <2>5. after \subseteq Facts
    BY <1>4, <1>10
  <2> QED BY <1>1, <1>3, <1>7, <1>10, <1>12, <2>1, <2>2, <2>3, <2>4, <2>5
<1>13. CASE ~closes
  <2>1. /\ run'[p] = [next EXCEPT !.add = (next.add \ Removes(s)) \cup Adds(s),
                                  !.del = (next.del \ Adds(s)) \cup Removes(s)]
        /\ db' = db
    BY <1>1, <1>5, <1>13
  <2>2. run' = [run EXCEPT ![p] = run'[p]]
    BY <1>1, <1>5, <1>13
  <2>3. /\ run'[p] \in Runs /\ run'[p].todo = Tail(r.todo) /\ run'[p].looked = FALSE
        /\ run'[p].closed = r.closed /\ run'[p].add = (r.add \ Removes(s)) \cup Adds(s)
        /\ run'[p].del = (r.del \ Adds(s)) \cup Removes(s)
    BY <1>2, <1>4, <1>6, <2>1 DEF Runs
  <2>4. View(p)' = after
    BY <1>8, <1>9, <1>10, <1>11, <2>1, <2>3
  <2> QED BY <1>1, <1>3, <1>7, <1>10, <1>13, <2>1, <2>2, <2>3, <2>4
<1> QED BY <1>12, <1>13

\* A run that is started or over.
LEMMA DueType ==
  ASSUME NEW m \in Known
  PROVE  Due(m) \in Seq(Statements)
  BY ScriptParts, Nothing DEF Due

\* What is loaded is a list of statements.
LEMMA PendingType == Pending \in Seq(Statements)
<1>1. /\ Due("InitialSchema") \in Seq(Statements) /\ Due("AddGuardNameFavicon") \in Seq(Statements)
      /\ Due("CreateSessionTable") \in Seq(Statements) /\ Due("AddAdminUser") \in Seq(Statements)
  BY DueType, KnownIs
<1>2. Due("InitialSchema") \o Due("AddGuardNameFavicon") \in Seq(Statements)
  BY <1>1, ConcatSet
<1>3. Due("InitialSchema") \o Due("AddGuardNameFavicon") \o Due("CreateSessionTable") \in Seq(Statements)
  BY <1>1, <1>2, ConcatSet
<1> QED BY <1>1, <1>3, ConcatSet DEF Pending

\* A run that is started.
LEMMA StartIs ==
  ASSUME BootTypeOK, NEW p \in Process, NEW todo \in Seq(Statements), Start(p, todo)
  PROVE  /\ run' = [run EXCEPT ![p] = run'[p]] /\ run'[p] \in Runs
         /\ run'[p].todo = todo /\ run'[p].looked = FALSE /\ run'[p].closed = FALSE
         /\ run'[p].add = {} /\ run'[p].del = {}
<1>1. run \in [Process -> Runs] /\ run' = [run EXCEPT ![p] = [NoRun EXCEPT !.todo = todo]]
  BY DEF BootTypeOK, Start
<1>2. run'[p] = [NoRun EXCEPT !.todo = todo] /\ run' = [run EXCEPT ![p] = run'[p]]
  BY <1>1
<1> DEFINE r == [NoRun EXCEPT !.todo = todo]
<1>3. /\ r \in Runs /\ r.todo = todo /\ r.looked = NoRun.looked /\ r.closed = NoRun.closed
      /\ r.add = NoRun.add /\ r.del = NoRun.del
  BY RunTypes DEF Runs
<1> QED BY <1>2, <1>3, RunTypes

\* Where an entrypoint may be.
LEMMA RowPhases ==
  /\ AdminRows = {"setting", "role", "user", "link"}
  /\ NotFound["setting"] = "no setting" /\ NotFound["role"] = "no role"
  /\ NotFound["user"] = "no user" /\ NotFound["link"] = "no link"
  /\ AfterRow["setting"] = "role" /\ AfterRow["role"] = "user"
  /\ AfterRow["user"] = "link" /\ AfterRow["link"] = "serving"
  BY DEF AdminRows, NotFound, AfterRow

\* The phases of seed.js are none of the others.
LEMMA PhasesAre ==
  /\ \A r \in AdminRows : /\ r \in SeedPhases /\ NotFound[r] \in SeedPhases
                          /\ AfterRow[r] \in SeedPhases \cup {"serving"}
  /\ Phases = SeedPhases \cup {"off", "secrets", "draw", "load", "run", "serving"}
  /\ \A x \in SeedPhases : x \notin {"off", "secrets", "draw", "load", "run", "serving"}
  /\ "setting" \in SeedPhases
<1>1. SeedPhases = AdminRows \cup {"no setting", "no role", "no user", "no link"}
  BY RowPhases DEF SeedPhases
<1>2. Phases = SeedPhases \cup {"off", "secrets", "draw", "load", "run", "serving"}
  BY DEF Phases
<1> QED BY <1>1, <1>2, RowPhases

\* What the steps of seed.js have in common.
SeedJs(c) ==
    \/ SeedLost(c)
    \/ \E r \in AdminRows : SeedFinds(c, r) \/ SeedInserts(c, r) \/ SeedRefused(c, r)

\* A step of seed.js goes on, or ends it; it adds at most its row.
LEMMA SeedJsIs ==
  ASSUME BootTypeOK, NEW c \in Container, SeedJs(c)
  PROVE  /\ phase[c] \in SeedPhases /\ phase'[c] \in SeedPhases \cup {"serving"}
         /\ phase' \in [Container -> Phases]
         /\ \A d \in Container \ {c} : phase'[d] = phase[d]
         /\ UNCHANGED <<transactional, run, secrets, harmed, torn, racing>>
         /\ cut' \in BOOLEAN
         /\ \/ db' = db
            \/ \E r \in AdminRows : SeedInserts(c, r) /\ db' = db \cup {r}
<1>1. phase \in [Container -> Phases] /\ cut \in BOOLEAN
  BY DEF BootTypeOK
<1>2. CASE SeedLost(c)
  <2>1. phase[c] \in SeedPhases /\ phase' = [phase EXCEPT ![c] = "serving"] /\ "serving" \in Phases
    BY <1>2, PhasesAre DEF SeedLost
  <2>2. /\ phase' \in [Container -> Phases] /\ phase'[c] = "serving"
        /\ \A d \in Container \ {c} : phase'[d] = phase[d]
    BY <1>1, <2>1
  <2> QED BY <1>2, <2>1, <2>2 DEF SeedLost
<1>3. ASSUME NEW r \in AdminRows, SeedFinds(c, r)
      PROVE  /\ phase[c] = r /\ phase' = [phase EXCEPT ![c] = IF r \in db THEN AfterRow[r] ELSE NotFound[r]]
             /\ UNCHANGED <<transactional, db, run, secrets, history>>
  BY <1>3 DEF SeedFinds
<1>4. ASSUME NEW r \in AdminRows, SeedInserts(c, r)
      PROVE  /\ phase[c] = NotFound[r] /\ phase' = [phase EXCEPT ![c] = AfterRow[r]]
             /\ db' = db \cup {r} /\ UNCHANGED <<transactional, run, secrets, history>>
  BY <1>4 DEF SeedInserts
<1>5. ASSUME NEW r \in AdminRows, SeedRefused(c, r)
      PROVE  /\ phase[c] \in {r, NotFound[r]} /\ phase' = [phase EXCEPT ![c] = "serving"]
             /\ UNCHANGED <<transactional, db, run, secrets, history>>
  BY <1>5 DEF SeedRefused
<1>6. ASSUME NEW r \in AdminRows, SeedFinds(c, r) \/ SeedInserts(c, r) \/ SeedRefused(c, r)
      PROVE  /\ phase[c] \in {r, NotFound[r]}
             /\ \E x \in {NotFound[r], AfterRow[r], "serving"} : phase' = [phase EXCEPT ![c] = x]
             /\ UNCHANGED <<transactional, run, secrets, history>>
             /\ db' = db \/ (SeedInserts(c, r) /\ db' = db \cup {r})
  BY <1>3, <1>4, <1>5, <1>6
<1>7. ASSUME NEW r \in AdminRows, SeedFinds(c, r) \/ SeedInserts(c, r) \/ SeedRefused(c, r)
      PROVE  /\ phase[c] \in SeedPhases /\ phase'[c] \in SeedPhases \cup {"serving"}
             /\ phase' \in [Container -> Phases]
             /\ \A d \in Container \ {c} : phase'[d] = phase[d]
  <2>1. PICK x \in {NotFound[r], AfterRow[r], "serving"} : phase' = [phase EXCEPT ![c] = x]
    BY <1>6, <1>7
  <2>2. x \in SeedPhases \cup {"serving"} /\ x \in Phases /\ phase[c] \in SeedPhases
    BY <1>6, <1>7, PhasesAre
  <2> QED BY <1>1, <2>1, <2>2
<1> QED BY <1>1, <1>2, <1>6, <1>7 DEF SeedJs, history

\* A run that is over; a container goes on to its seed.js.
LEMMA FinishIs ==
  ASSUME BootTypeOK, NEW p \in Process, Finish(p)
  PROVE  /\ run' = [run EXCEPT ![p] = NoRun] /\ run'[p] = NoRun
         /\ \A q \in Process \ {p} : run'[q] = run[q]
         /\ phase' \in [Container -> Phases]
         /\ \A c \in Container : phase'[c] = IF c = p THEN "setting" ELSE phase[c]
<1>1. run \in [Process -> Runs] /\ phase \in [Container -> Phases] /\ "setting" \in Phases
  BY PhasesAre DEF BootTypeOK
<1>2. CASE p \in Container
  BY <1>1, <1>2 DEF Finish
<1>3. CASE p \notin Container
  BY <1>1, <1>3 DEF Finish
<1> QED BY <1>2, <1>3

\* The types, initially and from step to step.
LEMMA BootTypeInit == BootInit => BootTypeOK
<1>1. "off" \in Phases
  BY PhasesAre
<1> QED BY <1>1, RunTypes DEF BootInit, BootTypeOK

\* The types, from step to step.
LEMMA BootTypeStep == BootTypeOK /\ [BootNext]_bootVars => BootTypeOK'
<1> SUFFICES ASSUME BootTypeOK, [BootNext]_bootVars PROVE BootTypeOK'
  OBVIOUS
<1> USE DEF BootTypeOK
<1>1. \A c \in Container : c \in Process
  BY DEF Process
<1>3. {"off", "secrets", "draw", "load", "run", "setting", "serving"} \subseteq Phases
  BY PhasesAre
<1>4. /\ transactional \in BOOLEAN /\ harmed \in BOOLEAN /\ torn \in BOOLEAN
      /\ racing \in BOOLEAN /\ cut \in BOOLEAN /\ shared \in BOOLEAN
  OBVIOUS
<1>5. ASSUME NEW c \in Container, Enter(c)
      PROVE  BootTypeOK'
  BY <1>3, <1>5 DEF Enter, history, secrets
<1>6. ASSUME NEW c \in Container, ReadSecrets(c)
      PROVE  BootTypeOK'
  <2>1. phase' \in [Container -> Phases]
    BY <1>3, <1>6 DEF ReadSecrets
  <2>2. shared' \in BOOLEAN
    BY <1>4, <1>6 DEF ReadSecrets
  <2> QED BY <1>6, <2>1, <2>2 DEF ReadSecrets, history
<1>7. ASSUME NEW c \in Container, DrawSecret(c)
      PROVE  BootTypeOK'
  BY <1>3, <1>7 DEF DrawSecret, history
<1>8. ASSUME NEW c \in Container, Load(c)
      PROVE  BootTypeOK'
  <2>1. CASE Pending = << >>
    BY <1>3, <1>8, <2>1 DEF Load, secrets
  <2>2. CASE Pending # << >>
    <3>1. Start(c, Pending)
      BY <1>8, <2>2 DEF Load
    <3>2. run' \in [Process -> Runs]
      BY <1>1, <3>1, StartIs, PendingType
    <3>3. racing' \in BOOLEAN /\ cut' \in BOOLEAN
      BY <1>4, <1>8, <2>2 DEF Load
    <3> QED BY <1>3, <1>8, <2>2, <3>2, <3>3 DEF Load, secrets
  <2> QED BY <2>1, <2>2
<1>9. ASSUME NEW c \in Container, SeedJs(c)
      PROVE  BootTypeOK'
  <2>1. db' \subseteq Facts
    BY <1>9, SeedJsIs, FactsAre
  <2> QED BY <1>9, <2>1, SeedJsIs DEF secrets
<1>10. ASSUME NEW c \in Container, StopContainer(c)
       PROVE  BootTypeOK'
  <2>1. run' \in [Process -> Runs] /\ phase' \in [Container -> Phases]
    BY <1>1, <1>3, <1>10, RunTypes DEF StopContainer
  <2>2. harmed' \in BOOLEAN /\ racing' \in BOOLEAN /\ cut' \in BOOLEAN
    BY <1>4, <1>10 DEF StopContainer
  <2> QED BY <1>10, <2>1, <2>2 DEF StopContainer
<1>11. ASSUME NEW m \in Known, Revert(m)
       PROVE  BootTypeOK'
  <2>1. Operator \in Process /\ Start(Operator, Undo(m)) /\ Undo(m) \in Seq(Statements)
    BY <1>11, UndoIs DEF Process, Revert
  <2>2. run' \in [Process -> Runs]
    BY <2>1, StartIs
  <2> QED BY <1>11, <2>2 DEF Revert, secrets
<1>12. ASSUME NEW p \in Process, Check(p)
       PROVE  BootTypeOK'
  <2>1. run' = [run EXCEPT ![p] = run'[p]] /\ run'[p] \in Runs
    BY <1>12, CheckIs
  <2>2. run' \in [Process -> Runs]
    BY <2>1
  <2> QED BY <1>12, <2>2 DEF Check, secrets, history
<1>13. ASSUME NEW p \in Process, Execute(p)
       PROVE  BootTypeOK'
  <2>1. run' \in [Process -> Runs] /\ db' \subseteq Facts
    BY <1>13, ExecuteIs
  <2> QED BY <1>13, <2>1 DEF Execute, secrets, history
<1>14. ASSUME NEW p \in Process, Commit(p) \/ Break(p) \/ Lose(p)
       PROVE  BootTypeOK'
  <2>1. Finish(p)
    BY <1>14 DEF Commit, Break, Lose
  <2>2. run' \in [Process -> Runs] /\ phase' \in [Container -> Phases]
    BY <2>1, FinishIs, RunTypes
  <2>3. View(p) \subseteq Facts
    BY DEF View, Runs
  <2>4. db' \subseteq Facts /\ UNCHANGED <<transactional, file, secret, shared>>
    BY <1>14, <2>3 DEF Commit, Break, Lose, secrets
  <2>5. {harmed', torn', racing', cut'} \subseteq BOOLEAN
    BY <1>4, <1>14 DEF Commit, Break, Lose, history
  <2> QED BY <2>2, <2>4, <2>5
<1>15. CASE UNCHANGED bootVars
  BY <1>15 DEF bootVars, secrets, history
<1> QED BY <1>5, <1>6, <1>7, <1>8, <1>9, <1>10, <1>11, <1>12, <1>13, <1>14, <1>15 DEF BootNext, SeedJs

-----------------------------------------------------------------------------
(***************************************************************************)
(* The secrets.                                                            *)
(***************************************************************************)
\* The secrets, initially.
LEMMA SecretsInit == BootInit => SecretsInv
  BY DEF BootInit, SecretsInv, SecretsAgree

\* A container's phase changes as far as the secrets go: from running to running, or
\* to off.
LEMMA SecretsKept ==
  ASSUME SecretsInv, file' = file, shared' = shared,
         \A c \in Container :
            \/ phase'[c] = phase[c] /\ secret'[c] = secret[c]
            \/ phase'[c] \in {"off", "secrets"}
            \/ /\ phase[c] \notin {"off", "secrets", "draw"}
               /\ phase'[c] \notin {"off", "secrets", "draw"} /\ secret'[c] = secret[c]
  PROVE  SecretsInv'
<1>1. \A c \in Container : phase'[c] \notin {"off", "secrets", "draw"}
         => phase[c] \notin {"off", "secrets", "draw"} /\ secret'[c] = secret[c]
  OBVIOUS
<1>2. \A c \in Container : phase'[c] = "draw" => phase[c] = "draw"
  OBVIOUS
<1> QED BY <1>1, <1>2 DEF SecretsInv, SecretsAgree

\* Steps of the runs and the database, as far as a container's phase goes.
LEMMA PlacedInit == BootInit => Placed
  BY DEF BootInit, Placed, Migrating, Process

\* What a step does to a container outside its run, and to the secrets.
LEMMA PhaseSteps ==
  ASSUME BootTypeOK, Placed, [BootNext]_bootVars
  PROVE  /\ Placed'
         /\ \/ /\ file' = file /\ shared' = shared
               /\ \A c \in Container :
                  \/ phase'[c] = phase[c] /\ secret'[c] = secret[c]
                  \/ phase'[c] \in {"off", "secrets"}
                  \/ /\ phase[c] \notin {"off", "secrets", "draw"}
                     /\ phase'[c] \notin {"off", "secrets", "draw"} /\ secret'[c] = secret[c]
            \/ \E c \in Container : ReadSecrets(c) \/ DrawSecret(c)
<1>1. /\ \A c \in Container : c \in Process /\ c # Operator
      /\ run \in [Process -> Runs] /\ phase \in [Container -> Phases]
      /\ secret \in [Container -> Container \cup {Null}]
  BY BootAssumption DEF Process, BootTypeOK
<1>2. ASSUME NEW c \in Container, Enter(c)
      PROVE  /\ Placed' /\ file' = file /\ shared' = shared
             /\ \A d \in Container :
                   \/ phase'[d] = phase[d] /\ secret'[d] = secret[d]
                   \/ phase'[d] \in {"off", "secrets"}
  BY <1>1, <1>2 DEF Enter, Placed, Migrating, secrets
<1>3. ASSUME NEW c \in Container, ReadSecrets(c) \/ DrawSecret(c)
      PROVE  Placed'
  <2>1. run' = run /\ phase[c] # "run" /\ \A d \in Container \ {c} : phase'[d] = phase[d]
    BY <1>1, <1>3 DEF ReadSecrets, DrawSecret
  <2> QED BY <2>1 DEF Placed, Migrating
<1>4. ASSUME NEW c \in Container, Load(c)
      PROVE  /\ Placed' /\ file' = file /\ shared' = shared
             /\ secret' = secret /\ phase[c] = "load" /\ phase'[c] \in {"run", "setting"}
             /\ \A d \in Container \ {c} : phase'[d] = phase[d]
  <2>1. CASE Pending = << >>
    BY <1>1, <1>4, <2>1 DEF Load, Placed, Migrating, secrets
  <2>2. CASE Pending # << >>
    <3>1. /\ phase[c] = "load" /\ phase' = [phase EXCEPT ![c] = "run"] /\ Start(c, Pending)
          /\ secret' = secret /\ file' = file /\ shared' = shared
      BY <1>4, <2>2 DEF Load, secrets
    <3>2. \A d \in Container \ {c} : run'[d] = run[d]
      BY <1>1, <3>1 DEF Start
    <3> QED BY <1>1, <3>1, <3>2 DEF Placed, Migrating
  <2> QED BY <2>1, <2>2
<1>5. ASSUME NEW c \in Container, SeedJs(c)
      PROVE  /\ Placed' /\ file' = file /\ shared' = shared
             /\ secret' = secret /\ phase[c] \notin {"off", "secrets", "draw"}
             /\ phase'[c] \notin {"off", "secrets", "draw"}
             /\ \A d \in Container \ {c} : phase'[d] = phase[d]
  <2>1. /\ phase[c] \notin {"off", "secrets", "draw", "run"}
        /\ phase'[c] \notin {"off", "secrets", "draw"}
        /\ UNCHANGED <<run, file, secret, shared>>
        /\ \A d \in Container \ {c} : phase'[d] = phase[d]
    BY <1>5, SeedJsIs, PhasesAre DEF secrets
  <2> QED BY <2>1 DEF Placed, Migrating
<1>6. ASSUME NEW c \in Container, StopContainer(c)
      PROVE  /\ Placed' /\ file' = file /\ shared' = shared
             /\ phase'[c] = "off"
             /\ \A d \in Container \ {c} : phase'[d] = phase[d] /\ secret'[d] = secret[d]
  <2>1. run'[c] = NoRun /\ \A d \in Container \ {c} : run'[d] = run[d] /\ phase'[d] = phase[d]
    BY <1>1, <1>6 DEF StopContainer
  <2> QED BY <1>1, <1>6, <2>1 DEF StopContainer, Placed, Migrating
<1>7. ASSUME NEW m \in Known, Revert(m)
      PROVE  Placed' /\ file' = file /\ shared' = shared /\ phase' = phase /\ secret' = secret
  <2>1. \A d \in Container : run'[d] = run[d]
    BY <1>1, <1>7 DEF Revert, Start
  <2> QED BY <1>7, <2>1 DEF Revert, Placed, Migrating, secrets
<1>8. ASSUME NEW p \in Process, Check(p) \/ Execute(p)
      PROVE  Placed' /\ file' = file /\ shared' = shared /\ phase' = phase /\ secret' = secret
  <2>1. Migrating(p) /\ run' = [run EXCEPT ![p] = run'[p]]
    BY <1>8, CheckIs, ExecuteIs
  <2>2. file' = file /\ shared' = shared /\ phase' = phase /\ secret' = secret
    BY <1>8 DEF Check, Execute, secrets
  <2>3. \A d \in Container \ {p} : run'[d] = run[d]
    BY <1>1, <2>1
  <2> QED BY <2>1, <2>2, <2>3 DEF Placed, Migrating
<1>9. ASSUME NEW p \in Process, Commit(p) \/ Break(p) \/ Lose(p)
      PROVE  /\ Placed' /\ file' = file /\ shared' = shared /\ secret' = secret
             /\ \A d \in Container :
                   phase'[d] = phase[d] \/ (phase[d] = "run" /\ phase'[d] = "setting")
  <2>1. Finish(p) /\ Migrating(p) /\ file' = file /\ shared' = shared /\ secret' = secret
    BY <1>9 DEF Commit, Break, Broken, Ready, Lose, secrets
  <2>2. /\ run'[p] = NoRun /\ \A q \in Process \ {p} : run'[q] = run[q]
        /\ \A c \in Container : phase'[c] = IF c = p THEN "setting" ELSE phase[c]
    BY <2>1, FinishIs
  <2> QED BY <1>1, <2>1, <2>2 DEF Placed, Migrating
<1>10. CASE UNCHANGED bootVars
  BY <1>10 DEF bootVars, secrets, Placed, Migrating
<1> QED BY <1>2, <1>3, <1>4, <1>5, <1>6, <1>7, <1>8, <1>9, <1>10 DEF BootNext, SeedJs

\* The secrets, from step to step.
LEMMA SecretsStep ==
  BootTypeOK /\ Placed /\ SecretsInv /\ [BootNext]_bootVars => SecretsInv'
<1> SUFFICES ASSUME BootTypeOK, Placed, SecretsInv, [BootNext]_bootVars PROVE SecretsInv'
  OBVIOUS
<1>1. /\ phase \in [Container -> Phases] /\ secret \in [Container -> Container \cup {Null}]
      /\ Null \notin Container /\ shared \in BOOLEAN
  BY BootAssumption DEF BootTypeOK
<1>2. ASSUME NEW c \in Container, ReadSecrets(c)
      PROVE  SecretsInv'
  <2>1. /\ phase[c] = "secrets" /\ file' = file
        /\ secret'[c] = file /\ phase'[c] = IF file = Null THEN "draw" ELSE "load"
        /\ \A d \in Container \ {c} : phase'[d] = phase[d] /\ secret'[d] = secret[d]
        /\ shared' = (shared /\ ~(file = Null /\ \E x \in Container : phase[x] = "draw"))
    BY <1>1, <1>2 DEF ReadSecrets
  <2>2. CASE file = Null
    BY <2>1, <2>2 DEF SecretsInv, SecretsAgree
  <2>3. CASE file # Null
    BY <2>1, <2>3 DEF SecretsInv, SecretsAgree
  <2> QED BY <2>2, <2>3
<1>3. ASSUME NEW c \in Container, DrawSecret(c)
      PROVE  SecretsInv'
  <2>1. /\ phase[c] = "draw" /\ file' = c /\ secret'[c] = c /\ phase'[c] = "load"
        /\ \A d \in Container \ {c} : phase'[d] = phase[d] /\ secret'[d] = secret[d]
        /\ shared' = shared
    BY <1>1, <1>3 DEF DrawSecret
  <2>2. shared => \A d \in Container \ {c} :
                     phase[d] \in {"off", "secrets"}
    BY <2>1 DEF SecretsInv
  <2> QED BY <1>1, <2>1, <2>2 DEF SecretsInv, SecretsAgree
<1> QED BY <1>2, <1>3, PhaseSteps, SecretsKept

-----------------------------------------------------------------------------
(***************************************************************************)
(* The lists of statements as they are worked off.                         *)
(***************************************************************************)
\* The first statement has what it requires.
LEMMA HeadPrepared ==
  ASSUME NEW t \in Seq(Statements), t # << >>, NEW X, Prepared(t, X)
  PROVE  Requires(Head(t)) \subseteq X
<1>1. 1 \in DOMAIN t /\ Head(t) = t[1]
  BY TailIs
<1>2. \A j \in 1..(1 - 1) : FALSE
  OBVIOUS
<1> QED BY <1>1, <1>2 DEF Prepared

\* The rest is prepared where the first statement has run.
LEMMA TailPrepared ==
  ASSUME NEW t \in Seq(Statements), t # << >>, NEW X, NEW Y, X \cup {Head(t).what} \subseteq Y,
         Prepared(t, X)
  PROVE  Prepared(Tail(t), Y)
<1> SUFFICES ASSUME NEW i \in DOMAIN Tail(t), NEW o \in Requires(Tail(t)[i]) \ Y
             PROVE  \E j \in 1..(i - 1) : Tail(t)[j].what = o
  BY DEF Prepared
<1>1. i \in Nat /\ i >= 1 /\ i + 1 \in DOMAIN t /\ Tail(t)[i] = t[i + 1] /\ Head(t) = t[1]
  BY TailIs
<1>2. PICK j \in 1..((i + 1) - 1) : t[j].what = o
  BY <1>1 DEF Prepared
<1>3. j # 1
  BY <1>1, <1>2
<1>4. DOMAIN t = 1..Len(t) /\ Len(t) \in Nat
  OBVIOUS
<1>5. j \in DOMAIN t
  BY <1>1, <1>2, <1>4
<1>6. j - 1 \in DOMAIN Tail(t) /\ Tail(t)[j - 1] = t[j]
  BY <1>3, <1>5, TailIs
<1>7. j - 1 \in 1..(i - 1)
  BY <1>1, <1>2, <1>3
<1> QED BY <1>2, <1>6, <1>7

\* The rest is enough where the first statement has run.
LEMMA TailSufficient ==
  ASSUME NEW t \in Seq(Statements), t # << >>, NEW X, NEW Y, X \cup {Head(t).what} \subseteq Y,
         Sufficient(t, X)
  PROVE  Sufficient(Tail(t), Y)
<1> SUFFICES ASSUME NEW o \in Known \ Y
             PROVE  \E i \in DOMAIN Tail(t) : Tail(t)[i].what = o
  BY DEF Sufficient
<1>1. PICK i \in DOMAIN t : t[i].what = o
  BY DEF Sufficient
<1>2. i # 1
  BY <1>1, TailIs
<1>3. i - 1 \in DOMAIN Tail(t) /\ Tail(t)[i - 1] = t[i]
  BY <1>2, TailIs
<1> QED BY <1>1, <1>3

\* The rest is ordered, and what comes first allows what is left.
LEMMA TailOrdered ==
  ASSUME NEW t \in Seq(Statements), t # << >>, Ordered(t)
  PROVE  /\ Ordered(Tail(t))
         /\ \A s \in ToSet(Tail(t)) :
               /\ s.do = "index" => Head(t).what \in Earlier(s.what)
               /\ Head(t).do = "row" => s.do = "row" \/ s = Record("AddAdminUser")
<1>1. ASSUME NEW i \in DOMAIN Tail(t), NEW j \in 1..(i - 1)
      PROVE  /\ Tail(t)[i].do = "index" => Tail(t)[j].what \in Earlier(Tail(t)[i].what)
             /\ Tail(t)[j].do = "row"
                   => Tail(t)[i].do = "row" \/ Tail(t)[i] = Record("AddAdminUser")
  <2>1. i \in Nat /\ i + 1 \in DOMAIN t /\ Tail(t)[i] = t[i + 1] /\ DOMAIN Tail(t) = 1..Len(Tail(t))
        /\ Len(Tail(t)) \in Nat
    BY TailIs
  <2>2. j \in DOMAIN Tail(t)
    BY <1>1, <2>1
  <2>3. Tail(t)[j] = t[j + 1] /\ j \in Nat
    BY <2>2, TailIs
  <2>4. j + 1 \in 1..((i + 1) - 1)
    BY <2>1, <2>3
  <2> QED BY <2>1, <2>3, <2>4 DEF Ordered
<1>2. ASSUME NEW i \in DOMAIN Tail(t)
      PROVE  /\ Tail(t)[i].do = "index" => Head(t).what \in Earlier(Tail(t)[i].what)
             /\ Head(t).do = "row"
                   => Tail(t)[i].do = "row" \/ Tail(t)[i] = Record("AddAdminUser")
  <2>1. i \in Nat /\ i >= 1 /\ i + 1 \in DOMAIN t /\ Tail(t)[i] = t[i + 1] /\ Head(t) = t[1]
    BY TailIs
  <2>2. 1 \in 1..((i + 1) - 1)
    BY <2>1
  <2> QED BY <2>1, <2>2 DEF Ordered
<1> QED BY <1>1, <1>2 DEF Ordered, ToSet

\* The rest records what it makes, and what the first statement made.
LEMMA TailFollowed ==
  ASSUME NEW t \in Seq(Statements), t # << >>, Followed(t)
  PROVE  /\ Followed(Tail(t))
         /\ Makes(Head(t)) => /\ Tail(t) # << >>
                              /\ \A o \in Adds(Head(t)) : \E s \in ToSet(Tail(t)) :
                                    s.do = "record" /\ o \in Objects(s.what)
<1>1. ASSUME NEW i \in DOMAIN t, Makes(t[i]), NEW o \in Adds(t[i])
      PROVE  \E j \in DOMAIN Tail(t) :
                j + 1 > i /\ Tail(t)[j].do = "record" /\ o \in Objects(Tail(t)[j].what)
  <2>1. PICK j \in DOMAIN t : j > i /\ t[j].do = "record" /\ o \in Objects(t[j].what)
    BY <1>1 DEF Followed
  <2>2. i \in Nat /\ i >= 1 /\ j \in Nat
    BY TailIs
  <2>3. j # 1
    BY <2>1, <2>2
  <2>4. j - 1 \in DOMAIN Tail(t) /\ Tail(t)[j - 1] = t[j] /\ (j - 1) + 1 = j
    BY <2>2, <2>3, TailIs
  <2> QED BY <2>1, <2>4
<1>2. Followed(Tail(t))
  <2> SUFFICES ASSUME NEW i \in DOMAIN Tail(t), Makes(Tail(t)[i]), NEW o \in Adds(Tail(t)[i])
               PROVE  \E j \in DOMAIN Tail(t) :
                         j > i /\ Tail(t)[j].do = "record" /\ o \in Objects(Tail(t)[j].what)
    BY DEF Followed
  <2>1. i \in Nat /\ i + 1 \in DOMAIN t /\ Tail(t)[i] = t[i + 1]
    BY TailIs
  <2>2. PICK j \in DOMAIN Tail(t) :
                j + 1 > i + 1 /\ Tail(t)[j].do = "record" /\ o \in Objects(Tail(t)[j].what)
    BY <1>1, <2>1
  <2>3. j \in Nat
    BY TailIs
  <2>4. j > i
    BY <2>1, <2>2, <2>3
  <2> QED BY <2>2, <2>4
<1>3. ASSUME Makes(Head(t)), NEW o \in Adds(Head(t))
      PROVE  \E s \in ToSet(Tail(t)) : s.do = "record" /\ o \in Objects(s.what)
  BY <1>1, <1>3, TailIs DEF ToSet
<1>4. Makes(Head(t)) => Tail(t) # << >>
  BY <1>3, TailIs, Changes, Short
<1> QED BY <1>2, <1>3, <1>4

\* The rest of what reverts a migration drops later things first.
LEMMA TailUnbuilt ==
  ASSUME NEW t \in Seq(Statements), t # << >>, NEW X, NEW Y, Y \subseteq X,
         \A o \in Y : Earlier(o) # {} => o \notin Removes(Head(t)), Unbuilt(t, X)
  PROVE  /\ Unbuilt(Tail(t), Y)
         /\ \A o \in X : Earlier(o) \cap Removes(Head(t)) # {} => o \in Removes(Head(t))
<1>1. ASSUME NEW i \in DOMAIN Tail(t), NEW o \in Y, Earlier(o) \cap Removes(Tail(t)[i]) # {}
      PROVE  \E j \in 1..i : o \in Removes(Tail(t)[j])
  <2>1. i \in Nat /\ i >= 1 /\ i + 1 \in DOMAIN t /\ Tail(t)[i] = t[i + 1] /\ Head(t) = t[1]
    BY TailIs
  <2>2. PICK j \in 1..(i + 1) : o \in Removes(t[j])
    BY <1>1, <2>1 DEF Unbuilt
  <2>3. j # 1
    BY <1>1, <2>1, <2>2
  <2>4. DOMAIN t = 1..Len(t) /\ Len(t) \in Nat
    OBVIOUS
  <2>5. j \in DOMAIN t
    BY <2>1, <2>2, <2>4
  <2>6. j - 1 \in DOMAIN Tail(t) /\ Tail(t)[j - 1] = t[j]
    BY <2>3, <2>5, TailIs
  <2>7. j - 1 \in 1..i
    BY <2>1, <2>2, <2>3
  <2> QED BY <2>2, <2>6, <2>7
<1>2. ASSUME NEW o \in X, Earlier(o) \cap Removes(Head(t)) # {}
      PROVE  o \in Removes(Head(t))
  <2>1. 1 \in DOMAIN t /\ Head(t) = t[1]
    BY TailIs
  <2>2. PICK j \in 1..1 : o \in Removes(t[j])
    BY <1>2, <2>1 DEF Unbuilt
  <2> QED BY <2>1, <2>2
<1> QED BY <1>1, <1>2 DEF Unbuilt

-----------------------------------------------------------------------------
(***************************************************************************)
(* The steps of a container's run.                                         *)
(***************************************************************************)
\* What a container adds comes with what is made before it.
LEMMA AddedChained ==
  ASSUME NEW s \in Statements, Makes(s) \/ s.do = "record",
         NEW X, Requires(s) \subseteq X, Chained(X), Whole(X)
  PROVE  Chained(X \cup Adds(s)) /\ Whole(X \cup Adds(s))
<1>1. \A o \in Adds(s) : Earlier(o) \subseteq X \cup Adds(s)
  <2>1. CASE s.do = "table"
    <3>1. PICK t : s = Table(t)
      BY <2>1, StatementKinds
    <3>2. Requires(s) = Earlier(t) /\ Adds(s) = {t} \cup Columns(t)
      BY <3>1, StatementsAre
    <3>3. \A o \in Columns(t) : Earlier(o) \subseteq {t}
      BY EarlierAre DEF Columns
    <3> QED BY <3>2, <3>3
  <2>2. CASE s.do = "index"
    <3>1. PICK i : s = Index(i)
      BY <2>2, StatementKinds
    <3> QED BY <3>1, StatementsAre
  <2>3. CASE s.do = "column"
    <3>1. PICK c : s = Column(c)
      BY <2>3, StatementKinds
    <3> QED BY <3>1, StatementsAre
  <2>4. CASE s.do = "row"
    <3>1. Adds(s) = {s.what} /\ s.what \in AdminRows
      BY <2>4, StatementKinds, StatementsAre
    <3> QED BY <3>1, EarlierAre DEF AdminRows
  <2>5. CASE s.do = "record"
    <3>1. Adds(s) = {s.what} /\ s.what \in Known
      BY <2>5, StatementKinds, Changes
    <3> QED BY <3>1, EarlierAre, KnownIs
  <2> QED BY <2>1, <2>2, <2>3, <2>4, <2>5, StatementKinds DEF Makes
<1>2. \A m \in Known \cap Adds(s) : Recorded(m) \subseteq X
  <2>1. CASE Makes(s)
    BY <2>1, Changes
  <2>2. CASE s.do = "record"
    <3>1. s = Record(s.what) /\ s.what \in Known
      BY <2>2, StatementKinds
    <3>2. Requires(s) = Recorded(s.what) /\ Adds(s) = {s.what}
      BY <3>1, StatementsAre
    <3> QED BY <3>2
  <2> QED BY <2>1, <2>2
<1>3. Chained(X \cup Adds(s))
  BY <1>1 DEF Chained
<1> QED BY <1>2, <1>3 DEF Whole

\* A container that runs a statement has what it needs, and goes on.
LEMMA ForwardExecute ==
  ASSUME BootTypeOK, NEW c \in Container, Execute(c), Forward(c)
  PROVE  /\ Forward(c)' /\ Migrating(c)' /\ db \subseteq db'
         /\ Makes(NextOf(c)) \/ NextOf(c).do = "record"
         /\ Requires(NextOf(c)) \subseteq View(c)
         /\ View(c)' = View(c) \cup Adds(NextOf(c))
         /\ Whole(View(c)') /\ Chained(View(c)')
<1> DEFINE s == NextOf(c)
           t == run[c].todo
           X == View(c)
<1>1. /\ c \in Process /\ t \in Seq(Statements) /\ t # << >> /\ s = Head(t)
      /\ s \in Statements /\ s \in ToSet(t)
  BY ExecuteIs DEF Process, Runs, NextOf
<1>2. /\ run[c].del = {} /\ (\A a \in ToSet(t) : Makes(a) \/ a.do = "record")
      /\ (run[c].closed => ~transactional /\ run[c].add = {})
      /\ Whole(X) /\ Chained(X)
      /\ Prepared(t, X) /\ Sufficient(t, X) /\ Ordered(t) /\ Followed(t)
      /\ (transactional => Owned(X, Covers(c)))
  BY DEF Forward
<1>3. /\ run' = [run EXCEPT ![c] = run'[c]] /\ run'[c] \in Runs
      /\ run'[c].todo = Tail(t) /\ transactional' = transactional
      /\ View(c)' = (X \ Removes(s)) \cup Adds(s)
      /\ \/ /\ ~transactional
            /\ db' = (X \ Removes(s)) \cup Adds(s)
            /\ run'[c].closed = TRUE /\ run'[c].add = {} /\ run'[c].del = {}
         \/ /\ transactional \/ ~(run[c].closed \/ Ddl(s))
            /\ db' = db /\ run'[c].closed = run[c].closed
            /\ run'[c].add = (run[c].add \ Removes(s)) \cup Adds(s)
            /\ run'[c].del = (run[c].del \ Adds(s)) \cup Removes(s)
  BY <1>1, ExecuteIs
<1>4. X = db \cup run[c].add
  BY <1>2 DEF View
<1> HIDE DEF s, t, X
<1>5. Makes(s) \/ s.do = "record"
  BY <1>1, <1>2
<1>6. Removes(s) = {} /\ s.what \in Adds(s)
  BY <1>1, <1>5, Changes
<1>7. Requires(s) \subseteq X
  BY <1>1, <1>2, HeadPrepared
<1>8. Chained(X \cup Adds(s)) /\ Whole(X \cup Adds(s))
  BY <1>1, <1>2, <1>5, <1>7, AddedChained
<1>9. View(c)' = X \cup Adds(s) /\ db \subseteq db' /\ run'[c].del = {}
      /\ (run'[c].closed => ~transactional' /\ run'[c].add = {})
  <2>1. CASE run'[c].closed = TRUE /\ run'[c].add = {} /\ run'[c].del = {} /\ ~transactional
               /\ db' = (X \ Removes(s)) \cup Adds(s)
    BY <1>3, <1>4, <1>6, <2>1
  <2>2. CASE /\ transactional \/ ~(run[c].closed \/ Ddl(s))
             /\ db' = db /\ run'[c].closed = run[c].closed
             /\ run'[c].add = (run[c].add \ Removes(s)) \cup Adds(s)
             /\ run'[c].del = (run[c].del \ Adds(s)) \cup Removes(s)
    BY <1>2, <1>3, <1>6, <2>2
  <2> QED BY <1>3, <2>1, <2>2
<1>10. Tail(t) \in Seq(Statements) /\ ToSet(t) = {s} \cup ToSet(Tail(t))
  BY <1>1, TailIs
<1>11. Prepared(Tail(t), X \cup Adds(s))
  BY <1>1, <1>2, <1>6, TailPrepared
<1>12. Sufficient(Tail(t), X \cup Adds(s))
  BY <1>1, <1>2, <1>6, TailSufficient
<1>13. Ordered(Tail(t)) /\ Followed(Tail(t))
  BY <1>1, <1>2, TailOrdered, TailFollowed
<1>14. transactional' => Owned(View(c)', Covers(c)')
  <2> SUFFICES ASSUME transactional, NEW o \in X \cup Adds(s), o \notin Known, o \notin AdminRows
               PROVE  \E m \in Covers(c)' : o \in Objects(m)
    BY <1>3, <1>9 DEF Owned
  <2>1. ASSUME NEW m \in Covers(c)
        PROVE  m \in Covers(c)'
    <3>1. CASE m \in X
      BY <1>9, <2>1, <3>1 DEF Covers
    <3>2. CASE Record(m) \in ToSet(Tail(t))
      BY <1>3, <2>1, <3>2 DEF Covers
    <3>3. CASE Record(m) = s
      BY <1>6, <1>9, <2>1, <3>3, StatementsAre DEF Covers
    <3> QED BY <1>10, <2>1, <3>1, <3>2, <3>3 DEF Covers, t, X
  <2>2. CASE o \in X
    BY <1>2, <2>1, <2>2 DEF Owned
  <2>3. CASE o \in Adds(s) /\ Makes(s)
    <3>1. PICK a \in ToSet(Tail(t)) : a.do = "record" /\ o \in Objects(a.what)
      BY <1>1, <1>2, <2>3, TailFollowed
    <3>2. a = Record(a.what) /\ a.what \in Known
      <4>1. a \in Statements
        BY <1>10, <3>1 DEF ToSet
      <4> QED BY <3>1, <4>1, StatementKinds
    <3> QED BY <1>3, <3>1, <3>2 DEF Covers
  <2>4. CASE o \in Adds(s) /\ s.do = "record"
    BY <1>1, <2>4, Changes, StatementKinds
  <2> QED BY <1>5, <2>2, <2>3, <2>4
<1>15. Forward(c)'
  <2>1. \A a \in ToSet(run'[c].todo) : Makes(a) \/ a.do = "record"
    BY <1>2, <1>3, <1>10
  <2>2. Prepared(run'[c].todo, View(c)') /\ Sufficient(run'[c].todo, View(c)')
        /\ Ordered(run'[c].todo) /\ Followed(run'[c].todo)
    BY <1>3, <1>9, <1>11, <1>12, <1>13
  <2>3. Whole(View(c)') /\ Chained(View(c)')
    BY <1>8, <1>9
  <2> QED BY <1>9, <1>14, <2>1, <2>2, <2>3 DEF Forward
<1>16. Migrating(c)'
  <2>1. run'[c].closed = TRUE \/ s.what \in run'[c].add
    BY <1>3, <1>6
  <2> QED BY <2>1, RunTypes DEF Migrating
<1> QED BY <1>5, <1>7, <1>8, <1>9, <1>15, <1>16 DEF s, X

\* A container that looks first sees what it decides on, and goes on.
LEMMA ForwardCheck ==
  ASSUME BootTypeOK, NEW c \in Container, Check(c), Forward(c)
  PROVE  /\ Forward(c)' /\ Migrating(c)' /\ View(c)' = View(c)
         /\ Makes(NextOf(c))
<1> DEFINE s == NextOf(c)
           t == run[c].todo
           X == View(c)
<1>1. /\ c \in Process /\ t \in Seq(Statements) /\ t # << >> /\ s = Head(t)
      /\ s \in Statements /\ s \in ToSet(t) /\ s.do \in {"table", "column", "row", "drop"}
  BY CheckIs DEF Process, Runs, NextOf
<1>2. /\ run[c].del = {} /\ (\A a \in ToSet(t) : Makes(a) \/ a.do = "record")
      /\ (run[c].closed => ~transactional /\ run[c].add = {})
      /\ Whole(X) /\ Chained(X)
      /\ Prepared(t, X) /\ Sufficient(t, X) /\ Ordered(t) /\ Followed(t)
      /\ (transactional => Owned(X, Covers(c)))
  BY DEF Forward
<1>3. /\ run'[c].closed = run[c].closed /\ run'[c].add = run[c].add /\ run'[c].del = run[c].del
      /\ \/ Skips(c, s) /\ run'[c].todo = Tail(t)
         \/ run'[c].todo = t /\ run'[c].looked = TRUE
      /\ db' = db /\ transactional' = transactional
  BY <1>1, CheckIs
<1>4. View(c)' = X
  BY <1>3 DEF View
<1>5. Makes(s)
  BY <1>1, <1>2 DEF Makes
<1>6. Skips(c, s) => s.what \in X
  BY <1>5 DEF Makes, Skips
<1> HIDE DEF s, t, X
<1>7. CASE run'[c].todo = t /\ run'[c].looked = TRUE
  <2>1. Covers(c)' = Covers(c)
    BY <1>4, <1>7 DEF Covers, t, X
  <2>2. Forward(c)'
    BY <1>2, <1>3, <1>4, <1>7, <2>1 DEF Forward
  <2>3. Migrating(c)'
    BY <1>7, RunTypes DEF Migrating
  <2> QED BY <1>4, <1>5, <2>2, <2>3 DEF s, X
<1>8. CASE Skips(c, s) /\ run'[c].todo = Tail(t)
  <2>1. Tail(t) \in Seq(Statements) /\ ToSet(t) = {s} \cup ToSet(Tail(t))
    BY <1>1, TailIs
  <2>2. Prepared(Tail(t), X) /\ Sufficient(Tail(t), X)
    BY <1>1, <1>2, <1>6, <1>8, TailPrepared, TailSufficient
  <2>3. Ordered(Tail(t)) /\ Followed(Tail(t)) /\ Tail(t) # << >>
    BY <1>1, <1>2, <1>5, TailOrdered, TailFollowed
  <2>4. Covers(c)' = Covers(c)
    <3>1. \A m \in Known : Record(m) \in ToSet(Tail(t)) <=> Record(m) \in ToSet(t)
      BY <1>5, <2>1, StatementsAre
    <3> QED BY <1>4, <1>8, <3>1 DEF Covers, t, X
  <2>5. Forward(c)'
    BY <1>2, <1>3, <1>4, <1>8, <2>1, <2>2, <2>3, <2>4 DEF Forward
  <2>6. Migrating(c)'
    BY <1>8, <2>3, RunTypes DEF Migrating
  <2> QED BY <1>4, <1>5, <2>5, <2>6 DEF s, X
<1> QED BY <1>3, <1>7, <1>8

\* Runs of others do not disturb it.
LEMMA ForwardKept ==
  ASSUME NEW c \in Container, Forward(c), run'[c] = run[c], transactional' = transactional,
         db \subseteq db', Whole(db'), Chained(db'), transactional => Owned(db', Known \cap db')
  PROVE  Forward(c)' /\ View(c) \subseteq View(c)' /\ View(c)' = View(c) \cup db'
<1>1. run[c].del = {} /\ View(c) = db \cup run[c].add /\ View(c)' = View(c) \cup db'
  BY DEF Forward, View
<1>2. Whole(View(c)') /\ Chained(View(c)')
  BY <1>1 DEF Forward, Whole, Chained
<1>3. Prepared(run[c].todo, View(c)') /\ Sufficient(run[c].todo, View(c)')
  BY <1>1 DEF Forward, Prepared, Sufficient
<1>4. \A m \in Known : m \in Covers(c) \/ m \in db' => m \in Covers(c)'
  BY <1>1 DEF Covers
<1>5. transactional => Owned(View(c)', Covers(c)')
  <2> SUFFICES ASSUME transactional, NEW o \in View(c)', o \notin Known, o \notin AdminRows
               PROVE  \E m \in Covers(c)' : o \in Objects(m)
    BY DEF Owned
  <2>1. CASE o \in db'
    <3>1. PICK m \in Known \cap db' : o \in Objects(m)
      BY <2>1 DEF Owned
    <3> QED BY <1>4, <3>1
  <2>2. CASE o \in View(c)
    <3>1. PICK m \in Covers(c) : o \in Objects(m)
      BY <2>2 DEF Owned, Forward
    <3> QED BY <1>4, <3>1 DEF Covers
  <2> QED BY <1>1, <2>1, <2>2
<1> QED BY <1>1, <1>2, <1>3, <1>5 DEF Forward

\* What the migrations are there for, apart.
LEMMA ObjectsApart ==
  /\ \A m, n \in Known : m # n => Objects(m) \cap Objects(n) = {}
  /\ \A m \in Known : Objects(m) # {} /\ Objects(m) \cap Known = {}
  /\ Objects("AddAdminUser") = AdminRows
  /\ Indexes1 \subseteq Objects("InitialSchema") /\ Indexes1 \cap Known = {}
  /\ AdminRows \cap Indexes1 = {} /\ AdminRows \cap Known = {}
  BY KnownIs, ObjectsAre DEF Tables1, Indexes1, AdminRows

\* A complete schema is owned by its migrations.
LEMMA GoalOwned ==
  ASSUME NEW X \in SUBSET Facts, Goal \subseteq X
  PROVE  Owned(X, Known \cap X)
<1>1. ASSUME NEW o \in X, o \notin Known, o \notin AdminRows
      PROVE  \E m \in Known \cap X : o \in Objects(m)
  <2>1. PICK m \in Known : o \in Objects(m)
    BY <1>1 DEF Facts
  <2>2. m # "AddAdminUser"
    BY <1>1, <2>1, ObjectsAre
  <2> QED BY <2>1, <2>2 DEF Goal
<1> QED BY <1>1 DEF Owned

\* When its next statement inserts a row, a run has everything else behind it.
LEMMA AtRows ==
  ASSUME BootTypeOK, NEW c \in Container, Forward(c), run[c].todo # << >>,
         NextOf(c).do = "row"
  PROVE  Goal \subseteq View(c)
<1> DEFINE t == run[c].todo
<1>1. t \in Seq(Statements) /\ NextOf(c) = Head(t) /\ Ordered(t) /\ Sufficient(t, View(c))
  BY DEF BootTypeOK, Process, Runs, NextOf, Forward
<1> HIDE DEF t
<1>2. t # << >>
  BY DEF t
<1>3. Head(t) \in Statements /\ \A s \in ToSet(t) : s \in Statements
  BY <1>1, <1>2, TailIs DEF ToSet
<1>4. \A s \in ToSet(Tail(t)) : s.do = "row" \/ s = Record("AddAdminUser")
  BY <1>1, <1>2, TailOrdered
<1>5. \A s \in ToSet(t) : s.what \in AdminRows \cup {"AddAdminUser"}
  <2> SUFFICES ASSUME NEW s \in ToSet(t) PROVE s.what \in AdminRows \cup {"AddAdminUser"}
    OBVIOUS
  <2>1. s.do = "row" \/ s = Record("AddAdminUser")
    BY <1>1, <1>2, <1>4, TailIs
  <2> QED BY <1>3, <2>1, StatementKinds, StatementsAre
<1>6. ASSUME NEW m \in Goal, m \notin View(c)
      PROVE  FALSE
  <2>1. PICK i \in DOMAIN t : t[i].what = m
    BY <1>1, <1>6 DEF Sufficient, Goal
  <2>2. m \in AdminRows \cup {"AddAdminUser"}
    BY <1>5, <2>1 DEF ToSet
  <2> QED BY <1>6, <2>2, ObjectsApart DEF Goal
<1> QED BY <1>6

\* An index that has not been made; a statement that makes something.
LEMMA IndexIs ==
  ASSUME NEW a \in Statements, a.do = "index"
  PROVE  a.what \in Indexes1 /\ a.what \notin Known /\ a.what \notin AdminRows /\ a.what \notin Earlier(a.what)
<1>1. a.what \in Indexes1
  BY StatementKinds
<1> QED BY <1>1, ObjectsApart, EarlierAre DEF Indexes1

\* A statement before an index does not make that index.
LEMMA MadeAnew ==
  ASSUME NEW s \in Statements, Makes(s), NEW a \in Statements, a.do = "index",
         s.what \in Earlier(a.what)
  PROVE  a.what \notin Adds(s)
<1>1. a.what \in Indexes1 /\ a.what # s.what
  BY IndexIs
<1>2. \A x : Columns(x) \cap Indexes1 = {}
  BY DEF Columns, Indexes1
<1>3. CASE s.do = "table"
  <2>1. s = Table(s.what)
    BY <1>3, StatementKinds
  <2>2. Adds(s) = {s.what} \cup Columns(s.what)
    BY <2>1, StatementsAre
  <2> QED BY <1>1, <1>2, <2>2
<1>4. CASE s.do # "table"
  <2>1. Adds(s) = {s.what}
    BY <1>4 DEF Makes, Adds
  <2> QED BY <1>1, <2>1
<1> QED BY <1>3, <1>4

-----------------------------------------------------------------------------
(***************************************************************************)
(* The container that is ahead.                                            *)
(***************************************************************************)
\* The one ahead stays ahead as others add to the database.
LEMMA AheadKept ==
  ASSUME BootTypeOK, NEW c \in Container, Ahead(c), run'[c] = run[c],
         transactional' = transactional, View(c)' \ View(c) \subseteq Known \cup AdminRows,
         \A r \in AdminRows : r \in View(c)' \ View(c) => ~(run[c].looked /\ NextOf(c).what = r)
  PROVE  Ahead(c)'
<1>1. /\ c \in Process /\ run[c] \in Runs /\ run[c].todo \in Seq(Statements)
      /\ \A s \in ToSet(run[c].todo) : s \in Statements
  BY DEF Process, BootTypeOK, Runs, ToSet
<1>2. Migrating(c)' /\ NextOf(c)' = NextOf(c)
  BY DEF Ahead, Migrating, NextOf
<1>3. \A s \in ToSet(run[c].todo) : s.do = "index" => s.what \notin View(c)'
  BY <1>1, IndexIs DEF Ahead
<1>4. run[c].looked => NextOf(c).what \notin View(c)'
  <2> SUFFICES ASSUME run[c].looked PROVE NextOf(c).what \notin View(c)'
    OBVIOUS
  <2>1. run[c].todo # << >> /\ Makes(NextOf(c)) /\ NextOf(c).what \notin View(c)
    BY DEF Ahead
  <2>2. NextOf(c) \in Statements
    BY <1>1, <2>1, TailIs DEF NextOf
  <2>3. NextOf(c).what \notin Known
    BY <2>1, <2>2, Changes
  <2> QED BY <2>1, <2>3
<1>5. \A m \in Known \ {"AddAdminUser"} :
         Objects(m) \cap View(c) = {} => Objects(m) \cap View(c)' = {}
  <2>1. \A m \in Known \ {"AddAdminUser"} : Objects(m) \cap (Known \cup AdminRows) = {}
    BY ObjectsApart, KnownIs
  <2> QED BY <2>1
<1> QED BY <1>2, <1>3, <1>4, <1>5 DEF Ahead

\* The one ahead stays ahead as it runs a statement; one that has run a statement
\* of its own without a transaction is ahead.
LEMMA AheadExecute ==
  ASSUME BootTypeOK, NEW c \in Container, Execute(c), Forward(c),
         Ahead(c) \/ (Makes(NextOf(c)) /\ run'[c].closed)
  PROVE  Ahead(c)'
<1> DEFINE s == NextOf(c)
           t == run[c].todo
           X == View(c)
<1>1. /\ c \in Process /\ t \in Seq(Statements) /\ t # << >> /\ s = Head(t)
      /\ s \in Statements /\ s \in ToSet(t) /\ ~Refused(c, s)
  BY ExecuteIs DEF Process, Runs, NextOf
<1>2. /\ Migrating(c)' /\ (Makes(s) \/ s.do = "record") /\ Requires(s) \subseteq X
      /\ View(c)' = X \cup Adds(s)
  BY ForwardExecute
<1>3. /\ run'[c].todo = Tail(t) /\ transactional' = transactional /\ run'[c].looked = FALSE
      /\ \/ /\ ~transactional /\ run'[c].closed = TRUE
         \/ /\ transactional \/ ~(run[c].closed \/ Ddl(s))
            /\ run'[c].closed = run[c].closed
            /\ run'[c].add = (run[c].add \ Removes(s)) \cup Adds(s)
  BY <1>1, ExecuteIs
<1>4. ToSet(t) = {s} \cup ToSet(Tail(t)) /\ \A a \in ToSet(t) : a \in Statements
  <2>1. \A a \in ToSet(t) : a \in Statements
    BY <1>1 DEF ToSet
  <2> QED BY <1>1, <2>1, TailIs
<1>5. Chained(X) /\ Ordered(t)
  BY DEF Forward
<1>6. \A a \in ToSet(Tail(t)) : a.do = "index" => s.what \in Earlier(a.what)
  BY <1>1, <1>5, TailOrdered
<1>7. Makes(s) /\ s.what # "setting" => s.what \notin X
  BY <1>1 DEF Refused, Unique, Makes
<1>8. Ahead(c) \/ (Makes(s) /\ run'[c].closed)
  OBVIOUS
<1>9. Ahead(c) => /\ \A a \in ToSet(t) : a.do = "index" => a.what \notin X
                  /\ ~transactional /\ ~run[c].closed =>
                        /\ run[c].add \cap Known \subseteq {"AddAdminUser"}
                        /\ \A m \in Known \ {"AddAdminUser"} :
                              Record(m) \in ToSet(t) => Objects(m) \cap X = {}
  BY DEF Ahead
<1> HIDE DEF s, t, X
<1>10. ASSUME NEW a \in ToSet(Tail(t)), a.do = "index"
       PROVE  a.what \notin View(c)'
  <2>1. a \in Statements /\ s.what \in Earlier(a.what)
    BY <1>4, <1>6, <1>10
  <2>2. CASE Makes(s)
    <3>1. a.what \notin X
      <4>1. s.what # "setting"
        BY <2>1, EarlierAre
      <4> QED BY <1>5, <1>7, <2>1, <2>2, <4>1 DEF Chained
    <3> QED BY <1>1, <1>2, <1>10, <2>1, <2>2, <3>1, MadeAnew
  <2>3. CASE s.do = "record"
    <3>1. ~Makes(s)
      BY <2>3 DEF Makes
    <3>2. a.what \notin X
      BY <1>4, <1>8, <1>9, <1>10, <3>1
    <3>3. Adds(s) = {s.what} /\ s.what \in Known
      BY <1>1, <2>3, Changes, StatementKinds
    <3> QED BY <1>2, <1>10, <2>1, <3>2, <3>3, IndexIs
  <2> QED BY <1>2, <2>2, <2>3
<1>11. ASSUME ~transactional, ~run'[c].closed
       PROVE  /\ run'[c].add \cap Known \subseteq {"AddAdminUser"}
              /\ \A m \in Known \ {"AddAdminUser"} :
                    Record(m) \in ToSet(Tail(t)) => Objects(m) \cap View(c)' = {}
  <2>1. Ahead(c) /\ ~run[c].closed /\ ~Ddl(s)
        /\ run'[c].add = (run[c].add \ Removes(s)) \cup Adds(s)
    BY <1>3, <1>8, <1>11
  <2>2. /\ run[c].add \cap Known \subseteq {"AddAdminUser"}
        /\ \A m \in Known \ {"AddAdminUser"} : Record(m) \in ToSet(t) => Objects(m) \cap X = {}
    BY <1>9, <1>11, <2>1
  <2>3. Adds(s) \subseteq AdminRows \cup {"AddAdminUser"}
    <3>1. CASE Makes(s)
      <4>1. s.do = "row"
        BY <2>1, <3>1 DEF Makes, Ddl
      <4> QED BY <1>1, <4>1, StatementKinds, StatementsAre
    <3>2. CASE s.do = "record"
      <4>1. s = Record(s.what) /\ s.what \in Known /\ Adds(s) = {s.what}
        BY <1>1, <3>2, StatementKinds, Changes
      <4>2. Objects(s.what) \subseteq X
        BY <1>2, <4>1, StatementsAre DEF Recorded
      <4>3. s.what = "AddAdminUser"
        BY <1>4, <2>2, <4>1, <4>2, ObjectsApart
      <4> QED BY <4>1, <4>3
    <3> QED BY <1>2, <3>1, <3>2
  <2>4. \A m \in Known \ {"AddAdminUser"} : Objects(m) \cap (AdminRows \cup {"AddAdminUser"}) = {}
    BY ObjectsApart, KnownIs
  <2>5. AdminRows \cap Known = {}
    BY ObjectsApart
  <2>6. \A m \in Known \ {"AddAdminUser"} :
           Record(m) \in ToSet(Tail(t)) => Objects(m) \cap View(c)' = {}
    BY <1>2, <1>4, <2>2, <2>3, <2>4
  <2> QED BY <2>1, <2>2, <2>3, <2>5, <2>6
<1> QED BY <1>2, <1>3, <1>10, <1>11 DEF Ahead

\* The one ahead stays ahead as it looks.
LEMMA AheadCheck ==
  ASSUME BootTypeOK, NEW c \in Container, Check(c), Forward(c), Ahead(c)
  PROVE  Ahead(c)'
<1>1. /\ Migrating(c)' /\ View(c)' = View(c) /\ Makes(NextOf(c))
  BY ForwardCheck
<1>2. /\ c \in Process /\ run[c].todo \in Seq(Statements) /\ run[c].todo # << >>
      /\ NextOf(c).do \in {"table", "column", "row", "drop"}
      /\ run'[c].closed = run[c].closed /\ run'[c].add = run[c].add
      /\ \/ run'[c].todo = Tail(run[c].todo) /\ run'[c].looked = FALSE
         \/ /\ ~Skips(c, NextOf(c)) /\ run'[c].todo = run[c].todo /\ run'[c].looked = TRUE
      /\ transactional' = transactional
  BY CheckIs DEF Process, Runs
<1>3. ToSet(Tail(run[c].todo)) \subseteq ToSet(run[c].todo)
  BY <1>2, TailIs
<1>4. CASE run'[c].todo = Tail(run[c].todo) /\ run'[c].looked = FALSE
  BY <1>1, <1>2, <1>3, <1>4 DEF Ahead
<1>5. CASE ~Skips(c, NextOf(c)) /\ run'[c].todo = run[c].todo /\ run'[c].looked = TRUE
  <2>1. NextOf(c).what \notin View(c)
    BY <1>1, <1>2, <1>5 DEF Skips, Makes
  <2>2. NextOf(c)' = NextOf(c)
    BY <1>5 DEF NextOf
  <2> QED BY <1>1, <1>2, <1>5, <2>1, <2>2 DEF Ahead
<1> QED BY <1>2, <1>4, <1>5

\* The one ahead is never refused.
LEMMA AheadWorks ==
  ASSUME BootTypeOK, NEW c \in Container, Forward(c), Ahead(c)
  PROVE  ~Broken(c)
<1> DEFINE s == NextOf(c)
<1> SUFFICES ASSUME run[c].todo # << >>
             PROVE  /\ ~(Ready(c) /\ Refused(c, s))
                    /\ ~Unreadable(c, s)
  BY DEF Broken, Ready
<1>1. /\ c \in Process /\ run[c] \in Runs /\ run[c].todo \in Seq(Statements) /\ s = Head(run[c].todo)
      /\ run[c].looked \in BOOLEAN
  BY DEF Process, BootTypeOK, Runs, NextOf
<1>2. s \in Statements /\ s \in ToSet(run[c].todo)
  BY <1>1, TailIs
<1>3. Requires(s) \subseteq View(c)
  BY <1>1, HeadPrepared DEF Forward
<1>4. db \subseteq View(c)
  BY DEF Forward, View
<1>5. s.do = "row" => Needs(s.what) \subseteq View(c) /\ TableOf[s.what] \in View(c)
  BY <1>3 DEF Requires, Needs
<1>6. s.do \in {"index", "column"} => TableOf[s.what] \in View(c)
  <2>1. s.do = "index" => TableOf[s.what] \in Earlier(s.what)
    <3>1. s.do = "index" => s.what \in {"users__", "roles__", "permissions__"}
      BY <1>2, StatementKinds DEF Indexes1
    <3> QED BY <3>1, EarlierAre DEF TableOf
  <2>2. s.do = "column" => TableOf[s.what] \in Earlier(s.what)
    <3>1. s.do = "column" => s.what \in {"guard_name", "favicon"}
      BY <1>2, StatementKinds
    <3> QED BY <3>1, EarlierAre DEF TableOf
  <2> QED BY <1>3, <2>1, <2>2 DEF Requires
<1>7. ASSUME Ready(c), s.do \in {"table", "index", "column", "row"}
      PROVE  s.what \notin View(c)
  <2>1. CASE s.do = "index"
    BY <1>2, <2>1 DEF Ahead
  <2>2. CASE s.do # "index"
    <3>1. run[c].looked
      BY <1>7, <2>2 DEF Ready
    <3> QED BY <3>1 DEF Ahead
  <2> QED BY <2>1, <2>2
<1> QED BY <1>4, <1>5, <1>6, <1>7 DEF Refused, Unique, Unreadable

-----------------------------------------------------------------------------
(***************************************************************************)
(* The steps.                                                              *)
(***************************************************************************)

\* Others than p go on.
LEMMA OthersKept ==
  ASSUME RunInv, NEW p, \A q \in Container \ {p} : run'[q] = run[q],
         transactional' = transactional,
         db \subseteq db', Whole(db'), Chained(db'), transactional => Owned(db', Known \cap db')
  PROVE  \A q \in Container \ {p} :
            Migrating(q)' => Migrating(q) /\ Forward(q)' /\ View(q)' = View(q) \cup db'
<1> SUFFICES ASSUME NEW q \in Container, q # p, Migrating(q)'
             PROVE  Migrating(q) /\ Forward(q)' /\ View(q)' = View(q) \cup db'
  OBVIOUS
<1>1. Migrating(q) /\ Forward(q)
  BY DEF Migrating, RunInv
<1> QED BY <1>1, ForwardKept

\* What the invariant says when a container has its turn.
LEMMA Turn ==
  ASSUME BootTypeOK, DbInv, RunInv, NEW c \in Container, Migrating(c)
  PROVE  /\ Forward(c) /\ ~Migrating(Operator) /\ Operator \in Process /\ Operator # c
         /\ Chained(db) /\ Whole(db) /\ c \in Process
         /\ (transactional => Owned(db, Known \cap db) /\ Settled(db))
  BY BootAssumption DEF RunInv, DbInv, Process

\* A container runs a statement: what it commits the others find or are refused.
LEMMA ContainerExecute ==
  ASSUME BootTypeOK, DbInv, RunInv, RaceInv, NEW c \in Container, Execute(c)
  PROVE  DbInv' /\ RunInv' /\ RaceInv'
<1>1. /\ c \in Process /\ Migrating(c) /\ run \in [Process -> Runs]
      /\ run' = [run EXCEPT ![c] = run'[c]]
      /\ transactional' = transactional /\ harmed' = harmed /\ racing' = racing
      /\ \/ ~transactional /\ db' = View(c)' /\ run'[c].closed = TRUE
            /\ (run[c].closed \/ Ddl(NextOf(c)))
         \/ (transactional \/ ~(run[c].closed \/ Ddl(NextOf(c)))) /\ db' = db
  BY ExecuteIs DEF Process, BootTypeOK, history
<1>2. /\ Forward(c) /\ ~Migrating(Operator) /\ Operator \in Process /\ Operator # c
      /\ Chained(db) /\ Whole(db)
      /\ (transactional => Owned(db, Known \cap db) /\ Settled(db))
  BY <1>1, Turn
<1>3. /\ Forward(c)' /\ Migrating(c)' /\ db \subseteq db'
      /\ (Makes(NextOf(c)) \/ NextOf(c).do = "record")
      /\ Whole(View(c)') /\ Chained(View(c)')
      /\ View(c)' = View(c) \cup Adds(NextOf(c))
  BY ForwardExecute, <1>2
<1>4. /\ Chained(db') /\ Whole(db')
      /\ transactional => db' = db /\ Owned(db', Known \cap db') /\ Settled(db')
  BY <1>1, <1>2, <1>3
<1>5. /\ \A q \in Container \ {c} : run'[q] = run[q]
      /\ run'[Operator] = run[Operator] /\ ~Migrating(Operator)'
  BY <1>1, <1>2 DEF Process, Migrating
<1>6. \A q \in Container \ {c} : Migrating(q)' =>
         Migrating(q) /\ Forward(q)' /\ View(q)' = View(q) \cup db'
  <2>1. transactional => Owned(db', Known \cap db')
    BY <1>4
  <2> QED BY <1>1, <1>3, <1>4, <1>5, <2>1, OthersKept
<1>7. DbInv'
  BY <1>1, <1>3, <1>4 DEF DbInv, Quiet
<1>8. RunInv'
  BY <1>3, <1>5, <1>6 DEF RunInv
<1>9. ~harmed' => \A q \in Container : Migrating(q)' => racing'
  BY <1>1, <1>6 DEF RaceInv
<1>10. ASSUME racing', transactional' \/ ~harmed'
       PROVE  Goal \subseteq db' \/ \E d \in Container : Ahead(d)'
  <2>1. Goal \subseteq db \/ \E d \in Container : Ahead(d)
    BY <1>1, <1>10 DEF RaceInv
  <2>2. CASE Goal \subseteq db
    BY <1>3, <2>2
  <2>3. CASE Makes(NextOf(c)) /\ run'[c].closed
    BY <1>2, <2>3, AheadExecute
  <2>4. CASE ~(Makes(NextOf(c)) /\ run'[c].closed) /\ \E d \in Container : Ahead(d)
    <3>1. PICK d \in Container : Ahead(d)
      BY <2>4
    <3>2. CASE d = c
      BY <1>2, <3>1, <3>2, AheadExecute
    <3>3. CASE d # c
      <4>1. db' \subseteq db \cup Known
        <5>1. CASE db' = db
          BY <5>1
        <5>2. CASE db' # db
          <6>1. /\ run'[c].closed = TRUE /\ db' = View(c) \cup Adds(NextOf(c))
                /\ (run[c].closed \/ Ddl(NextOf(c)))
            BY <1>1, <1>3, <5>2
          <6>2. NextOf(c).do = "record"
            BY <1>3, <2>4, <6>1
          <6>3. run[c].closed
            BY <6>1, <6>2 DEF Ddl
          <6>4. View(c) = db
            BY <1>2, <6>3 DEF Forward, View
          <6>5. Adds(NextOf(c)) \subseteq Known
            <7>1. NextOf(c) \in Statements
              BY <1>1, ExecuteIs
            <7>2. NextOf(c).what \in Known /\ Adds(NextOf(c)) = {NextOf(c).what}
              BY <6>2, <7>1, StatementKinds, Changes
            <7> QED BY <7>2
          <6> QED BY <6>1, <6>4, <6>5
        <5> QED BY <5>1, <5>2
      <4>2. Migrating(d)' /\ run'[d] = run[d]
        BY <1>5, <3>1, <3>3 DEF Ahead, Migrating
      <4>3. View(d)' = View(d) \cup db' /\ db \subseteq View(d)
        <5>1. Forward(d)
          BY <3>1 DEF Ahead, RunInv
        <5> QED BY <1>6, <3>3, <4>2, <5>1 DEF Forward, View
      <4>4. View(d)' \ View(d) \subseteq Known
        BY <4>1, <4>3
      <4>5. \A r \in AdminRows : r \notin View(d)' \ View(d)
        BY <4>4, ObjectsApart
      <4> QED BY <1>1, <3>1, <4>2, <4>4, <4>5, AheadKept
    <3> QED BY <3>2, <3>3
  <2> QED BY <2>1, <2>2, <2>3, <2>4
<1>11. RaceInv'
  BY <1>5, <1>9, <1>10 DEF RaceInv
<1> QED BY <1>7, <1>8, <1>11

\* A container looks whether its statement is needed.
LEMMA ContainerCheck ==
  ASSUME BootTypeOK, DbInv, RunInv, RaceInv, NEW c \in Container, Check(c)
  PROVE  DbInv' /\ RunInv' /\ RaceInv'
<1>1. /\ c \in Process /\ Migrating(c) /\ run \in [Process -> Runs]
      /\ run' = [run EXCEPT ![c] = run'[c]] /\ db' = db
      /\ transactional' = transactional /\ harmed' = harmed /\ racing' = racing
  BY CheckIs DEF Process, BootTypeOK, history
<1>2. /\ Forward(c) /\ ~Migrating(Operator) /\ Operator \in Process /\ Operator # c
      /\ Chained(db) /\ Whole(db)
      /\ (transactional => Owned(db, Known \cap db) /\ Settled(db))
  BY <1>1, Turn
<1>3. Forward(c)' /\ Migrating(c)' /\ View(c)' = View(c)
  BY ForwardCheck, <1>2
<1>4. /\ \A q \in Container \ {c} : run'[q] = run[q]
      /\ run'[Operator] = run[Operator] /\ ~Migrating(Operator)'
  BY <1>1, <1>2 DEF Process, Migrating
<1>5. \A q \in Container \ {c} : Migrating(q)' =>
         Migrating(q) /\ Forward(q)' /\ View(q)' = View(q) \cup db'
  <2>1. Whole(db') /\ Chained(db') /\ db \subseteq db' /\ (transactional => Owned(db', Known \cap db'))
    BY <1>1, <1>2
  <2> QED BY <1>1, <1>4, <2>1, OthersKept
<1>6. DbInv'
  BY <1>1, <1>2, <1>3 DEF DbInv, Quiet
<1>7. RunInv'
  BY <1>3, <1>4, <1>5 DEF RunInv
<1>8. \A d \in Container : Ahead(d) => Ahead(d)'
  <2> SUFFICES ASSUME NEW d \in Container, Ahead(d) PROVE Ahead(d)'
    OBVIOUS
  <2>1. CASE d = c
    BY <1>2, <2>1, AheadCheck
  <2>2. CASE d # c
    <3>1. run'[d] = run[d] /\ View(d)' = View(d)
      BY <1>1, <1>4, <2>2 DEF View
    <3>2. View(d)' \ View(d) = {}
      BY <3>1
    <3> QED BY <1>1, <3>1, <3>2, AheadKept
  <2> QED BY <2>1, <2>2
<1>9. RaceInv'
  BY <1>1, <1>4, <1>5, <1>8 DEF RaceInv
<1> QED BY <1>6, <1>7, <1>9

\* A container has worked off its list: the schema is complete.
LEMMA ContainerCommit ==
  ASSUME BootTypeOK, DbInv, RunInv, RaceInv, NEW c \in Container, Commit(c)
  PROVE  DbInv' /\ RunInv' /\ RaceInv'
<1>1. /\ c \in Process /\ Migrating(c) /\ run \in [Process -> Runs] /\ run[c].todo = << >>
      /\ db' = View(c) /\ Finish(c)
      /\ transactional' = transactional /\ harmed' = harmed /\ racing' = racing
  BY DEF Process, BootTypeOK, Commit, history
<1>2. /\ Forward(c) /\ ~Migrating(Operator) /\ Operator \in Process /\ Operator # c
  BY <1>1, Turn
<1>3. run'[c] = NoRun /\ \A q \in Process \ {c} : run'[q] = run[q]
  BY <1>1, FinishIs
<1>4. Chained(db') /\ Whole(db') /\ db \subseteq db'
  BY <1>1, <1>2 DEF Forward, View
<1>5. Known \subseteq db'
  <2>1. \A o \in Known \ View(c) : \E i \in {} : run[c].todo[i].what = o
    BY <1>1, <1>2, Nothing, Short DEF Forward, Sufficient
  <2> QED BY <1>1, <2>1
<1>6. Owned(db', Known \cap db') /\ Settled(db')
  <2>1. db' \in SUBSET Facts
    BY <1>1 DEF View, BootTypeOK, Runs
  <2>2. Owned(db', Known \cap db')
    BY <1>5, <2>1, GoalOwned DEF Goal
  <2>3. AdminRows \subseteq db'
    BY <1>4, <1>5, ObjectsApart, KnownIs DEF Whole, Recorded
  <2> QED BY <2>2, <2>3 DEF Settled
<1>7. ~Migrating(Operator)' /\ ~Migrating(c)'
  BY <1>2, <1>3 DEF Migrating
<1>8. \A q \in Container \ {c} : Migrating(q)' =>
         Migrating(q) /\ Forward(q)' /\ View(q)' = View(q) \cup db'
  <2>1. \A q \in Container \ {c} : run'[q] = run[q]
    BY <1>3 DEF Process
  <2> QED BY <1>1, <1>4, <1>6, <2>1, OthersKept
<1>9. DbInv'
  BY <1>4, <1>6 DEF DbInv
<1>10. RunInv'
  BY <1>7, <1>8 DEF RunInv
<1>11. RaceInv'
  BY <1>1, <1>5, <1>7, <1>8 DEF RaceInv, Goal
<1> QED BY <1>9, <1>10, <1>11

\* A run of p that is over with nothing committed.
LEMMA RunOver ==
  ASSUME BootTypeOK, DbInv, RunInv, NEW p \in Process, run' = [run EXCEPT ![p] = NoRun],
         db' = db, transactional' = transactional, p = Operator => transactional,
         harmed => harmed'
  PROVE  /\ RunInv' /\ Chained(db') /\ (transactional \/ ~Migrating(Operator)' => Whole(db'))
         /\ (transactional => Owned(db', Known \cap db') /\ Settled(db'))
         /\ \A q \in Process \ {p} : run'[q] = run[q] /\ View(q)' = View(q)
         /\ run'[p] = NoRun /\ \A q \in Process : Migrating(q)' => q # p /\ Migrating(q)
<1>1. /\ run \in [Process -> Runs] /\ Operator \in Process /\ Operator \notin Container
      /\ \A c \in Container : c \in Process
  BY BootAssumption DEF BootTypeOK, Process
<1>2. run'[p] = NoRun /\ \A q \in Process \ {p} : run'[q] = run[q] /\ View(q)' = View(q)
  BY <1>1 DEF View
<1>3. \A q \in Process : Migrating(q)' => q # p /\ Migrating(q)
  BY <1>2 DEF Migrating
<1>4. Chained(db') /\ (transactional \/ ~Migrating(Operator) => Whole(db'))
      /\ (transactional => Owned(db', Known \cap db') /\ Settled(db'))
  BY DEF DbInv
<1>5. RunInv'
  <2>1. ASSUME NEW q \in Container, Migrating(q)'
        PROVE  Forward(q)' /\ ~Migrating(Operator)'
    <3>1. Migrating(q) /\ Forward(q) /\ ~Migrating(Operator) /\ q # p
      BY <1>1, <1>3, <2>1 DEF RunInv
    <3>2. ~Migrating(Operator)'
      BY <1>1, <1>3, <3>1
    <3>3. run'[q] = run[q] /\ View(q)' = View(q) /\ Covers(q)' = Covers(q)
      BY <1>1, <1>2, <3>1 DEF Covers
    <3> QED BY <3>1, <3>2, <3>3 DEF Forward
  <2>2. ASSUME Migrating(Operator)'
        PROVE  \E m \in Known : Backward(m)'
    <3>1. Migrating(Operator) /\ p # Operator
      BY <1>1, <1>3, <2>2
    <3>2. PICK m \in Known : Backward(m)
      BY <3>1 DEF RunInv
    <3>3. Operator \in Process \ {p}
      BY <1>1, <3>1
    <3>4. run'[Operator] = run[Operator] /\ View(Operator)' = View(Operator)
      BY <1>2, <3>3
    <3>5. Others(m)' = Others(m)
      BY <3>4 DEF Others
    <3>6. transactional' \/ ~harmed' => transactional \/ ~harmed
      OBVIOUS
    <3>7. Backward(m)'
      <4>1. /\ ToSet(run'[Operator].todo) \subseteq ToSet(Undo(m))
            /\ Chained(View(Operator)') /\ Unbuilt(run'[Operator].todo, View(Operator)')
            /\ m \in View(Operator)' => Unrecord(m) \in ToSet(run'[Operator].todo)
        BY <3>2, <3>4 DEF Backward
      <4>2. \A n \in Others(m)' : /\ Recorded(n) \subseteq View(Operator)'
                                 /\ \A s \in ToSet(Undo(m)) : Removes(s) \cap Recorded(n) = {}
        BY <3>2, <3>4, <3>5 DEF Backward
      <4>3. transactional' \/ ~harmed' =>
              \A o \in View(Operator)' \ (Known \cup AdminRows) :
                 \/ \E n \in Others(m)' : o \in Objects(n)
                 \/ \E s \in ToSet(run'[Operator].todo) : o \in Removes(s)
        BY <3>2, <3>4, <3>5, <3>6 DEF Backward
      <4>4. transactional' => ("InitialSchema" \in Others(m)' => AdminRows \subseteq View(Operator)')
        BY <3>2, <3>4, <3>5 DEF Backward
      <4> QED BY <4>1, <4>2, <4>3, <4>4 DEF Backward
    <3> QED BY <3>7
  <2> QED BY <2>1, <2>2 DEF RunInv
<1>6. transactional \/ ~Migrating(Operator)' => Whole(db')
  <2>1. ~Migrating(Operator)' => ~Migrating(Operator) \/ p = Operator
    BY <1>1, <1>2 DEF Migrating
  <2> QED BY <1>4, <2>1
<1> QED BY <1>2, <1>3, <1>4, <1>5, <1>6

\* The one ahead is not disturbed where its run and its view stay.
LEMMA AheadAlone ==
  ASSUME BootTypeOK, NEW d \in Container, Ahead(d), run'[d] = run[d], View(d)' = View(d),
         transactional' = transactional
  PROVE  Ahead(d)'
<1>1. View(d)' \ View(d) = {}
  OBVIOUS
<1> QED BY <1>1, AheadKept

\* A container is refused a statement: another is ahead.
LEMMA ContainerBreak ==
  ASSUME BootTypeOK, DbInv, RunInv, RaceInv, NEW c \in Container, Break(c)
  PROVE  DbInv' /\ RunInv' /\ RaceInv'
<1>1. /\ c \in Process /\ Migrating(c) /\ Broken(c) /\ Finish(c) /\ c # Operator /\ db' = db
      /\ transactional' = transactional /\ harmed' = harmed /\ racing' = racing
  BY BootAssumption DEF Process, Break, Broken, Ready, history
<1>2. /\ Forward(c) /\ ~Migrating(Operator) /\ Operator \in Process
  BY <1>1, Turn
<1>3. /\ RunInv' /\ Chained(db') /\ (transactional \/ ~Migrating(Operator)' => Whole(db'))
      /\ (transactional => Owned(db', Known \cap db') /\ Settled(db'))
      /\ \A q \in Process \ {c} : run'[q] = run[q] /\ View(q)' = View(q)
      /\ \A q \in Process : Migrating(q)' => q # c /\ Migrating(q)
  <2>1. run' = [run EXCEPT ![c] = NoRun]
    BY <1>1, FinishIs
  <2> QED BY <1>1, <2>1, RunOver
<1>4. \A d \in Container : Ahead(d) => Ahead(d)'
  <2> SUFFICES ASSUME NEW d \in Container, Ahead(d) PROVE Ahead(d)'
    OBVIOUS
  <2>1. d # c
    BY <1>1, <1>2, AheadWorks
  <2>2. run'[d] = run[d] /\ View(d)' = View(d)
    BY <1>3, <2>1 DEF Process
  <2> QED BY <1>1, <2>2, AheadAlone
<1>5. ~Migrating(Operator)' /\ \A d \in Container : Migrating(d)' => Migrating(d)
  BY <1>2, <1>3 DEF Process
<1>6. RaceInv'
  BY <1>1, <1>4, <1>5 DEF RaceInv
<1>7. ASSUME ~harmed', Quiet'
      PROVE  Owned(db', Known \cap db')
  <2>1. racing'
    BY <1>1, <1>7 DEF RaceInv
  <2>2. \A d \in Container : ~Ahead(d)'
    BY <1>7 DEF Ahead, Quiet, Process
  <2>3. Goal \subseteq db'
    BY <1>6, <1>7, <2>1, <2>2 DEF RaceInv
  <2>4. db' \in SUBSET Facts
    BY <1>1 DEF BootTypeOK
  <2> QED BY <2>3, <2>4, GoalOwned
<1>8. DbInv'
  BY <1>1, <1>3, <1>7 DEF DbInv
<1> QED BY <1>3, <1>6, <1>8

\* A container loses its connection.
LEMMA ContainerLose ==
  ASSUME BootTypeOK, DbInv, RunInv, RaceInv, NEW c \in Container, Lose(c)
  PROVE  DbInv' /\ RunInv' /\ RaceInv'
<1>1. /\ c \in Process /\ Migrating(c) /\ Finish(c) /\ c # Operator /\ db' = db
      /\ transactional' = transactional /\ harmed' = TRUE /\ racing' = FALSE
  BY BootAssumption DEF Process, Lose
<1>2. /\ RunInv' /\ Chained(db') /\ (transactional \/ ~Migrating(Operator)' => Whole(db'))
      /\ (transactional => Owned(db', Known \cap db') /\ Settled(db'))
  <2>1. run' = [run EXCEPT ![c] = NoRun]
    BY <1>1, FinishIs
  <2> QED BY <1>1, <2>1, RunOver
<1> QED BY <1>1, <1>2 DEF DbInv, RaceInv

\* A container is stopped, in the middle of its run or not.
LEMMA ContainerStop ==
  ASSUME BootTypeOK, DbInv, RunInv, RaceInv, NEW c \in Container, StopContainer(c)
  PROVE  DbInv' /\ RunInv' /\ RaceInv'
<1>1. /\ c \in Process /\ c # Operator /\ Operator \in Process /\ db' = db
      /\ run' = [run EXCEPT ![c] = NoRun] /\ transactional' = transactional
      /\ harmed' = (harmed \/ Migrating(c)) /\ racing' = (racing /\ ~Migrating(c))
  BY BootAssumption DEF Process, StopContainer
<1>2. /\ RunInv' /\ Chained(db') /\ (transactional \/ ~Migrating(Operator)' => Whole(db'))
      /\ (transactional => Owned(db', Known \cap db') /\ Settled(db'))
      /\ \A q \in Process \ {c} : run'[q] = run[q] /\ View(q)' = View(q)
      /\ run'[c] = NoRun /\ \A q \in Process : Migrating(q)' => q # c /\ Migrating(q)
  BY <1>1, RunOver
<1>3. CASE Migrating(c)
  <2>1. harmed' = TRUE /\ racing' = FALSE
    BY <1>1, <1>3
  <2> QED BY <1>1, <1>2, <2>1 DEF DbInv, RaceInv
<1>4. CASE ~Migrating(c)
  <2>1. harmed' = harmed /\ (racing' <=> racing)
    BY <1>1, <1>4 DEF BootTypeOK
  <2>2. Quiet' => Quiet
    BY <1>2, <1>4 DEF Quiet, Migrating
  <2>3. DbInv'
    BY <1>1, <1>2, <2>1, <2>2 DEF DbInv
  <2>4. \A d \in Container : Ahead(d) => Ahead(d)'
    <3> SUFFICES ASSUME NEW d \in Container, Ahead(d) PROVE Ahead(d)'
      OBVIOUS
    <3>1. d # c
      BY <1>4 DEF Ahead
    <3>2. run'[d] = run[d] /\ View(d)' = View(d)
      BY <1>2, <3>1 DEF Process
    <3> QED BY <1>1, <3>2, AheadAlone
  <2>5. RaceInv'
    <3>1. ~harmed' => \A d \in Container : Migrating(d)' => racing'
      BY <1>2, <2>1 DEF RaceInv, Process
    <3>2. Migrating(Operator)' => ~racing'
      BY <1>1, <1>2, <2>1 DEF RaceInv
    <3>3. racing' /\ (transactional' \/ ~harmed')
            => Goal \subseteq db' \/ \E d \in Container : Ahead(d)'
      BY <1>1, <2>1, <2>4 DEF RaceInv
    <3> QED BY <3>1, <3>2, <3>3 DEF RaceInv
  <2> QED BY <1>2, <2>3, <2>5
<1> QED BY <1>3, <1>4

\* What is not recorded has left nothing, where nothing was stopped.
LEMMA Fresh ==
  ASSUME BootTypeOK, Owned(db, Known \cap db), Whole(db)
  PROVE  /\ \A s \in ToSet(Pending) : s.do = "index" => s.what \notin db
         /\ \A m \in Known \ {"AddAdminUser"} :
               Record(m) \in ToSet(Pending) => Objects(m) \cap db = {}
<1>1. ASSUME NEW m \in Known, m \notin db, NEW o \in Objects(m), o \notin AdminRows
      PROVE  o \notin db
  <2> SUFFICES ASSUME o \in db PROVE FALSE
    OBVIOUS
  <2>1. o \notin Known
    BY <1>1, ObjectsApart
  <2>2. PICK n \in Known \cap db : o \in Objects(n)
    BY <1>1, <2>1 DEF Owned
  <2> QED BY <1>1, <2>2, ObjectsApart
<1>2. ASSUME NEW s \in ToSet(Pending), s.do = "index"
      PROVE  s.what \notin db
  <2>1. PICK m \in Known \ db : s \in ToSet(Up[m]) \cup {Record(m)}
    BY PendingSet
  <2>2. s \in ToSet(Up[m])
    BY <1>2, <2>1, StatementsAre
  <2>3. s.what \in Objects(m)
    BY <2>2, UpMakes
  <2>4. s \in Statements
    BY <2>2, UpLists DEF ToSet
  <2>5. s.what \notin AdminRows
    BY <1>2, <2>4, IndexIs
  <2> QED BY <1>1, <2>1, <2>3, <2>5
<1>3. ASSUME NEW m \in Known, m # "AddAdminUser", Record(m) \in ToSet(Pending)
      PROVE  Objects(m) \cap db = {}
  <2>1. PICK n \in Known \ db : Record(m) \in ToSet(Up[n]) \cup {Record(n)}
    BY <1>3, PendingSet
  <2>2. Record(m) \notin ToSet(Up[n])
    BY UpMakes, StatementsAre
  <2>3. m = n
    BY <2>1, <2>2, StatementsAre
  <2>4. Objects(m) \cap AdminRows = {}
    BY <1>3, ObjectsApart, KnownIs
  <2> QED BY <1>1, <2>1, <2>3, <2>4
<1> QED BY <1>2, <1>3

\* A container starts its run: the first of a race is ahead.
LEMMA ContainerLoad ==
  ASSUME BootTypeOK, Placed, DbInv, RunInv, RaceInv, NEW c \in Container, Load(c)
  PROVE  DbInv' /\ RunInv' /\ RaceInv'
<1>1. /\ c \in Process /\ ~Migrating(c) /\ ~Migrating(Operator) /\ c # Operator /\ Operator \in Process
      /\ db' = db /\ transactional' = transactional /\ harmed' = harmed /\ run \in [Process -> Runs]
  BY BootAssumption DEF Process, Load, Placed, BootTypeOK
<1>2. Whole(db) /\ Chained(db) /\ (transactional => Owned(db, Known \cap db))
  BY <1>1 DEF DbInv
<1>3. CASE Pending = << >>
  <2>1. run' = run /\ racing' = racing
    BY <1>3 DEF Load
  <2>2. \A p \in Process : run'[p] = run[p] /\ View(p)' = View(p) /\ (Migrating(p)' <=> Migrating(p))
    BY <1>1, <2>1 DEF View, Migrating
  <2>3. DbInv'
    BY <1>1, <2>2 DEF DbInv, Quiet
  <2>4. RunInv'
    <3>1. ASSUME NEW q \in Container, Migrating(q)'
          PROVE  Forward(q)' /\ ~Migrating(Operator)'
      <4>1. Migrating(q) /\ Forward(q) /\ q # c
        BY <1>1, <2>2, <3>1 DEF RunInv, Process
      <4>2. run'[q] = run[q]
        BY <2>1
      <4>3. Forward(q)'
        BY <1>1, <1>2, <4>1, <4>2, ForwardKept
      <4> QED BY <1>1, <2>2, <4>3
    <3> QED BY <1>1, <2>2, <3>1 DEF RunInv
  <2>5. \A d \in Container : Ahead(d) => Ahead(d)'
    BY <1>1, <2>2, AheadAlone DEF Process
  <2>6. RaceInv'
    BY <1>1, <2>1, <2>2, <2>5 DEF RaceInv, Process
  <2> QED BY <2>3, <2>4, <2>6
<1>4. CASE Pending # << >>
  <2>1. Start(c, Pending) /\ racing' = (racing \/ Quiet)
    BY <1>4 DEF Load, Quiet
  <2>2. /\ run' = [run EXCEPT ![c] = run'[c]] /\ run'[c] \in Runs
        /\ run'[c].todo = Pending /\ run'[c].looked = FALSE /\ run'[c].closed = FALSE
        /\ run'[c].add = {} /\ run'[c].del = {}
    BY <1>1, <2>1, StartIs, PendingType
  <2>3. \A q \in Process \ {c} : run'[q] = run[q] /\ View(q)' = View(q)
    BY <1>1, <2>2 DEF View
  <2>4. View(c)' = db /\ Migrating(c)' /\ ~Migrating(Operator)'
    BY <1>1, <1>4, <2>2, <2>3, RunTypes DEF View, Migrating
  <2>5. /\ \A s \in ToSet(Pending) : Makes(s) \/ s.do = "record"
        /\ Prepared(Pending, db) /\ Sufficient(Pending, db) /\ Ordered(Pending) /\ Followed(Pending)
    BY <1>2, PendingIs
  <2>6. Forward(c)'
    <3>1. Known \cap db \subseteq Covers(c)'
      BY <2>4 DEF Covers
    <3>2. transactional' => Owned(View(c)', Covers(c)')
      BY <1>1, <1>2, <2>4, <3>1 DEF Owned
    <3> QED BY <1>2, <2>2, <2>4, <2>5, <3>2 DEF Forward
  <2>7. \A q \in Container \ {c} : Migrating(q)' => Migrating(q) /\ Forward(q)'
    <3>1. \A q \in Container \ {c} : run'[q] = run[q]
      BY <2>3 DEF Process
    <3>2. Whole(db') /\ Chained(db') /\ db \subseteq db' /\ (transactional => Owned(db', Known \cap db'))
      BY <1>1, <1>2
    <3> QED BY <1>1, <3>1, <3>2, OthersKept
  <2>8. RunInv'
    BY <2>4, <2>6, <2>7 DEF RunInv
  <2>9. DbInv'
    <3>1. ~Quiet'
      BY <1>1, <2>4 DEF Quiet
    <3> QED BY <1>1, <1>2, <3>1 DEF DbInv
  <2>10. ~harmed' => \A q \in Container : Migrating(q)' => racing'
    <3> SUFFICES ASSUME ~harmed PROVE racing'
      BY <1>1
    <3>1. CASE Quiet
      BY <2>1, <3>1
    <3>2. CASE ~Quiet
      <4>1. \E q \in Container : Migrating(q)
        BY <1>1, <3>2 DEF Quiet, Process
      <4> QED BY <2>1, <4>1 DEF RaceInv
    <3> QED BY <3>1, <3>2
  <2>11. ASSUME racing', transactional' \/ ~harmed'
         PROVE  Goal \subseteq db' \/ \E d \in Container : Ahead(d)'
    <3>1. CASE Quiet
      <4>1. Owned(db, Known \cap db)
        BY <1>1, <2>11, <3>1 DEF DbInv
      <4>2. /\ \A s \in ToSet(Pending) : s.do = "index" => s.what \notin db
            /\ \A m \in Known \ {"AddAdminUser"} :
                  Record(m) \in ToSet(Pending) => Objects(m) \cap db = {}
        BY <1>2, <4>1, Fresh
      <4>3. Ahead(c)'
        BY <2>2, <2>4, <4>2 DEF Ahead
      <4> QED BY <4>3
    <3>2. CASE ~Quiet
      <4>1. racing
        BY <2>1, <2>11, <3>2
      <4>2. Goal \subseteq db \/ \E d \in Container : Ahead(d)
        BY <1>1, <2>11, <4>1 DEF RaceInv
      <4>3. ASSUME NEW d \in Container, Ahead(d)
            PROVE  Ahead(d)'
        <5>1. d # c
          BY <1>1, <4>3 DEF Ahead
        <5> QED BY <1>1, <2>3, <4>3, <5>1, AheadAlone DEF Process
      <4> QED BY <1>1, <4>2, <4>3
    <3> QED BY <3>1, <3>2
  <2>12. RaceInv'
    BY <2>4, <2>10, <2>11 DEF RaceInv
  <2> QED BY <2>8, <2>9, <2>12
<1> QED BY <1>3, <1>4

\* seed.js goes on while other containers migrate.
LEMMA ContainerSeeds ==
  ASSUME BootTypeOK, Placed, DbInv, RunInv, RaceInv, SeedInv, NEW c \in Container, SeedJs(c)
  PROVE  DbInv' /\ RunInv' /\ RaceInv'
<1>1. /\ Operator \in Process /\ Operator \notin Container /\ \A q \in Container : q \in Process
      /\ run' = run /\ transactional' = transactional /\ harmed' = harmed /\ racing' = racing
      /\ db' = db \/ \E r \in AdminRows : SeedInserts(c, r) /\ db' = db \cup {r}
  BY BootAssumption, SeedJsIs DEF Process
<1>2. /\ db \subseteq db' /\ db' \subseteq db \cup AdminRows
      /\ \A p : Migrating(p)' <=> Migrating(p)
      /\ ~Migrating(Operator)
  <2>1. phase[c] \in SeedPhases
    BY SeedJsIs
  <2> QED BY <1>1, <2>1 DEF Migrating, SeedInv
<1>3. AdminRows \cap Known = {} /\ \A r \in AdminRows : Earlier(r) = {}
  BY EarlierAre, ObjectsApart DEF AdminRows
<1>4. /\ Chained(db') /\ Whole(db')
      /\ (transactional \/ (~harmed /\ Quiet) => Owned(db', Known \cap db'))
      /\ (transactional => Settled(db'))
  <2>1. Chained(db')
    BY <1>2, <1>3 DEF DbInv, Chained
  <2>2. Known \cap db' = Known \cap db
    BY <1>2, <1>3
  <2>3. Whole(db')
    BY <1>2, <2>2 DEF DbInv, Whole
  <2>4. Owned(db, Known \cap db) => Owned(db', Known \cap db')
    BY <1>2, <2>2 DEF Owned
  <2>5. Settled(db) => Settled(db')
    BY <1>2, <1>3, KnownIs DEF Settled
  <2> QED BY <2>1, <2>3, <2>4, <2>5 DEF DbInv
<1>5. DbInv'
  BY <1>1, <1>2, <1>4 DEF DbInv, Quiet
<1>6. \A q \in Container : Migrating(q)' => Forward(q)' /\ View(q)' = View(q) \cup db'
  <2> SUFFICES ASSUME NEW q \in Container, Migrating(q)
               PROVE  Forward(q)' /\ View(q)' = View(q) \cup db'
    BY <1>2
  <2>1. Forward(q)
    BY DEF RunInv
  <2> QED BY <1>1, <1>2, <1>4, <2>1, ForwardKept
<1>7. RunInv'
  BY <1>2, <1>6 DEF RunInv
<1>8. ASSUME NEW d \in Container, Ahead(d), transactional \/ ~harmed
      PROVE  Ahead(d)' \/ Goal \subseteq db'
  <2>1. /\ Forward(d) /\ View(d)' = View(d) \cup db' /\ run'[d] = run[d] /\ db \subseteq View(d)
    BY <1>1, <1>2, <1>6, <1>8 DEF Ahead, RunInv, Forward, View
  <2>2. View(d)' \ View(d) \subseteq AdminRows \cap (db' \ db)
    BY <1>2, <2>1
  <2>3. CASE \A r \in db' \ db : ~(run[d].looked /\ NextOf(d).what = r)
    BY <1>1, <1>8, <2>1, <2>2, <2>3, AheadKept
  <2>4. ASSUME NEW r \in db' \ db, run[d].looked, NextOf(d).what = r
        PROVE  Goal \subseteq db'
    <3>1. r \in AdminRows /\ SeedInserts(c, r) /\ r \notin db
      BY <1>1, <1>2, <2>4
    <3>2. /\ run[d].todo \in Seq(Statements) /\ run[d].todo # << >>
          /\ NextOf(d) = Head(run[d].todo) /\ Makes(NextOf(d))
      BY <1>1, <1>8, <2>4 DEF Ahead, BootTypeOK, Runs, NextOf
    <3>3. NextOf(d).do = "row"
      <4>1. NextOf(d) \in Statements
        BY <3>2, TailIs
      <4>2. NextOf(d).do = "row" \/ NextOf(d).what \in Tables1 \cup {"sessions", "guard_name", "favicon"} \cup Indexes1
        BY <3>2, <4>1, StatementKinds DEF Makes
      <4> QED BY <2>4, <3>1, <4>2 DEF AdminRows, Tables1, Indexes1
    <3>4. ~transactional
      <4> SUFFICES ASSUME transactional PROVE FALSE
        OBVIOUS
      <4>1. Owned(db, Known \cap db) /\ Settled(db)
        BY DEF DbInv
      <4>2. TableOf[r] \in db
        <5>1. phase[c] \in SeedPhases
          BY SeedJsIs
        <5>2. ~Migrating(c)
          BY <5>1, PhasesAre DEF Placed
        <5>3. View(c) = db
          BY <5>2, RunTypes DEF Migrating, View
        <5>4. Needs(r) \subseteq View(c)
          BY <3>1, StatementsAre DEF SeedInserts, Refused
        <5> QED BY <5>3, <5>4 DEF Needs
      <4>3. TableOf[r] \in {"settings", "roles", "users", "users_roles"}
        BY <3>1, NeedsAre DEF AdminRows
      <4>4. TableOf[r] \notin Known \cup AdminRows
        BY <4>3, KnownIs DEF AdminRows
      <4>5. PICK m \in Known \cap db : TableOf[r] \in Objects(m)
        BY <4>1, <4>2, <4>4 DEF Owned
      <4>6. m = "InitialSchema"
        BY <4>3, <4>5, KnownIs, ObjectsAre DEF AdminRows
      <4> QED BY <3>1, <4>1, <4>5, <4>6 DEF Settled
    <3>5. Goal \subseteq View(d)
      BY <2>1, <3>2, <3>3, AtRows
    <3>6. View(d) = db \cup run[d].add
      BY <2>1 DEF Forward, View
    <3>7. run[d].add \cap Goal = {}
      <4>1. CASE run[d].closed
        BY <2>1, <4>1 DEF Forward
      <4>2. CASE ~run[d].closed
        BY <1>8, <3>4, <4>2 DEF Ahead, Goal
      <4> QED BY <4>1, <4>2
    <3> QED BY <1>2, <3>5, <3>6, <3>7
  <2> QED BY <2>3, <2>4
<1>9. RaceInv'
  BY <1>1, <1>2, <1>8 DEF RaceInv
<1> QED BY <1>5, <1>7, <1>9

-----------------------------------------------------------------------------
(***************************************************************************)
(* The operator's steps.                                                   *)
(***************************************************************************)
\* The statements that revert a migration.
LEMMA UndoSteps ==
  ASSUME NEW m \in Known, NEW s \in ToSet(Undo(m))
  PROVE  /\ s \in Statements /\ s.do \in {"drop", "unrecord"} /\ Adds(s) = {} /\ s.what \in Removes(s)
         /\ Removes(s) \cap Known \subseteq {m}
         /\ Removes(s) \cap AdminRows # {} => m = "InitialSchema"
         /\ s.do = "drop" => s = Drop(s.what)
<1>1. s \in Statements
  BY UndoIs DEF ToSet
<1>2. \A x : Gone(x) \subseteq {x} \cup {"guard_name", "favicon", "users__", "roles__", "permissions__"}
                              \cup AdminRows
  BY DEF Gone, Columns, AdminRows
<1>3. \A x : x \notin {"settings", "roles", "users", "users_roles"} \cup AdminRows
                => Gone(x) \cap AdminRows = {}
  BY DEF Gone, Columns, AdminRows
<1>4. CASE \E x \in Tables1 \cup {"guard_name", "favicon", "sessions"} : s = Drop(x)
  <2>1. PICK x \in Tables1 \cup {"guard_name", "favicon", "sessions"} : s = Drop(x)
    BY <1>4
  <2>2. s.do = "drop" /\ Removes(s) = Gone(x) /\ s.what = x /\ Adds(s) = {} /\ x \in Gone(x)
    BY <2>1, StatementsAre DEF Gone
  <2>3. Removes(s) \cap Known = {}
    BY <1>2, <2>2, KnownIs DEF Tables1, AdminRows
  <2>4. x \in {"settings", "roles", "users", "users_roles"} => m = "InitialSchema"
    <3>1. \A y \in {"favicon", "guard_name", "sessions"} : s = Drop(y) => x = y
      BY <2>2, StatementsAre
    <3>2. \A n : s # Unrecord(n)
      BY <2>2, StatementsAre
    <3> QED BY <3>1, <3>2, KnownIs, UndoIs
  <2>5. x \notin AdminRows
    BY <2>1 DEF Tables1, AdminRows
  <2> QED BY <1>1, <1>3, <2>1, <2>2, <2>3, <2>4, <2>5
<1>5. CASE s = Unrecord(m)
  BY <1>1, <1>5, StatementsAre, ObjectsApart
<1>6. s = Unrecord(m) \/ \E x \in Tables1 \cup {"guard_name", "favicon", "sessions"} : s = Drop(x)
  BY KnownIs, UndoIs
<1> QED BY <1>4, <1>5, <1>6

\* What reverts a migration drops later things first.
LEMMA UndoUnbuilt ==
  ASSUME NEW m \in Known, NEW X
  PROVE  Unbuilt(Undo(m), X)
<1> DEFINE U == Undo(m)
           Base == {"users", "users__", "roles", "roles__", "permissions", "settings"}
<1>1. \A o : Earlier(o) \subseteq Base
  BY EarlierAre
<1>2. CASE m # "InitialSchema"
  <2>1. \A s \in ToSet(U) : Removes(s) \cap Base = {}
    <3>1. /\ Removes(Drop("favicon")) = {"favicon"} /\ Removes(Drop("guard_name")) = {"guard_name"}
          /\ Removes(Drop("sessions")) = {"sessions"} /\ \A n : Removes(Unrecord(n)) = {n}
      BY StatementsAre DEF Gone, Columns
    <3> QED BY <1>2, <3>1, KnownIs, UndoIs
  <2> QED BY <1>1, <2>1 DEF Unbuilt, ToSet
<1>3. CASE m = "InitialSchema"
  <2> DEFINE D == Down["InitialSchema"]
  <2>1. /\ DOMAIN U = {1, 2, 3, 4, 5, 6, 7} /\ U[7] = Unrecord("InitialSchema")
        /\ \A i \in {1, 2, 3, 4, 5, 6} : U[i] = D[i]
    <3>1. D \in Seq(Statements) /\ DOMAIN D = 1..6 /\ D = InitialSchemaDown
      <4>1. DOMAIN D = 1..6 /\ D = InitialSchemaDown
        BY UndoIs DEF Down
      <4>2. \A t \in Tables1 : Drop(t) \in Statements
        BY FactsAre DEF Statements
      <4> QED BY <4>1, <4>2 DEF InitialSchemaDown, Tables1
    <3>2. <<Unrecord("InitialSchema")>> \in Seq(Statements) /\ Len(<<Unrecord("InitialSchema")>>) = 1
      BY KnownIs DEF Statements
    <3> HIDE DEF D
    <3>3. Len(D) = 6
      BY <3>1
    <3>4. U = D \o <<Unrecord("InitialSchema")>>
      BY <1>3 DEF Undo, D
    <3> HIDE DEF U
    <3>5. /\ DOMAIN U = 1..7 /\ \A i \in 1..6 : U[i] = D[i]
          /\ U[6 + 1] = <<Unrecord("InitialSchema")>>[1]
      <4>1. /\ DOMAIN U = 1..(Len(D) + 1) /\ \A i \in DOMAIN D : U[i] = D[i]
            /\ \A i \in DOMAIN <<Unrecord("InitialSchema")>> :
                  U[Len(D) + i] = <<Unrecord("InitialSchema")>>[i]
        BY <3>1, <3>2, <3>4, Concat
      <4> QED BY <3>1, <3>3, <4>1, Short
    <3> QED BY <3>5
  <2>2. /\ D[1] = Drop("roles_permissions") /\ D[2] = Drop("users_roles") /\ D[3] = Drop("settings")
        /\ D[4] = Drop("permissions") /\ D[5] = Drop("roles") /\ D[6] = Drop("users")
    BY DEF Down, InitialSchemaDown
  <2> HIDE DEF U, D
  <2>3. /\ Removes(U[1]) = {"roles_permissions"} /\ Removes(U[2]) = {"users_roles", "link"}
        /\ Removes(U[3]) = {"settings", "favicon", "setting"}
        /\ Removes(U[4]) = {"permissions", "permissions__"}
        /\ Removes(U[5]) = {"roles", "roles__", "guard_name", "role"}
        /\ Removes(U[6]) = {"users", "users__", "user"}
        /\ Removes(U[7]) = {"InitialSchema"}
    BY <2>1, <2>2, StatementsAre DEF Gone, Columns
  <2>4. \A o : /\ "settings" \in Earlier(o) => o = "favicon"
               /\ "permissions" \in Earlier(o) => o = "permissions__"
               /\ "roles" \in Earlier(o) \/ "roles__" \in Earlier(o)
                     => o \in {"roles__", "guard_name", "permissions", "permissions__"}
               /\ "users" \in Earlier(o) \/ "users__" \in Earlier(o)
                     => o \in {"users__", "roles", "roles__", "permissions", "permissions__"}
    BY DEF Earlier
  <2> SUFFICES ASSUME NEW i \in DOMAIN U, NEW o \in X, Earlier(o) \cap Removes(U[i]) # {}
               PROVE  \E j \in 1..i : o \in Removes(U[j])
    BY DEF Unbuilt, U
  <2>5. PICK b \in Base : b \in Earlier(o) /\ b \in Removes(U[i])
    BY <1>1
  <2>6. CASE i \in {1, 2, 7}
    BY <2>3, <2>5, <2>6
  <2>7. CASE i = 3
    <3>1. o = "favicon"
      <4>1. b \in Removes(U[3]) /\ b \in Earlier(o)
        BY <2>5, <2>7
      <4>2. b = "settings"
        BY <2>3, <4>1
      <4> QED BY <2>4, <4>1, <4>2
    <3> QED BY <2>3, <2>7, <3>1
  <2>8. CASE i = 4
    <3>1. o = "permissions__"
      <4>1. b \in Removes(U[4]) /\ b \in Earlier(o)
        BY <2>5, <2>8
      <4>2. b = "permissions"
        BY <2>3, <4>1
      <4> QED BY <2>4, <4>1, <4>2
    <3> QED BY <2>3, <2>8, <3>1
  <2>9. CASE i = 5
    <3>1. o \in {"roles__", "guard_name", "permissions", "permissions__"}
      <4>1. b \in Removes(U[5]) /\ b \in Earlier(o)
        BY <2>5, <2>9
      <4>2. b \in {"roles", "roles__"}
        BY <2>3, <4>1
      <4> QED BY <2>4, <4>1, <4>2
    <3>2. o \in Removes(U[4]) \cup Removes(U[5]) /\ 4 \in 1..i /\ 5 \in 1..i
      BY <2>3, <2>9, <3>1
    <3> QED BY <3>2
  <2>10. CASE i = 6
    <3>1. o \in {"users__", "roles", "roles__", "permissions", "permissions__"}
      <4>1. b \in Removes(U[6]) /\ b \in Earlier(o)
        BY <2>5, <2>10
      <4>2. b \in {"users", "users__"}
        BY <2>3, <4>1
      <4> QED BY <2>4, <4>1, <4>2
    <3>2. /\ o \in Removes(U[4]) \cup Removes(U[5]) \cup Removes(U[6])
          /\ 4 \in 1..i /\ 5 \in 1..i /\ 6 \in 1..i
      BY <2>3, <2>10, <3>1
    <3> QED BY <3>2
  <2> QED BY <2>1, <2>6, <2>7, <2>8, <2>9, <2>10
<1> QED BY <1>2, <1>3

\* The last migration recorded shares nothing with those before it.
LEMMA UndoApart ==
  ASSUME NEW m \in Known, NEW n \in Known,
         \A i, j \in DOMAIN Migrations : Migrations[i] = m /\ Migrations[j] = n => j < i
  PROVE  \A s \in ToSet(Undo(m)) : Removes(s) \cap Recorded(n) = {}
<1>1. /\ DOMAIN Migrations = {1, 2, 3, 4} /\ Migrations[1] = "InitialSchema"
      /\ Migrations[2] = "AddGuardNameFavicon" /\ Migrations[3] = "CreateSessionTable"
      /\ Migrations[4] = "AddAdminUser"
  BY DEF Migrations
<1>2. \/ m = "AddGuardNameFavicon" /\ n = "InitialSchema"
      \/ m = "CreateSessionTable" /\ n \in {"InitialSchema", "AddGuardNameFavicon"}
      \/ m = "AddAdminUser" /\ n # "AddAdminUser"
  BY <1>1, KnownIs
<1>3. /\ Removes(Drop("favicon")) = {"favicon"} /\ Removes(Drop("guard_name")) = {"guard_name"}
      /\ Removes(Drop("sessions")) = {"sessions"} /\ \A k : Removes(Unrecord(k)) = {k}
  BY StatementsAre DEF Gone, Columns
<1>4. /\ Recorded("InitialSchema") = Tables1 \cup Indexes1
      /\ Recorded("AddGuardNameFavicon") = {"guard_name", "favicon", "InitialSchema"}
      /\ Recorded("CreateSessionTable") = {"sessions"}
      /\ Recorded("AddAdminUser") = AdminRows
  BY ObjectsAre DEF Recorded
<1>5. CASE m = "AddGuardNameFavicon" /\ n = "InitialSchema"
  BY <1>3, <1>4, <1>5, UndoIs DEF Tables1, Indexes1
<1>6. CASE m = "CreateSessionTable" /\ n \in {"InitialSchema", "AddGuardNameFavicon"}
  <2>1. {"sessions", "CreateSessionTable"} \cap Recorded(n) = {}
    BY <1>4, <1>6 DEF Tables1, Indexes1
  <2>2. \A s \in ToSet(Undo(m)) : Removes(s) \subseteq {"sessions", "CreateSessionTable"}
    BY <1>3, <1>6, UndoIs
  <2> QED BY <2>1, <2>2
<1>7. CASE m = "AddAdminUser" /\ n # "AddAdminUser"
  <2>1. n \in {"InitialSchema", "AddGuardNameFavicon", "CreateSessionTable"}
    BY <1>7, KnownIs
  <2>2. "AddAdminUser" \notin Recorded(n)
    BY <1>4, <2>1 DEF Tables1, Indexes1
  <2>3. \A s \in ToSet(Undo(m)) : Removes(s) = {"AddAdminUser"}
    BY <1>3, <1>7, UndoIs
  <2> QED BY <2>2, <2>3
<1> QED BY <1>2, <1>5, <1>6, <1>7

\* All that a migration is there for goes when it is reverted.
LEMMA UndoWhole ==
  ASSUME NEW m \in Known, NEW o \in Objects(m), o \notin AdminRows
  PROVE  \E s \in ToSet(Undo(m)) : o \in Removes(s)
<1>1. /\ Removes(Drop("favicon")) = {"favicon"} /\ Removes(Drop("guard_name")) = {"guard_name"}
      /\ Removes(Drop("sessions")) = {"sessions"} /\ \A x : x \in Removes(Drop(x))
      /\ "users__" \in Removes(Drop("users")) /\ "roles__" \in Removes(Drop("roles"))
      /\ "permissions__" \in Removes(Drop("permissions"))
  BY StatementsAre DEF Gone, Columns
<1>2. CASE m = "InitialSchema"
  <2>1. \A t \in Tables1 : Drop(t) \in ToSet(Undo(m))
    BY <1>2, UndoIs
  <2>2. CASE o \in Tables1
    BY <1>1, <2>1, <2>2
  <2>3. CASE o \in Indexes1
    BY <1>1, <2>1, <2>3 DEF Tables1, Indexes1
  <2> QED BY <1>2, <2>2, <2>3, ObjectsAre
<1>3. CASE m \in {"AddGuardNameFavicon", "CreateSessionTable"}
  BY <1>1, <1>3, ObjectsAre, UndoIs
<1> QED BY <1>2, <1>3, KnownIs, ObjectsAre

\* The operator starts to revert the last migration.
LEMMA OperatorRevert ==
  ASSUME BootTypeOK, DbInv, RunInv, RaceInv, NEW m \in Known, Revert(m)
  PROVE  DbInv' /\ RunInv' /\ RaceInv'
<1>1. /\ Operator \in Process /\ Operator \notin Container /\ \A q \in Container : q \in Process
      /\ Quiet /\ m \in db /\ Start(Operator, Undo(m)) /\ Undo(m) \in Seq(Statements) /\ Undo(m) # << >>
      /\ db' = db /\ transactional' = transactional /\ harmed' = harmed /\ racing' = FALSE
      /\ run \in [Process -> Runs]
      /\ \A i, j \in DOMAIN Migrations : Migrations[i] = m /\ Migrations[j] \in db => j <= i
  BY BootAssumption, UndoIs DEF Process, Revert, Quiet, BootTypeOK
<1>2. /\ run' = [run EXCEPT ![Operator] = run'[Operator]]
      /\ run'[Operator].todo = Undo(m) /\ run'[Operator].add = {} /\ run'[Operator].del = {}
  BY <1>1, StartIs
<1>3. View(Operator)' = db /\ Migrating(Operator)' /\ \A q \in Container : ~Migrating(q)'
  <2>1. \A q \in Container : run'[q] = run[q]
    BY <1>1, <1>2
  <2> QED BY <1>1, <1>2, <2>1, RunTypes DEF View, Migrating, Quiet
<1>4. /\ Chained(db) /\ Whole(db)
      /\ (transactional \/ ~harmed => Owned(db, Known \cap db))
      /\ (transactional => Settled(db))
  BY <1>1 DEF DbInv, Quiet
<1>5. Others(m)' = (Known \cap db) \ {m}
  BY <1>3 DEF Others
<1>6. ASSUME NEW n \in (Known \cap db) \ {m}
      PROVE  /\ Recorded(n) \subseteq db
             /\ \A s \in ToSet(Undo(m)) : Removes(s) \cap Recorded(n) = {}
  <2>1. \A i, j \in DOMAIN Migrations : Migrations[i] = m /\ Migrations[j] = n => j < i
    <3> SUFFICES ASSUME NEW i \in DOMAIN Migrations, NEW j \in DOMAIN Migrations,
                        Migrations[i] = m, Migrations[j] = n
                 PROVE  j < i
      OBVIOUS
    <3>1. j <= i /\ j # i
      BY <1>1
    <3>2. DOMAIN Migrations = 1..4
      BY DEF Migrations
    <3> QED BY <3>1, <3>2
  <2> QED BY <1>4, <2>1, UndoApart DEF Whole
<1>7. Backward(m)'
  <2>1. Unrecord(m) \in ToSet(Undo(m))
    BY KnownIs, UndoIs
  <2>2. ASSUME transactional \/ ~harmed, NEW o \in db, o \notin Known, o \notin AdminRows
        PROVE  \/ \E n \in Others(m)' : o \in Objects(n)
               \/ \E s \in ToSet(Undo(m)) : o \in Removes(s)
    <3>1. PICK n \in Known \cap db : o \in Objects(n)
      BY <1>4, <2>2 DEF Owned
    <3> QED BY <1>5, <2>2, <3>1, UndoWhole
  <2>3. transactional => ("InitialSchema" \in Others(m)' => AdminRows \subseteq db)
    BY <1>4, <1>5 DEF Settled
  <2>4. Unbuilt(Undo(m), db)
    BY UndoUnbuilt
  <2> QED BY <1>1, <1>2, <1>3, <1>4, <1>5, <1>6, <2>1, <2>2, <2>3, <2>4 DEF Backward
<1>8. DbInv'
  <2>1. ~Quiet'
    BY <1>1, <1>3 DEF Quiet
  <2> QED BY <1>1, <1>3, <1>4, <2>1 DEF DbInv
<1> QED BY <1>1, <1>3, <1>7, <1>8 DEF RunInv, RaceInv

\* What the invariant says when the operator has a turn.
LEMMA OperatorTurn ==
  ASSUME BootTypeOK, RunInv, Migrating(Operator)
  PROVE  /\ Operator \in Process /\ Operator \notin Container
         /\ \A q \in Container : q \in Process /\ ~Migrating(q)
         /\ run \in [Process -> Runs] /\ run[Operator].todo \in Seq(Statements)
         /\ \E m \in Known : Backward(m)
  BY BootAssumption DEF RunInv, BootTypeOK, Process, Runs

\* The head of the operator's list.
LEMMA BackwardHead ==
  ASSUME BootTypeOK, RunInv, Migrating(Operator), run[Operator].todo # << >>
  PROVE  \E m \in Known :
            /\ Backward(m) /\ NextOf(Operator) \in ToSet(Undo(m))
            /\ NextOf(Operator) \in ToSet(run[Operator].todo)
<1>1. PICK m \in Known : Backward(m)
  BY OperatorTurn
<1>2. NextOf(Operator) \in ToSet(run[Operator].todo)
  BY OperatorTurn, TailIs DEF NextOf
<1> QED BY <1>1, <1>2 DEF Backward

\* A list of the operator's that has been worked off leaves things settled.
LEMMA BackwardEnds ==
  ASSUME NEW m \in Known, NEW X, NEW N, N = (Known \cap X) \ {m}, m \notin X,
         \A n \in N : Recorded(n) \subseteq X,
         NEW Y, Y => \A o \in X \ (Known \cup AdminRows) : \E n \in N : o \in Objects(n),
         NEW Z, Z => ("InitialSchema" \in N => AdminRows \subseteq X)
  PROVE  /\ Whole(X)
         /\ Y => Owned(X, Known \cap X)
         /\ Z => Settled(X)
<1>1. N = Known \cap X
  OBVIOUS
<1>2. Whole(X)
  BY <1>1 DEF Whole
<1>3. Y => Owned(X, Known \cap X)
  BY <1>1 DEF Owned
<1>4. Z => Settled(X)
  BY <1>1, KnownIs DEF Settled
<1> QED BY <1>2, <1>3, <1>4

\* A statement of a revert.
LEMMA OperatorExecute ==
  ASSUME BootTypeOK, DbInv, RunInv, RaceInv, Execute(Operator)
  PROVE  DbInv' /\ RunInv' /\ RaceInv'
<1> DEFINE s == NextOf(Operator)
           t == run[Operator].todo
           X == View(Operator)
<1>1. /\ Operator \in Process /\ Migrating(Operator) /\ t # << >> /\ s \in Statements
      /\ run' = [run EXCEPT ![Operator] = run'[Operator]]
      /\ run'[Operator].todo = Tail(t) /\ View(Operator)' = (X \ Removes(s)) \cup Adds(s)
      /\ transactional' = transactional /\ harmed' = harmed /\ racing' = racing
      /\ \/ ~transactional /\ db' = (X \ Removes(s)) \cup Adds(s) /\ run'[Operator].closed = TRUE
         \/ db' = db /\ run'[Operator].del = (run[Operator].del \ Adds(s)) \cup Removes(s)
  <2>1. Operator \in Process
    BY DEF Process
  <2> QED BY <2>1, ExecuteIs DEF history
<1>2. /\ Operator \notin Container /\ t \in Seq(Statements) /\ run \in [Process -> Runs]
      /\ \A q \in Container : q \in Process /\ ~Migrating(q)
  BY <1>1, OperatorTurn
<1>3. PICK m \in Known : Backward(m) /\ s \in ToSet(Undo(m)) /\ s \in ToSet(t)
  BY <1>1, BackwardHead
<1>4. /\ s.do \in {"drop", "unrecord"} /\ Adds(s) = {} /\ s.what \in Removes(s)
      /\ Removes(s) \cap Known \subseteq {m} /\ (Removes(s) \cap AdminRows # {} => m = "InitialSchema")
  BY <1>3, UndoSteps
<1>5. View(Operator)' = X \ Removes(s)
  BY <1>1, <1>4
<1>6. s = Head(t) /\ ToSet(t) = {s} \cup ToSet(Tail(t))
  BY <1>1, <1>2, TailIs DEF NextOf
<1>7. Migrating(Operator)'
  <2>1. run'[Operator].closed = TRUE \/ s.what \in run'[Operator].del
    BY <1>1, <1>4
  <2> QED BY <2>1, RunTypes DEF Migrating
<1>8. \A q \in Container : ~Migrating(q)'
  BY <1>1, <1>2 DEF Migrating
<1>9. Others(m)' = Others(m)
  BY <1>4, <1>5 DEF Others, X
<1>10. Chained(View(Operator)') /\ Unbuilt(Tail(t), View(Operator)')
  <2>1. Unbuilt(t, X) /\ Chained(X)
    BY <1>3 DEF Backward
  <2> DEFINE Y == X \ Removes(s)
  <2>2. Y \subseteq X /\ \A o \in Y : Earlier(o) # {} => o \notin Removes(Head(t))
    BY <1>6
  <2>3. /\ Unbuilt(Tail(t), Y)
        /\ \A o \in X : Earlier(o) \cap Removes(s) # {} => o \in Removes(s)
    BY <1>1, <1>2, <1>6, <2>1, <2>2, TailUnbuilt
  <2>4. Chained(Y)
    BY <2>1, <2>3 DEF Chained
  <2> QED BY <1>5, <2>3, <2>4
<1>11. Backward(m)'
  <2>1. ToSet(run'[Operator].todo) \subseteq ToSet(Undo(m))
    BY <1>1, <1>3, <1>6 DEF Backward
  <2>2. m \in View(Operator)' => Unrecord(m) \in ToSet(run'[Operator].todo)
    <3>1. m \in View(Operator)' => Unrecord(m) \in ToSet(t) /\ m \notin Removes(s)
      BY <1>3, <1>5 DEF Backward
    <3>2. m \in Removes(Unrecord(m))
      BY StatementsAre
    <3> QED BY <1>1, <1>6, <3>1, <3>2
  <2>3. \A n \in Others(m) : /\ Recorded(n) \subseteq View(Operator)'
                             /\ \A a \in ToSet(Undo(m)) : Removes(a) \cap Recorded(n) = {}
    BY <1>3, <1>5 DEF Backward
  <2>4. transactional \/ ~harmed =>
           \A o \in View(Operator)' \ (Known \cup AdminRows) :
              \/ \E n \in Others(m) : o \in Objects(n)
              \/ \E a \in ToSet(run'[Operator].todo) : o \in Removes(a)
    <3> SUFFICES ASSUME transactional \/ ~harmed
                 PROVE  \A o \in View(Operator)' \ (Known \cup AdminRows) :
                           \/ \E n \in Others(m) : o \in Objects(n)
                           \/ \E a \in ToSet(run'[Operator].todo) : o \in Removes(a)
      OBVIOUS
    <3>1. \A o \in X \ (Known \cup AdminRows) :
             \/ \E n \in Others(m) : o \in Objects(n)
             \/ \E a \in ToSet(t) : o \in Removes(a)
      BY <1>3 DEF Backward
    <3> QED BY <1>1, <1>5, <1>6, <3>1
  <2>5. transactional => ("InitialSchema" \in Others(m) => AdminRows \subseteq View(Operator)')
    <3>1. "InitialSchema" \in Others(m) => Removes(s) \cap AdminRows = {}
      BY <1>4 DEF Others
    <3> QED BY <1>3, <1>5, <3>1 DEF Backward
  <2> QED BY <1>1, <1>9, <1>10, <2>1, <2>2, <2>3, <2>4, <2>5 DEF Backward
<1>12. DbInv'
  <2>1. ~Quiet'
    BY <1>1, <1>7 DEF Quiet
  <2>2. Chained(db')
    BY <1>1, <1>4, <1>5, <1>10 DEF DbInv
  <2>3. transactional => db' = db
    BY <1>1
  <2>4. transactional => Whole(db') /\ Owned(db', Known \cap db') /\ Settled(db')
    BY <2>3 DEF DbInv
  <2> QED BY <1>1, <1>7, <2>1, <2>2, <2>4 DEF DbInv
<1>13. RunInv'
  BY <1>8, <1>11 DEF RunInv
<1>14. RaceInv'
  BY <1>1, <1>8 DEF RaceInv
<1> QED BY <1>12, <1>13, <1>14

\* A drop of what is not there: what would go with it is not there either.
LEMMA GoneIs ==
  ASSUME NEW X, Chained(X), NEW x, x \notin X
  PROVE  Gone(x) \cap X \subseteq AdminRows
<1>1. \A o \in Gone(x) : o = x \/ o \in AdminRows \/ x \in Earlier(o)
  BY EarlierAre DEF Gone, Columns, AdminRows
<1> QED BY <1>1 DEF Chained

\* The operator looks whether a drop is needed.
LEMMA OperatorCheck ==
  ASSUME BootTypeOK, DbInv, RunInv, RaceInv, Check(Operator)
  PROVE  DbInv' /\ RunInv' /\ RaceInv'
<1> DEFINE s == NextOf(Operator)
           t == run[Operator].todo
           X == View(Operator)
<1>1. /\ Operator \in Process /\ Migrating(Operator) /\ t # << >> /\ s \in Statements
      /\ s.do \in {"table", "column", "row", "drop"}
      /\ run' = [run EXCEPT ![Operator] = run'[Operator]] /\ db' = db
      /\ run'[Operator].add = run[Operator].add /\ run'[Operator].del = run[Operator].del
      /\ \/ Skips(Operator, s) /\ run'[Operator].todo = Tail(t)
         \/ run'[Operator].todo = t /\ run'[Operator].looked = TRUE
      /\ transactional' = transactional /\ harmed' = harmed /\ racing' = racing
  <2>1. Operator \in Process
    BY DEF Process
  <2> QED BY <2>1, CheckIs DEF history
<1>2. /\ Operator \notin Container /\ t \in Seq(Statements) /\ run \in [Process -> Runs]
      /\ \A q \in Container : q \in Process /\ ~Migrating(q)
  BY <1>1, OperatorTurn
<1>3. PICK m \in Known : Backward(m) /\ s \in ToSet(Undo(m)) /\ s \in ToSet(t)
  BY <1>1, BackwardHead
<1>4. s.do = "drop" /\ s = Drop(s.what) /\ Removes(s) = Gone(s.what)
  <2>1. s.do = "drop" /\ s = Drop(s.what)
    BY <1>1, <1>3, UndoSteps
  <2> QED BY <2>1, StatementsAre
<1>5. View(Operator)' = X /\ Others(m)' = Others(m)
  BY <1>1 DEF View, Others
<1>6. \A q \in Container : ~Migrating(q)'
  BY <1>1, <1>2 DEF Migrating
<1>7. s = Head(t) /\ ToSet(t) = {s} \cup ToSet(Tail(t))
  BY <1>1, <1>2, TailIs DEF NextOf
<1>8. /\ ToSet(t) \subseteq ToSet(Undo(m)) /\ Chained(X) /\ Unbuilt(t, X)
      /\ (m \in X => Unrecord(m) \in ToSet(t))
      /\ \A n \in Others(m) : /\ Recorded(n) \subseteq X
                              /\ \A a \in ToSet(Undo(m)) : Removes(a) \cap Recorded(n) = {}
      /\ transactional \/ ~harmed =>
           \A o \in X \ (Known \cup AdminRows) :
              \/ \E n \in Others(m) : o \in Objects(n)
              \/ \E a \in ToSet(t) : o \in Removes(a)
      /\ transactional => ("InitialSchema" \in Others(m) => AdminRows \subseteq X)
  BY <1>3 DEF Backward
<1>9. Backward(m)'
  <2>1. CASE run'[Operator].todo = t
    BY <1>1, <1>5, <1>8, <2>1 DEF Backward
  <2>2. CASE Skips(Operator, s) /\ run'[Operator].todo = Tail(t)
    <3>1. s.what \notin X
      BY <1>4, <2>2 DEF Skips
    <3>2. Removes(s) \cap X \subseteq AdminRows
      BY <1>4, <1>8, <3>1, GoneIs
    <3>3. \A o \in X : Earlier(o) # {} => o \notin Removes(Head(t))
      BY <1>7, <3>2, EarlierAre DEF AdminRows
    <3>4. Unbuilt(Tail(t), X)
      BY <1>1, <1>2, <1>8, <3>3, TailUnbuilt
    <3>5. m \in X => Unrecord(m) \in ToSet(Tail(t))
      BY <1>4, <1>7, <1>8, StatementsAre
    <3>6. transactional \/ ~harmed =>
            \A o \in X \ (Known \cup AdminRows) :
               \/ \E n \in Others(m) : o \in Objects(n)
               \/ \E a \in ToSet(Tail(t)) : o \in Removes(a)
      BY <1>7, <1>8, <3>2
    <3> QED BY <1>1, <1>5, <1>7, <1>8, <2>2, <3>4, <3>5, <3>6 DEF Backward
  <2> QED BY <1>1, <2>1, <2>2
<1>10. ASSUME ~Migrating(Operator)'
       PROVE  /\ Whole(db') /\ (transactional' \/ ~harmed' => Owned(db', Known \cap db'))
              /\ (transactional' => Settled(db'))
  <2>1. run'[Operator].todo = << >> /\ View(Operator)' = db'
    BY <1>10, RunTypes DEF Migrating, View
  <2>2. /\ m \notin db' /\ Others(m)' = (Known \cap db') \ {m}
        /\ \A n \in Others(m)' : Recorded(n) \subseteq db'
        /\ transactional' \/ ~harmed' =>
             \A o \in db' \ (Known \cup AdminRows) : \E n \in Others(m)' : o \in Objects(n)
        /\ transactional' => ("InitialSchema" \in Others(m)' => AdminRows \subseteq db')
    BY <1>9, <2>1, Short DEF Backward, Others
  <2> QED BY <2>2, BackwardEnds
<1>11. DbInv'
  <2>1. Chained(db') /\ (transactional => Whole(db') /\ Owned(db', Known \cap db') /\ Settled(db'))
    BY <1>1 DEF DbInv
  <2>2. Quiet' => ~Migrating(Operator)'
    BY <1>1 DEF Quiet
  <2> QED BY <1>1, <1>10, <2>1, <2>2 DEF DbInv
<1>12. RunInv'
  BY <1>6, <1>9 DEF RunInv
<1>13. RaceInv'
  BY <1>1, <1>6 DEF RaceInv
<1> QED BY <1>11, <1>12, <1>13

\* A revert is over, or was undone by its transaction.
LEMMA OperatorEnds ==
  ASSUME BootTypeOK, DbInv, RunInv, RaceInv,
         Commit(Operator) \/ Break(Operator) \/ Lose(Operator), ~torn'
  PROVE  DbInv' /\ RunInv' /\ RaceInv'
<1>1. /\ Operator \in Process /\ Migrating(Operator) /\ Finish(Operator)
      /\ transactional' = transactional /\ (racing' => racing)
  BY DEF Process, Commit, Break, Broken, Ready, Lose, history
<1>2. /\ Operator \notin Container /\ \A q \in Container : q \in Process /\ ~Migrating(q)
  BY <1>1, OperatorTurn
<1>3. /\ run' = [run EXCEPT ![Operator] = NoRun] /\ run'[Operator] = NoRun
      /\ \A q \in Process \ {Operator} : run'[q] = run[q]
  BY <1>1, FinishIs
<1>4. ~Migrating(Operator)' /\ \A q \in Container : ~Migrating(q)'
  BY <1>2, <1>3 DEF Migrating
<1>5. RunInv'
  BY <1>4 DEF RunInv
<1>6. RaceInv'
  BY <1>1, <1>4 DEF RaceInv
<1>7. CASE Commit(Operator)
  <2>1. run[Operator].todo = << >> /\ db' = View(Operator) /\ harmed' = harmed
    BY <1>7 DEF Commit, history
  <2>2. PICK m \in Known : Backward(m)
    BY <1>1, OperatorTurn
  <2>3. /\ m \notin db' /\ Others(m) = (Known \cap db') \ {m} /\ Chained(db')
        /\ \A n \in Others(m) : Recorded(n) \subseteq db'
        /\ transactional' \/ ~harmed' =>
             \A o \in db' \ (Known \cup AdminRows) : \E n \in Others(m) : o \in Objects(n)
        /\ transactional' => ("InitialSchema" \in Others(m) => AdminRows \subseteq db')
    BY <1>1, <2>1, <2>2, Short DEF Backward, Others
  <2>4. /\ Whole(db') /\ (transactional' \/ ~harmed' => Owned(db', Known \cap db'))
        /\ (transactional' => Settled(db'))
    BY <2>3, BackwardEnds
  <2> QED BY <1>5, <1>6, <2>3, <2>4 DEF DbInv
<1>8. ~Break(Operator)
  <2> SUFFICES ASSUME Broken(Operator) PROVE FALSE
    BY DEF Break
  <2>1. run[Operator].todo # << >>
    BY DEF Broken, Ready
  <2>2. PICK m \in Known : NextOf(Operator) \in ToSet(Undo(m))
    BY <1>1, <2>1, BackwardHead
  <2>3. NextOf(Operator).do \in {"drop", "unrecord"}
    BY <2>2, UndoSteps
  <2> QED BY <2>3 DEF Broken, Refused, Unique, Unreadable
<1>9. CASE Lose(Operator)
  <2>1. transactional /\ harmed' = TRUE /\ db' = db
    BY <1>9 DEF Lose
  <2>2. Chained(db') /\ Whole(db') /\ Owned(db', Known \cap db') /\ Settled(db')
    BY <2>1 DEF DbInv
  <2> QED BY <1>5, <1>6, <2>2 DEF DbInv
<1> QED BY <1>7, <1>8, <1>9

-----------------------------------------------------------------------------
(***************************************************************************)
(* All steps of the runs together.                                         *)
(***************************************************************************)

\* Nothing but phases and secrets changes.
LEMMA Elsewhere ==
  ASSUME DbInv, RunInv, RaceInv,
         UNCHANGED <<transactional, db, run, harmed, racing>>
  PROVE  DbInv' /\ RunInv' /\ RaceInv'
<1>1. /\ \A p : View(p)' = View(p) /\ (Migrating(p)' <=> Migrating(p)) /\ NextOf(p)' = NextOf(p)
      /\ transactional' = transactional /\ db' = db /\ run' = run /\ harmed' = harmed /\ racing' = racing
  BY DEF View, Migrating, NextOf
<1>2. DbInv'
  BY <1>1 DEF DbInv, Quiet
<1>3. \A c \in Container : Forward(c) => Forward(c)'
  <2>1. \A c \in Container : Covers(c)' = Covers(c)
    BY <1>1 DEF Covers
  <2> QED BY <1>1, <2>1 DEF Forward
<1>4. \A m \in Known : Backward(m) => Backward(m)'
  BY <1>1 DEF Backward, Others
<1>5. RunInv'
  BY <1>1, <1>3, <1>4 DEF RunInv
<1>6. \A c \in Container : Ahead(c) => Ahead(c)'
  BY <1>1 DEF Ahead
<1>7. RaceInv'
  BY <1>1, <1>6 DEF RaceInv
<1> QED BY <1>2, <1>5, <1>7

\* A revert is torn apart only without a transaction, and for good.
LEMMA TornStep ==
  BootTypeOK /\ (torn => harmed /\ ~transactional) /\ [BootNext]_bootVars
    => (torn' => harmed' /\ ~transactional') /\ (torn => torn')
<1> DEFINE Kept == transactional' = transactional /\ torn' = torn /\ (harmed => harmed')
<1> SUFFICES ASSUME BootTypeOK, torn => harmed /\ ~transactional, [BootNext]_bootVars
             PROVE  Kept \/ ((torn' => harmed' /\ ~transactional') /\ (torn => torn'))
  OBVIOUS
<1>1. ASSUME NEW c \in Container,
             Enter(c) \/ ReadSecrets(c) \/ DrawSecret(c) \/ Load(c) \/ SeedJs(c) \/ StopContainer(c)
      PROVE  Kept
  <2>1. CASE Enter(c)
    BY <2>1 DEF Enter, history
  <2>2. CASE ReadSecrets(c)
    BY <2>2 DEF ReadSecrets, history
  <2>3. CASE DrawSecret(c)
    BY <2>3 DEF DrawSecret, history
  <2>4. CASE Load(c)
    BY <2>4 DEF Load, history
  <2>5. CASE SeedJs(c)
    BY <2>5, SeedJsIs
  <2>6. CASE StopContainer(c)
    BY <2>6 DEF StopContainer
  <2> QED BY <1>1, <2>1, <2>2, <2>3, <2>4, <2>5, <2>6
<1>2. ASSUME NEW m \in Known, Revert(m)
      PROVE  Kept
  BY <1>2 DEF Revert
<1>3. ASSUME NEW p \in Process, Check(p) \/ Execute(p) \/ Commit(p) \/ Break(p)
      PROVE  Kept
  <2>1. CASE Check(p)
    BY <2>1 DEF Check, history
  <2>2. CASE Execute(p)
    BY <2>2 DEF Execute, history
  <2>3. CASE Commit(p)
    BY <2>3 DEF Commit, history
  <2>4. CASE Break(p)
    BY <2>4 DEF Break, history
  <2> QED BY <1>3, <2>1, <2>2, <2>3, <2>4
<1>4. ASSUME NEW p \in Process, Lose(p)
      PROVE  (torn' => harmed' /\ ~transactional') /\ (torn => torn')
  BY <1>4 DEF Lose
<1>5. CASE UNCHANGED bootVars
  BY <1>5 DEF bootVars, history
<1> QED BY <1>1, <1>2, <1>3, <1>4, <1>5 DEF BootNext, SeedJs

\* The database and the runs, from step to step.
LEMMA MigrationStep ==
  ASSUME BootTypeOK, Placed, DbInv, RunInv, RaceInv, SeedInv, [BootNext]_bootVars, ~torn'
  PROVE  DbInv' /\ RunInv' /\ RaceInv'
<1>1. ASSUME NEW c \in Container, Enter(c) \/ ReadSecrets(c) \/ DrawSecret(c)
      PROVE  DbInv' /\ RunInv' /\ RaceInv'
  <2>1. UNCHANGED <<transactional, db, run, harmed, racing>>
    BY <1>1 DEF Enter, ReadSecrets, DrawSecret, history
  <2> QED BY <2>1, Elsewhere
<1>2. ASSUME NEW c \in Container, Load(c) \/ SeedJs(c) \/ StopContainer(c)
      PROVE  DbInv' /\ RunInv' /\ RaceInv'
  BY <1>2, ContainerLoad, ContainerSeeds, ContainerStop
<1>3. ASSUME NEW c \in Container, Check(c) \/ Execute(c) \/ Commit(c) \/ Break(c) \/ Lose(c)
      PROVE  DbInv' /\ RunInv' /\ RaceInv'
  BY <1>3, ContainerCheck, ContainerExecute, ContainerCommit, ContainerBreak, ContainerLose
<1>4. ASSUME NEW m \in Known, Revert(m)
      PROVE  DbInv' /\ RunInv' /\ RaceInv'
  BY <1>4, OperatorRevert
<1>5. ASSUME Check(Operator) \/ Execute(Operator)
               \/ Commit(Operator) \/ Break(Operator) \/ Lose(Operator)
      PROVE  DbInv' /\ RunInv' /\ RaceInv'
  BY <1>5, OperatorCheck, OperatorExecute, OperatorEnds
<1>6. CASE UNCHANGED bootVars
  <2>1. UNCHANGED <<transactional, db, run, harmed, racing>>
    BY <1>6 DEF bootVars, history
  <2> QED BY <2>1, Elsewhere
<1> QED BY <1>1, <1>2, <1>3, <1>4, <1>5, <1>6 DEF BootNext, SeedJs, Process

-----------------------------------------------------------------------------
(***************************************************************************)
(* The seeds: what is behind them, and the one that is not refused.        *)
(***************************************************************************)

\* What comes before each row.
LEMMA BehindIs ==
  /\ Behind["setting"] = {} /\ Behind["role"] = {"setting"}
  /\ Behind["user"] = {"setting", "role"} /\ Behind["link"] = {"setting", "role", "user"}
  BY DEF Behind

\* Steps that leave seed.js alone or start it.
LEMMA SeedKept ==
  ASSUME SeedInv, db \subseteq db', Migrating(Operator)' => Migrating(Operator),
         \A c \in Container : \/ phase'[c] = phase[c]
                              \/ phase'[c] \notin SeedPhases
                              \/ phase'[c] = "setting" /\ ~Migrating(Operator),
         racing' /\ ~transactional' /\ ~harmed' /\ ~cut'
            => AdminRows \subseteq db' \/ \E c \in Container : Unrefused(c)'
  PROVE  SeedInv'
<1>1. ASSUME NEW c \in Container, NEW r \in AdminRows, phase'[c] \in {r, NotFound[r]}
      PROVE  Behind[r] \subseteq db'
  <2>1. phase'[c] \in SeedPhases
    BY <1>1, PhasesAre
  <2>2. CASE phase'[c] = phase[c]
    BY <1>1, <2>2 DEF SeedInv
  <2>3. CASE phase'[c] = "setting"
    <3>1. r = "setting"
      BY <1>1, <2>3, RowPhases
    <3> QED BY <3>1, BehindIs
  <2> QED BY <2>1, <2>2, <2>3
<1>2. Migrating(Operator)' => \A c \in Container : phase'[c] \notin SeedPhases
  BY DEF SeedInv
<1> QED BY <1>1, <1>2 DEF SeedInv

\* Steps that leave the database and every phase of seed.js as they are.
LEMMA SeedElsewhere ==
  ASSUME SeedInv, UNCHANGED <<transactional, db, harmed, racing, cut>>, run' = run,
         \A c \in Container : \/ phase'[c] = phase[c]
                              \/ /\ phase[c] \notin SeedPhases \cup {"run"}
                                 /\ phase'[c] \notin SeedPhases \cup {"run"}
  PROVE  SeedInv'
<1>1. Migrating(Operator)' <=> Migrating(Operator)
  BY DEF Migrating
<1>2. \A c \in Container : Unrefused(c) => Unrefused(c)'
  <2> SUFFICES ASSUME NEW c \in Container, Unrefused(c) PROVE Unrefused(c)'
    OBVIOUS
  <2>1. phase[c] \in SeedPhases \cup {"run"}
    BY PhasesAre DEF Unrefused
  <2> QED BY <2>1 DEF Unrefused
<1> QED BY <1>1, <1>2, SeedKept DEF SeedInv

\* What seed.js has found or inserted is behind it.
LEMMA AfterIs ==
  ASSUME NEW c \in Container, NEW r \in AdminRows, phase'[c] = AfterRow[r],
         Behind[r] \cup {r} \subseteq db'
  PROVE  /\ \A x \in AdminRows : phase'[c] \in {x, NotFound[x]} => Behind[x] \subseteq db'
         /\ AdminRows \subseteq db' \/ Unrefused(c)'
<1>1. CASE r = "link"
  <2>1. phase'[c] = "serving" /\ AdminRows \subseteq db'
    BY <1>1, RowPhases, BehindIs
  <2> QED BY <2>1, RowPhases
<1>2. CASE r # "link"
  <2>1. /\ phase'[c] \in AdminRows
        /\ \A x \in AdminRows : phase'[c] \in {x, NotFound[x]} => x = phase'[c]
        /\ Behind[phase'[c]] = Behind[r] \cup {r}
    <3>1. \/ r = "setting" /\ phase'[c] = "role"
          \/ r = "role" /\ phase'[c] = "user"
          \/ r = "user" /\ phase'[c] = "link"
      BY <1>2, RowPhases
    <3>2. phase'[c] \in AdminRows /\ Behind[phase'[c]] = Behind[r] \cup {r}
      BY <3>1, RowPhases, BehindIs
    <3>3. \A x \in AdminRows : phase'[c] \in {x, NotFound[x]} => x = phase'[c]
      BY <3>1, RowPhases
    <3> QED BY <3>2, <3>3
  <2> QED BY <2>1 DEF Unrefused
<1> QED BY <1>1, <1>2

\* A seed that is refused although its row is not there: somebody migrates.
LEMMA RefusedSeed ==
  ASSUME BootTypeOK, Placed, DbInv, RaceInv, SeedInv, racing, ~transactional, ~harmed,
         NEW c \in Container, NEW r \in AdminRows, SeedRefused(c, r), Unrefused(c)
  PROVE  \E d \in Container \ {c} : phase[d] = "run"
<1>1. phase[c] \in {r, NotFound[r]} /\ phase[c] \in SeedPhases
  BY PhasesAre DEF SeedRefused
<1>2. ~Migrating(c) /\ ~Migrating(Operator)
  BY <1>1, PhasesAre DEF Placed, SeedInv
<1>3. View(c) = db
  BY <1>2, RunTypes DEF Migrating, View
<1>4. ~(Needs(r) \subseteq db)
  <2>1. CASE phase[c] = r /\ TableOf[r] \notin db
    BY <2>1 DEF Needs
  <2>2. CASE phase[c] = NotFound[r] /\ Refused(c, InsertRow(r))
    <3>1. r = "setting" \/ r \notin db
      BY <2>2, RowPhases DEF Unrefused
    <3>2. InsertRow(r).do = "row" /\ InsertRow(r).what = r
      BY StatementsAre
    <3>3. ~Unique(InsertRow(r)) \/ r \notin View(c) \cup db
      BY <1>3, <3>1, <3>2 DEF Unique
    <3> QED BY <1>3, <2>2, <3>2, <3>3 DEF Refused
  <2> QED BY <2>1, <2>2 DEF SeedRefused
<1>5. ~(Goal \subseteq db)
  <2> SUFFICES ASSUME Goal \subseteq db PROVE Needs(r) \subseteq db
    BY <1>4
  <2>1. Whole(db)
    BY <1>2 DEF DbInv
  <2>2. Objects("InitialSchema") \cup Objects("AddGuardNameFavicon") \subseteq db
    BY <2>1, KnownIs DEF Whole, Recorded, Goal
  <2>3. {"settings", "roles", "users", "users_roles", "guard_name"} \subseteq db
    BY <2>2, ObjectsAre DEF Tables1
  <2> QED BY <2>3, NeedsAre, RowPhases
<1>6. PICK d \in Container : Ahead(d)
  BY <1>5 DEF RaceInv
<1>7. phase[d] = "run"
  BY <1>6 DEF Ahead, Placed
<1>8. d # c
  BY <1>2, <1>6 DEF Ahead
<1> QED BY <1>7, <1>8

\* A step of seed.js.
LEMMA SeedingSeeds ==
  ASSUME BootTypeOK, Placed, DbInv, RaceInv, SeedInv, NEW c \in Container, SeedJs(c)
  PROVE  SeedInv'
<1>1. /\ phase[c] \in SeedPhases /\ phase'[c] \in SeedPhases \cup {"serving"}
      /\ \A d \in Container \ {c} : phase'[d] = phase[d]
      /\ UNCHANGED <<transactional, run, harmed, racing>> /\ db \subseteq db'
      /\ phase \in [Container -> Phases]
  BY SeedJsIs DEF BootTypeOK
<1>2. ~Migrating(Operator) /\ ~Migrating(Operator)'
  BY <1>1 DEF SeedInv, Migrating
<1>3. SUFFICES /\ \A r \in AdminRows : phase'[c] \in {r, NotFound[r]} => Behind[r] \subseteq db'
               /\ racing' /\ ~transactional' /\ ~harmed' /\ ~cut'
                     => AdminRows \subseteq db' \/ \E d \in Container : Unrefused(d)'
  BY <1>1, <1>2 DEF SeedInv
<1>4. CASE SeedLost(c)
  <2>1. phase'[c] = "serving" /\ cut' = TRUE
    BY <1>1, <1>4 DEF SeedLost
  <2> QED BY <2>1, RowPhases
<1>5. ASSUME NEW r \in AdminRows, SeedFinds(c, r)
      PROVE  /\ \A x \in AdminRows : phase'[c] \in {x, NotFound[x]} => Behind[x] \subseteq db'
             /\ AdminRows \subseteq db' \/ Unrefused(c)'
  <2>1. /\ phase[c] = r /\ phase'[c] = (IF r \in db THEN AfterRow[r] ELSE NotFound[r])
        /\ Behind[r] \subseteq db /\ db' = db
    BY <1>1, <1>5 DEF SeedFinds, SeedInv
  <2>2. CASE r \in db
    BY <2>1, <2>2, AfterIs
  <2>3. CASE r \notin db
    <3>1. \A x \in AdminRows : phase'[c] \in {x, NotFound[x]} => x = r
      BY <2>1, <2>3, RowPhases
    <3> QED BY <2>1, <2>3, <3>1 DEF Unrefused
  <2> QED BY <2>2, <2>3
<1>6. ASSUME NEW r \in AdminRows, SeedInserts(c, r)
      PROVE  /\ \A x \in AdminRows : phase'[c] \in {x, NotFound[x]} => Behind[x] \subseteq db'
             /\ AdminRows \subseteq db' \/ Unrefused(c)'
  <2>1. /\ phase[c] = NotFound[r] /\ phase'[c] = AfterRow[r]
        /\ Behind[r] \subseteq db /\ db' = db \cup {r}
    BY <1>1, <1>6 DEF SeedInserts, SeedInv
  <2> QED BY <2>1, AfterIs
<1>7. ASSUME NEW r \in AdminRows, SeedRefused(c, r)
      PROVE  /\ \A x \in AdminRows : phase'[c] \in {x, NotFound[x]} => Behind[x] \subseteq db'
             /\ racing' /\ ~transactional' /\ ~harmed' /\ ~cut'
                  => AdminRows \subseteq db' \/ \E d \in Container : Unrefused(d)'
  <2>1. phase'[c] = "serving" /\ db' = db /\ cut' = cut
    BY <1>1, <1>7 DEF SeedRefused, history
  <2>2. ASSUME racing, ~transactional, ~harmed, ~cut
        PROVE  AdminRows \subseteq db' \/ \E d \in Container : Unrefused(d)'
    <3>1. CASE AdminRows \subseteq db
      BY <2>1, <3>1
    <3>2. ASSUME NEW d \in Container, Unrefused(d), d # c
          PROVE  Unrefused(d)'
      BY <1>1, <2>1, <3>2 DEF Unrefused
    <3>3. CASE Unrefused(c)
      <4>1. PICK d \in Container \ {c} : phase[d] = "run"
        BY <1>7, <2>2, <3>3, RefusedSeed
      <4> QED BY <3>2, <4>1 DEF Unrefused
    <3> QED BY <2>2, <3>1, <3>2, <3>3 DEF SeedInv
  <2> QED BY <1>1, <2>1, <2>2, RowPhases
<1> QED BY <1>4, <1>5, <1>6, <1>7 DEF SeedJs

\* The end of a container's run starts its seed.js.
LEMMA SeedingEnds ==
  ASSUME BootTypeOK, RunInv, SeedInv, NEW c \in Container, Commit(c) \/ Break(c) \/ Lose(c)
  PROVE  SeedInv'
<1>1. /\ Migrating(c) /\ Finish(c) /\ c \in Process /\ Operator \in Process /\ Operator # c
  BY BootAssumption DEF Commit, Break, Broken, Ready, Lose, Process
<1>2. Forward(c) /\ ~Migrating(Operator)
  BY <1>1 DEF RunInv
<1>3. db \subseteq db'
  BY <1>2 DEF Commit, Break, Lose, Forward, View
<1>4. /\ run'[Operator] = run[Operator]
      /\ \A d \in Container : phase'[d] = IF d = c THEN "setting" ELSE phase[d]
  BY <1>1, FinishIs
<1>5. Unrefused(c)'
  BY <1>4, RowPhases DEF Unrefused
<1>6. ~Migrating(Operator)'
  BY <1>2, <1>4 DEF Migrating
<1> QED BY <1>2, <1>3, <1>4, <1>5, <1>6, SeedKept

\* A statement of a run, or the look before it.
LEMMA SeedingRuns ==
  ASSUME BootTypeOK, Placed', RunInv, SeedInv, NEW c \in Container, Check(c) \/ Execute(c)
  PROVE  SeedInv'
<1>1. /\ c \in Process /\ Operator \in Process /\ Operator # c
      /\ Migrating(c) /\ run' = [run EXCEPT ![c] = run'[c]] /\ run \in [Process -> Runs]
  BY BootAssumption, CheckIs, ExecuteIs DEF Process, BootTypeOK
<1>2. Forward(c) /\ ~Migrating(Operator)
  BY <1>1 DEF RunInv
<1>3. Migrating(c)' /\ db \subseteq db' /\ phase' = phase
  <2>1. CASE Check(c)
    BY <1>2, <2>1, ForwardCheck DEF Check
  <2>2. CASE Execute(c)
    BY <1>2, <2>2, ForwardExecute DEF Execute
  <2> QED BY <2>1, <2>2
<1>4. Unrefused(c)'
  BY <1>3 DEF Placed, Unrefused
<1>5. ~Migrating(Operator)'
  BY <1>1, <1>2 DEF Migrating
<1> QED BY <1>2, <1>3, <1>4, <1>5, SeedKept

\* A container starts its run, or goes on with seed.js at once.
LEMMA SeedingLoad ==
  ASSUME BootTypeOK, SeedInv, NEW c \in Container, Load(c)
  PROVE  SeedInv'
<1>1. /\ c \in Process /\ Operator \in Process /\ Operator # c /\ ~Migrating(Operator)
      /\ db' = db /\ run \in [Process -> Runs] /\ phase \in [Container -> Phases]
  BY BootAssumption DEF Process, Load, BootTypeOK
<1>2. phase'[c] \in {"setting", "run"} /\ \A d \in Container \ {c} : phase'[d] = phase[d]
  <2>1. phase' = [phase EXCEPT ![c] = "setting"] \/ phase' = [phase EXCEPT ![c] = "run"]
    BY DEF Load
  <2> QED BY <1>1, <2>1
<1>3. run'[Operator] = run[Operator]
  BY <1>1 DEF Load, Start
<1>4. Unrefused(c)'
  BY <1>2, RowPhases DEF Unrefused
<1>5. ~Migrating(Operator)'
  BY <1>1, <1>3 DEF Migrating
<1>6. "run" \notin SeedPhases
  BY PhasesAre
<1> QED BY <1>1, <1>2, <1>4, <1>5, <1>6, SeedKept

\* A container stops.
LEMMA SeedingStop ==
  ASSUME BootTypeOK, SeedInv, NEW c \in Container, StopContainer(c)
  PROVE  SeedInv'
<1>1. /\ Operator \in Process /\ Operator # c /\ run \in [Process -> Runs]
      /\ phase \in [Container -> Phases] /\ db' = db /\ transactional' = transactional
  BY BootAssumption DEF Process, StopContainer, BootTypeOK
<1>2. phase'[c] = "off" /\ \A d \in Container \ {c} : phase'[d] = phase[d]
  BY <1>1 DEF StopContainer
<1>3. Migrating(Operator)' <=> Migrating(Operator)
  BY <1>1 DEF StopContainer, Migrating
<1>4. ASSUME racing', ~transactional', ~harmed', ~cut'
      PROVE  AdminRows \subseteq db' \/ \E d \in Container : Unrefused(d)'
  <2>0. {harmed, torn, racing, cut, shared} \subseteq BOOLEAN
    BY DEF BootTypeOK
  <2>1. racing /\ ~transactional /\ ~harmed /\ ~cut /\ phase[c] \notin SeedPhases \cup {"run"}
    <3>1. /\ harmed' = (harmed \/ Migrating(c)) /\ racing' = (racing /\ ~Migrating(c))
          /\ cut' = (cut \/ phase[c] \in SeedPhases \cup {"run"})
      BY DEF StopContainer
    <3>2. racing /\ ~transactional /\ ~harmed
      BY <1>1, <1>4, <3>1
    <3>3. ~cut /\ phase[c] \notin SeedPhases \cup {"run"}
      BY <1>4, <3>1
    <3> QED BY <3>2, <3>3
  <2>2. ~Unrefused(c)
    BY <2>1, PhasesAre DEF Unrefused
  <2>3. \A d \in Container \ {c} : Unrefused(d) => Unrefused(d)'
    BY <1>1, <1>2 DEF Unrefused
  <2> QED BY <1>1, <2>1, <2>2, <2>3 DEF SeedInv
<1>5. "off" \notin SeedPhases
  BY PhasesAre
<1> QED BY <1>1, <1>2, <1>3, <1>4, <1>5, SeedKept

\* The operator's steps: no seed.js is on its way.
LEMMA SeedingRevert ==
  ASSUME BootTypeOK, SeedInv, NEW m \in Known, Revert(m)
  PROVE  SeedInv'
<1>1. /\ phase' = phase /\ db' = db /\ racing' = FALSE
      /\ \A c \in Container : phase[c] \notin SeedPhases
  BY DEF Revert
<1>2. \A r \in AdminRows : r \in SeedPhases /\ NotFound[r] \in SeedPhases
  BY PhasesAre
<1> QED BY <1>1, <1>2 DEF SeedInv

\* A statement of a revert, or its end.
LEMMA SeedingOperator ==
  ASSUME BootTypeOK, RaceInv, SeedInv,
         Check(Operator) \/ Execute(Operator) \/ Commit(Operator) \/ Break(Operator) \/ Lose(Operator)
  PROVE  SeedInv'
<1>1. /\ Operator \in Process /\ Operator \notin Container
  BY BootAssumption DEF Process
<1>2. Migrating(Operator)
  BY <1>1, CheckIs, ExecuteIs DEF Commit, Break, Broken, Ready, Lose
<1>3. ~racing /\ \A c \in Container : phase[c] \notin SeedPhases
  BY <1>2 DEF RaceInv, SeedInv
<1>4. \A c \in Container : phase'[c] = phase[c]
  <2>1. CASE Check(Operator) \/ Execute(Operator)
    BY <2>1 DEF Check, Execute
  <2>2. CASE Commit(Operator) \/ Break(Operator) \/ Lose(Operator)
    <3>1. Finish(Operator)
      BY <2>2 DEF Commit, Break, Lose
    <3> QED BY <1>1, <3>1, FinishIs
  <2> QED BY <2>1, <2>2
<1>5. ~racing'
  <2>1. CASE Check(Operator) \/ Execute(Operator)
    BY <1>3, <2>1 DEF Check, Execute, history
  <2>2. CASE Commit(Operator) \/ Break(Operator) \/ Lose(Operator)
    BY <1>3, <2>2 DEF Commit, Break, Lose, history
  <2> QED BY <2>1, <2>2
<1>6. \A r \in AdminRows : r \in SeedPhases /\ NotFound[r] \in SeedPhases
  BY PhasesAre
<1> QED BY <1>3, <1>4, <1>5, <1>6 DEF SeedInv

\* The seeds, from step to step.
LEMMA SeedingStep ==
  ASSUME BootTypeOK, Placed, DbInv, RunInv, RaceInv, SeedInv, Placed', [BootNext]_bootVars
  PROVE  SeedInv'
<1>1. ASSUME NEW c \in Container, Enter(c) \/ ReadSecrets(c) \/ DrawSecret(c)
      PROVE  SeedInv'
  <2>1. /\ UNCHANGED <<transactional, db, harmed, racing, cut>> /\ run' = run
        /\ phase \in [Container -> Phases]
    BY <1>1 DEF Enter, ReadSecrets, DrawSecret, history, BootTypeOK
  <2>2. /\ phase[c] \in {"off", "secrets", "draw"} /\ phase'[c] \in {"secrets", "draw", "load"}
        /\ \A d \in Container \ {c} : phase'[d] = phase[d]
    BY <1>1, <2>1 DEF Enter, ReadSecrets, DrawSecret
  <2>3. phase[c] \notin SeedPhases \cup {"run"} /\ phase'[c] \notin SeedPhases \cup {"run"}
    BY <2>2, PhasesAre
  <2> QED BY <2>1, <2>2, <2>3, SeedElsewhere
<1>2. ASSUME NEW c \in Container, Load(c) \/ SeedJs(c) \/ StopContainer(c)
      PROVE  SeedInv'
  BY <1>2, SeedingLoad, SeedingSeeds, SeedingStop
<1>3. ASSUME NEW c \in Container, Check(c) \/ Execute(c) \/ Commit(c) \/ Break(c) \/ Lose(c)
      PROVE  SeedInv'
  BY <1>3, SeedingRuns, SeedingEnds
<1>4. ASSUME NEW m \in Known, Revert(m)
      PROVE  SeedInv'
  BY <1>4, SeedingRevert
<1>5. ASSUME Check(Operator) \/ Execute(Operator)
               \/ Commit(Operator) \/ Break(Operator) \/ Lose(Operator)
      PROVE  SeedInv'
  BY <1>5, SeedingOperator
<1>6. CASE UNCHANGED bootVars
  BY <1>6, SeedElsewhere DEF bootVars, history
<1> QED BY <1>1, <1>2, <1>3, <1>4, <1>5, <1>6 DEF BootNext, SeedJs, Process

-----------------------------------------------------------------------------
(***************************************************************************)
(* All steps together, and what follows.                                   *)
(***************************************************************************)
\* The inductive invariant, initially.
LEMMA BootInitially == BootInit => BootInv
<1> SUFFICES ASSUME BootInit PROVE BootInv
  OBVIOUS
<1>1. \A p \in Process : ~Migrating(p)
  BY DEF BootInit, Migrating
<1>2. \A c \in Container : c \in Process
  BY DEF Process
<1>3. Operator \in Process
  BY DEF Process
<1>4. DbInv
  BY DEF BootInit, DbInv, Chained, Whole, Owned, Settled
<1>5. RunInv /\ RaceInv
  BY <1>1, <1>2, <1>3 DEF BootInit, RunInv, RaceInv
<1>8. SeedInv
  <2>1. \A c \in Container : phase[c] \notin SeedPhases
    BY PhasesAre DEF BootInit
  <2>2. ~racing
    BY DEF BootInit
  <2> QED BY <2>1, <2>2, PhasesAre DEF SeedInv
<1>6. BootTypeOK /\ Placed /\ SecretsInv
  BY BootTypeInit, PlacedInit, SecretsInit
<1>7. ~torn
  BY DEF BootInit
<1> QED BY <1>4, <1>5, <1>6, <1>7, <1>8 DEF BootInv

\* The inductive invariant, from step to step.
LEMMA BootStep == BootInv /\ [BootNext]_bootVars => BootInv'
<1> SUFFICES ASSUME BootInv, [BootNext]_bootVars PROVE BootInv'
  OBVIOUS
<1>1. BootTypeOK' /\ Placed' /\ SecretsInv'
  BY BootTypeStep, PhaseSteps, SecretsStep DEF BootInv
<1>2. (torn' => harmed' /\ ~transactional') /\ (torn => torn')
  BY TornStep DEF BootInv
<1>3. ~torn' => DbInv' /\ RunInv' /\ RaceInv'
  BY <1>2, MigrationStep DEF BootInv
<1>4. ~torn' => SeedInv'
  BY <1>1, <1>2, <1>3, SeedingStep DEF BootInv
<1> QED BY <1>1, <1>2, <1>3, <1>4 DEF BootInv

\* The inductive invariant: what is in the database fits what is recorded, every run
\* has before it what it needs, of containers that race one is ahead, and one that
\* seeds is not refused.
THEOREM BootInvariance == BootSpec => []BootInv
  BY BootInitially, BootStep, PTL DEF BootSpec

\* Every variable of Boot has its type, for any number of containers: no statement
\* writes a fact that is not one of the schema.
THEOREM BootTypeCorrect == BootSpec => []BootTypeOK
<1>1. BootInv => BootTypeOK
  BY DEF BootInv
<1> QED BY <1>1, BootInvariance, PTL

\* However the runs of containers interleave, and wherever one stops, a migration that
\* is recorded has left all it is there for, unless a revert was torn apart; and with
\* transactional DDL nothing is left of a migration that is not recorded.
THEOREM SchemaMatchesAlways == BootSpec => []SchemaMatches
<1>1. BootInv => SchemaMatches
  <2> SUFFICES ASSUME BootInv PROVE SchemaMatches
    OBVIOUS
  <2>1. ~torn /\ ~Migrating(Operator) => \A m \in Known \cap db : Objects(m) \subseteq db
    BY DEF BootInv, DbInv, Whole, Recorded
  <2>2. transactional => db \ (Known \cup AdminRows \cup {"guard_name", "favicon"})
                            \subseteq UNION {Objects(m) : m \in Known \cap db}
    BY DEF BootInv, DbInv, Owned
  <2> QED BY <2>1, <2>2 DEF SchemaMatches
<1> QED BY <1>1, BootInvariance, PTL

\* Of containers that race for the migrations one completes them, as one container
\* alone does: when none of their runs was stopped and none is left, the schema is
\* complete.  The administrator is there as well, with MySQL as soon as every
\* container has come to the end of its seed.js.
THEOREM OneCompletesAlways == BootSpec => []OneCompletes
<1>1. BootInv => OneCompletes
  <2> SUFFICES ASSUME BootInv, racing, transactional \/ ~harmed, Quiet
               PROVE  /\ Goal \subseteq db
                      /\ transactional => AdminRows \subseteq db
                      /\ ~cut /\ (\A c \in Container : phase[c] \notin SeedPhases \cup {"run"})
                           => AdminRows \subseteq db
    BY DEF OneCompletes, Goal, Quiet
  <2>1. \A c \in Container : ~Ahead(c)
    BY DEF Ahead, Quiet, Process
  <2>2. ~torn
    BY DEF BootInv
  <2>3. Goal \subseteq db
    BY <2>1, <2>2 DEF BootInv, RaceInv
  <2>4. transactional => AdminRows \subseteq db
    <3>1. "InitialSchema" \in db
      BY <2>3, KnownIs DEF Goal
    <3> QED BY <2>2, <3>1 DEF BootInv, DbInv, Settled
  <2>5. ASSUME ~transactional, ~cut, \A c \in Container : phase[c] \notin SeedPhases \cup {"run"}
        PROVE  AdminRows \subseteq db
    <3>1. \A c \in Container : ~Unrefused(c)
      BY <2>5, PhasesAre DEF Unrefused
    <3> QED BY <2>2, <2>5, <3>1 DEF BootInv, SeedInv
  <2> QED BY <2>3, <2>4, <2>5
<1> QED BY <1>1, BootInvariance, PTL

\* A container past its secrets step uses the secret in the file, as long as no two
\* containers have drawn one at the same time.
THEOREM SecretsAgreeAlways == BootSpec => []SecretsAgree
<1>1. BootInv => SecretsAgree
  BY DEF BootInv, SecretsInv, SecretsAgree
<1> QED BY <1>1, BootInvariance, PTL

=============================================================================
