------------------------------- MODULE Seeder -------------------------------
(***************************************************************************)
(* The first rows of the database: seedInitialData, which migration        *)
(* AddAdminUser runs once inside its transaction and seed.ts at every boot *)
(* of a container, statement by statement without a transaction; and the   *)
(* row of settings that SettingService.index inserts when it finds none.   *)
(*                                                                         *)
(* Several containers may boot at once, a seed may stop anywhere, and an   *)
(* administrator edits the same tables meanwhile.  Unlike AccessControl    *)
(* this module has the unique columns: roles.name, users.email and         *)
(* users.code.  Edits of the administrator are single steps here; how they *)
(* overlap each other is the subject of AccessControl.                     *)
(***************************************************************************)

CONSTANTS
    Setting, Role, User,         \* UUIDs, never issued twice
    Name, Email, Code,           \* values of the unique columns
    Administrator,               \* 'Administrator'
    AdminEmail, AdminCode,       \* 'admin@admin.com', '0000000001'
    Seed,                        \* processes that run the seed
    Visitor,                     \* requests in SettingService.index
    None                         \* no row

ASSUME SeederAssumption ==
    /\ Administrator \in Name /\ AdminEmail \in Email /\ AdminCode \in Code
    /\ None \notin Name /\ None \notin Role /\ None \notin User
    /\ None \notin [email: Email, code: Code]

VARIABLES
    settings,   \* ids of the rows of settings
    roles,      \* per id: the name of its row
    users,      \* per id: email and code of its row
    links,      \* table users_roles
    issued,     \* ids of roles and users ever given to a row
    seed,       \* seeds in flight
    index,      \* visitors that found no settings and are about to insert one
    (***********************************************************************)
    (* History.  The program does not have these variables.                *)
    (***********************************************************************)
    calm,       \* seeds that met no edit by an administrator since they began
    alone,      \* calm seeds that met no other seed either
    again,      \* calm seeds that began with everything there
    quiet       \* no two insertions of a settings row have overlapped

tables == <<settings, roles, users, links, issued>>
vars == <<tables, seed, index, calm, alone, again, quiet>>

Row == [email: Email, code: Code]

(***************************************************************************)
(* Where a seed is: before a query ("setting", "role", "user", "link"), or *)
(* between the one that found nothing and the insertion.                   *)
(***************************************************************************)
Looking == {"setting", "role", "user", "link"}
Inserting == {"insertSetting", "insertRole", "insertUser", "insertLink"}
Over == {"idle", "done", "failed"}
Seeds == [pc: Looking \cup Inserting \cup Over, role: Role \cup {None}, user: User \cup {None}]
Idle == [pc |-> "idle", role |-> None, user |-> None]

TypeOK ==
    /\ settings \subseteq Setting
    /\ roles \in [Role -> Name \cup {None}]
    /\ users \in [User -> Row \cup {None}]
    /\ links \subseteq User \X Role
    /\ issued \subseteq Role \cup User
    /\ seed \in [Seed -> Seeds]
    /\ index \subseteq Visitor
    /\ calm \subseteq Seed
    /\ alone \subseteq calm
    /\ again \subseteq calm
    /\ quiet \in BOOLEAN

Running(p) == seed[p].pc \notin Over
PendingSetting == index # {} \/ \E p \in Seed : seed[p].pc = "insertSetting"

\* Seed p goes on at pc, with the ids of the rows it has found or inserted.
Move(p, pc, role, user) ==
    seed' = [seed EXCEPT ![p] = [pc |-> pc, role |-> role, user |-> user]]
Goto(p, pc) == Move(p, pc, seed[p].role, seed[p].user)

\* The unique indexes roles__name, users__email and users__code.
NameTaken(n) == \E r \in Role : roles[r] = n
EmailTaken(e) == \E u \in User : users[u] # None /\ users[u].email = e
CodeTaken(c) == \E u \in User : users[u] # None /\ users[u].code = c

\* What a seed is for: the default administrator with the role that may do all.
AdminThere ==
    \E u \in User, r \in Role :
        /\ users[u] # None /\ users[u].email = AdminEmail
        /\ roles[r] = Administrator
        /\ <<u, r>> \in links

-----------------------------------------------------------------------------
(***************************************************************************)
(* seedInitialData, run by seed.ts.                                        *)
(***************************************************************************)
Boot(p) ==
    /\ ~Running(p)
    /\ Move(p, "setting", None, None)
    /\ calm' = calm \cup {p}
    /\ again' = IF settings # {} /\ AdminThere THEN again \cup {p} ELSE again \ {p}
    /\ alone' = IF \E x \in Seed : Running(x)
                THEN {x \in alone : ~Running(x)} \ {p}
                ELSE alone \cup {p}
    /\ UNCHANGED <<tables, index, quiet>>

\* SELECT id FROM settings LIMIT 1.
SettingMissing_Assumed == TRUE                   \* mutant: settings inserted unconditionally
SettingMissing == settings = {}
FindSetting(p) ==
    /\ seed[p].pc = "setting"
    /\ Goto(p, IF SettingMissing THEN "insertSetting" ELSE "role")
    /\ quiet' = (quiet /\ ~(SettingMissing /\ PendingSetting))
    /\ UNCHANGED <<tables, index, calm, alone, again>>

InsertSetting(p) ==
    /\ seed[p].pc = "insertSetting"
    /\ \E s \in Setting \ settings : settings' = settings \cup {s}
    /\ Goto(p, "role")
    /\ UNCHANGED <<roles, users, links, issued, index, calm, alone, again, quiet>>

\* findId(em, 'roles', 'name', 'Administrator').
FindRole(p) ==
    /\ seed[p].pc = "role"
    /\ \/ \E r \in Role :
            /\ roles[r] = Administrator
            /\ Move(p, "user", r, seed[p].user)
       \/ ~NameTaken(Administrator) /\ Goto(p, "insertRole")
    /\ UNCHANGED <<tables, index, calm, alone, again, quiet>>

\* A violated index is an error of the query: the seed ends there.
InsertRole(p) ==
    /\ seed[p].pc = "insertRole"
    /\ ~NameTaken(Administrator)
    /\ \E r \in Role \ issued :
        /\ roles' = [roles EXCEPT ![r] = Administrator]
        /\ issued' = issued \cup {r}
        /\ Move(p, "user", r, seed[p].user)
    /\ UNCHANGED <<settings, users, links, index, calm, alone, again, quiet>>

\* findId(em, 'users', 'email', 'admin@admin.com').
FindUser(p) ==
    /\ seed[p].pc = "user"
    /\ \/ \E u \in User :
            /\ users[u] # None /\ users[u].email = AdminEmail
            /\ Move(p, "link", seed[p].role, u)
       \/ ~EmailTaken(AdminEmail) /\ Goto(p, "insertUser")
    /\ UNCHANGED <<tables, index, calm, alone, again, quiet>>

\* The insertion comes after bcrypt.hash.
InsertUser(p) ==
    /\ seed[p].pc = "insertUser"
    /\ ~EmailTaken(AdminEmail) /\ ~CodeTaken(AdminCode)
    /\ \E u \in User \ issued :
        /\ users' = [users EXCEPT ![u] = [email |-> AdminEmail, code |-> AdminCode]]
        /\ issued' = issued \cup {u}
        /\ Move(p, "link", seed[p].role, u)
    /\ UNCHANGED <<settings, roles, links, index, calm, alone, again, quiet>>

\* The link between the two rows found or inserted.
LinkFound_OfUser(u, r) == \E x \in Role : <<u, x>> \in links  \* mutant: any role will do
LinkFound_Never(u, r) == FALSE                   \* mutant: not looked for
LinkFound(u, r) == <<u, r>> \in links
FindLink(p) ==
    /\ seed[p].pc = "link"
    /\ Goto(p, IF LinkFound(seed[p].user, seed[p].role) THEN "done" ELSE "insertLink")
    /\ UNCHANGED <<tables, index, calm, alone, again, quiet>>

NewLink_Turned(p) == <<seed[p].role, seed[p].user>>  \* mutant: columns the wrong way round
NewLink(p) == <<seed[p].user, seed[p].role>>
InsertLink(p) ==
    /\ seed[p].pc = "insertLink"
    /\ NewLink(p) \notin links
    /\ links' = links \cup {NewLink(p)}
    /\ Goto(p, "done")
    /\ UNCHANGED <<settings, roles, users, issued, index, calm, alone, again, quiet>>

\* An INSERT that violates a unique index or the key of users_roles.
Reject(p) ==
    /\ \/ seed[p].pc = "insertRole" /\ NameTaken(Administrator)
       \/ seed[p].pc = "insertUser" /\ (EmailTaken(AdminEmail) \/ CodeTaken(AdminCode))
       \/ seed[p].pc = "insertLink" /\ NewLink(p) \in links
    /\ Goto(p, "failed")
    /\ UNCHANGED <<tables, index, calm, alone, again, quiet>>

\* The container stops, or the connection is lost.
Stop(p) ==
    /\ Running(p)
    /\ Goto(p, "idle")
    /\ UNCHANGED <<tables, index, calm, alone, again, quiet>>

-----------------------------------------------------------------------------
(***************************************************************************)
(* SettingService.index.  With a row there it changes nothing.             *)
(***************************************************************************)
IndexFind(v) ==
    /\ v \notin index
    /\ settings = {}
    /\ index' = index \cup {v}
    /\ quiet' = (quiet /\ ~PendingSetting)
    /\ UNCHANGED <<tables, seed, calm, alone, again>>

IndexSave(v) ==
    /\ v \in index
    /\ \E s \in Setting \ settings : settings' = settings \cup {s}
    /\ index' = index \ {v}
    /\ UNCHANGED <<roles, users, links, issued, seed, calm, alone, again, quiet>>

-----------------------------------------------------------------------------
(***************************************************************************)
(* What an administrator does with the same rows.                          *)
(***************************************************************************)
Edit == calm' = {} /\ alone' = {} /\ again' = {} /\ UNCHANGED <<settings, seed, index, quiet>>

\* RoleService.store and update: 409, or the index, keeps names apart.
StoreRole(r, n) ==
    /\ r \notin issued /\ ~NameTaken(n)
    /\ roles' = [roles EXCEPT ![r] = n]
    /\ issued' = issued \cup {r}
    /\ Edit /\ UNCHANGED <<users, links>>

UpdateRole(r, n) ==
    /\ roles[r] # None /\ ~NameTaken(n)
    /\ roles' = [roles EXCEPT ![r] = n]
    /\ Edit /\ UNCHANGED <<users, links, issued>>

\* RoleService.delete takes the links along.
DeleteRole(r) ==
    /\ roles[r] # None
    /\ roles' = [roles EXCEPT ![r] = None]
    /\ links' = {l \in links : l[2] # r}
    /\ Edit /\ UNCHANGED <<users, issued>>

\* UserService.store, and with no role AuthService.register.
CreateUser(u, e, c, R) ==
    /\ u \notin issued /\ ~EmailTaken(e) /\ ~CodeTaken(c)
    /\ users' = [users EXCEPT ![u] = [email |-> e, code |-> c]]
    /\ issued' = issued \cup {u}
    /\ links' = links \cup ({u} \X R)
    /\ Edit /\ UNCHANGED roles

\* UserService.update: any column of the row and all of its roles.
UpdateUser(u, e, c, R) ==
    /\ users[u] # None /\ R # {}
    /\ \A x \in User \ {u} : users[x] # None => users[x].email # e /\ users[x].code # c
    /\ users' = [users EXCEPT ![u] = [email |-> e, code |-> c]]
    /\ links' = {l \in links : l[1] # u} \cup ({u} \X R)
    /\ Edit /\ UNCHANGED <<roles, issued>>

DeleteUser(u) ==
    /\ users[u] # None
    /\ users' = [users EXCEPT ![u] = None]
    /\ links' = {l \in links : l[1] # u}
    /\ Edit /\ UNCHANGED <<roles, issued>>

-----------------------------------------------------------------------------
\* The tables are empty when the migration failed (the container boots anyway).
Empty ==
    /\ settings = {} /\ links = {} /\ issued = {}
    /\ roles = [r \in Role |-> None]
    /\ users = [u \in User |-> None]

\* AddAdminUser has run: all of the seed in one transaction.
Migrated ==
    \E s \in Setting, r \in Role, u \in User :
        /\ settings = {s} /\ links = {<<u, r>>} /\ issued = {u, r}
        /\ roles = [x \in Role |-> IF x = r THEN Administrator ELSE None]
        /\ users = [x \in User |->
                      IF x = u THEN [email |-> AdminEmail, code |-> AdminCode] ELSE None]

Init ==
    /\ Empty \/ Migrated
    /\ seed = [p \in Seed |-> Idle]
    /\ index = {}
    /\ calm = {} /\ alone = {} /\ again = {}
    /\ quiet = TRUE

SeedStep(p) ==
    \/ Boot(p) \/ Reject(p) \/ Stop(p)
    \/ FindSetting(p) \/ InsertSetting(p)
    \/ FindRole(p) \/ InsertRole(p)
    \/ FindUser(p) \/ InsertUser(p)
    \/ FindLink(p) \/ InsertLink(p)

EditStep ==
    \/ \E r \in Role : DeleteRole(r) \/ \E n \in Name : StoreRole(r, n) \/ UpdateRole(r, n)
    \/ \E u \in User :
        \/ DeleteUser(u)
        \/ \E e \in Email, c \in Code, R \in SUBSET {r \in Role : roles[r] # None} :
               CreateUser(u, e, c, R) \/ UpdateUser(u, e, c, R)

Next ==
    \/ \E p \in Seed : SeedStep(p)
    \/ \E v \in Visitor : IndexFind(v) \/ IndexSave(v)
    \/ EditStep

Spec == Init /\ [][Next]_vars

-----------------------------------------------------------------------------
\* A seed that ran to its end and met no edit leaves the default administrator
\* with the role, whatever it found, whatever other seeds did at the same time
\* and wherever earlier ones stopped.
AdminReady == \A p \in calm : seed[p].pc = "done" => AdminThere

\* A seed that met neither an edit nor another seed fails in one case only:
\* somebody else holds the code the seed gives to its user.
FailsOnCodeOnly ==
    \A p \in alone : seed[p].pc = "failed" =>
        \E u \in User : users[u] # None /\ users[u].code = AdminCode
                                        /\ users[u].email # AdminEmail

\* A seed that begins when everything is there inserts nothing.
AgainInsertsNothing == \A p \in again : seed[p].pc \notin Inserting

\* One row of settings, unless two have looked for it before either inserted it.
OneSetting == quiet => \A s, t \in settings : s = t

-----------------------------------------------------------------------------
(***************************************************************************)
(* The inductive invariant behind these properties.                        *)
(***************************************************************************)

\* The unique indexes hold, and a row's id has been issued.
RowsInv ==
    /\ \A r \in Role : roles[r] # None =>
        r \in issued /\ \A x \in Role : roles[x] = roles[r] => x = r
    /\ \A u \in User : users[u] # None =>
        u \in issued /\ \A x \in User : users[x] # None /\ users[x].email = users[u].email => x = u

\* Past its role, past its user, a seed holds an id.
HeldInv ==
    \A p \in Seed :
        /\ seed[p].pc \in {"user", "insertUser", "link", "insertLink"} => seed[p].role \in Role
        /\ seed[p].pc \in {"link", "insertLink"} => seed[p].user \in User

IsAdministrator(r) == r \in Role /\ roles[r] = Administrator
IsAdmin(u) == u \in User /\ users[u] # None /\ users[u].email = AdminEmail

\* What a seed that met no edit has found or inserted is still there.
CalmInv ==
    \A p \in calm :
        /\ seed[p].pc \in {"user", "insertUser", "link", "insertLink"} => IsAdministrator(seed[p].role)
        /\ seed[p].pc \in {"link", "insertLink"} => IsAdmin(seed[p].user)
        /\ seed[p].pc = "done" => AdminThere

\* What a seed on its own has not found is still missing.
AloneInv ==
    \A p \in alone :
        /\ Running(p) => \A x \in Seed : Running(x) => x = p
        /\ seed[p].pc = "insertRole" => ~NameTaken(Administrator)
        /\ seed[p].pc = "insertUser" => ~EmailTaken(AdminEmail)
        /\ seed[p].pc = "insertLink" => NewLink(p) \notin links

AgainInv == \A p \in again : settings # {} /\ AdminThere

\* One insertion of a settings row at a time, and only while there is none.
SettingInv ==
    quiet =>
        /\ PendingSetting => settings = {}
        /\ \A v, w \in index : v = w
        /\ \A p, x \in Seed :
             seed[p].pc = "insertSetting" => index = {} /\ (seed[x].pc = "insertSetting" => x = p)

IndInv ==
    /\ TypeOK /\ RowsInv /\ HeldInv /\ CalmInv /\ AloneInv /\ AgainInv /\ SettingInv
    /\ FailsOnCodeOnly /\ AgainInsertsNothing /\ OneSetting

=============================================================================
