-------------------------------- MODULE Boot --------------------------------
(***************************************************************************)
(* How a container comes up (docker-entrypoint.sh): it settles its secrets,*)
(* runs the pending migrations, seeds the database, and starts the server  *)
(* whatever became of those.  Containers share one database and one data   *)
(* volume, start at any time and stop anywhere.  Once in a while, with no  *)
(* container migrating, the operator reverts the last migration.           *)
(*                                                                         *)
(* The migrations run as TypeORM (a dependency) runs them: pending ones in *)
(* the order of their time stamps in one transaction, each recorded after  *)
(* its up.  On a database without transactional DDL (MySQL) every          *)
(* statement on the schema commits by itself and closes the transaction.   *)
(* seedInitialData, in the last migration and again in seed.js, looks for  *)
(* and inserts four rows one after the other; of each only whether it is   *)
(* there is kept.  Their ids, and what an administrator does with them, is *)
(* module Seeder.                                                          *)
(***************************************************************************)
EXTENDS Naturals, Sequences, SequencesExt

CONSTANTS
    Container,
    Operator,       \* whoever runs migration:revert
    Null            \* no secret

ASSUME BootAssumption == Operator \notin Container /\ Null \notin Container

VARIABLES
    transactional,  \* whether the database rolls DDL back; never changes
    db,             \* facts committed: objects, migrations recorded, rows seeded
    run,            \* migration:run and migration:revert in progress
    phase,          \* per container: where its entrypoint is
    file,           \* SECRETS_FILE: the last secret in it
    secret,         \* per container: SESSION_SECRET (JWT_SECRET goes along)
    (***********************************************************************)
    (* History.  The program does not have these variables.                *)
    (***********************************************************************)
    harmed,         \* some run was stopped or lost its database
    torn,           \* a revert was, without transactional DDL
    racing,         \* runs came together, the first one with nothing else
                    \* running, and none of them was stopped; no revert since
    cut,            \* since that first one a container was stopped, or lost its
                    \* database, between its run and the end of its seed.js
    shared          \* no two containers have drawn a secret at the same time

secrets == <<file, secret, shared>>
history == <<harmed, torn, racing, cut>>
bootVars == <<transactional, db, run, phase, secrets, history>>

Process == Container \cup {Operator}

(***************************************************************************)
(* The rows of seedInitialData, in its order.  seed.js is at "role" when   *)
(* it is about to look for that row, at "no role" when it has found none.  *)
(***************************************************************************)
AdminRows == {"setting", "role", "user", "link"}
NotFound == [setting |-> "no setting", role |-> "no role", user |-> "no user", link |-> "no link"]
AfterRow == [setting |-> "role", role |-> "user", user |-> "link", link |-> "serving"]

SeedPhases == AdminRows \cup {NotFound[r] : r \in AdminRows}
Phases == {"off", "secrets", "draw", "load", "run", "serving"} \cup SeedPhases

-----------------------------------------------------------------------------
(***************************************************************************)
(* The migrations, in the order of their time stamps, as lists of          *)
(* statements.  A table goes by its name; its indexes, created one after   *)
(* the other right behind it, count as one object.                         *)
(***************************************************************************)
Table(t) == [do |-> "table", what |-> t]      \* createTable(.., ifNotExist)
Index(i) == [do |-> "index", what |-> i]      \* createIndex
Column(c) == [do |-> "column", what |-> c]    \* addColumn unless hasColumn
InsertRow(r) == [do |-> "row", what |-> r]    \* insertRow unless a query finds it
Drop(x) == [do |-> "drop", what |-> x]        \* dropTable(.., ifExist), dropColumn
Record(m) == [do |-> "record", what |-> m]
Unrecord(m) == [do |-> "unrecord", what |-> m]

Users == << Table("users"), Index("users__") >>
Roles == << Table("roles"), Index("roles__") >>
Permissions == << Table("permissions"), Index("permissions__") >>
Settings == << Table("settings") >>
JoinTables == << Table("users_roles"), Table("roles_permissions") >>
InitialSchemaUp == Users \o Roles \o Permissions \o Settings \o JoinTables
InitialSchemaDown ==
    << Drop("roles_permissions"), Drop("users_roles"), Drop("settings"),
       Drop("permissions"), Drop("roles"), Drop("users") >>
AddGuardNameFaviconUp_Table == << Column("guard_name"), Table("favicon") >>  \* mutant: createTable
AddGuardNameFaviconUp == << Column("guard_name"), Column("favicon") >>
AddGuardNameFaviconDown == << Drop("favicon"), Drop("guard_name") >>
CreateSessionTable == << Table("sessions") >>
SeedInitialData == << InsertRow("setting"), InsertRow("role"), InsertRow("user"), InsertRow("link") >>
AddAdminUser == SeedInitialData

Migrations == <<"InitialSchema", "AddGuardNameFavicon", "CreateSessionTable", "AddAdminUser">>

Up == [InitialSchema |-> InitialSchemaUp,
       AddGuardNameFavicon |-> AddGuardNameFaviconUp,
       CreateSessionTable |-> CreateSessionTable,
       AddAdminUser |-> AddAdminUser]
Down == [InitialSchema |-> InitialSchemaDown,
         AddGuardNameFavicon |-> AddGuardNameFaviconDown,
         CreateSessionTable |-> << Drop("sessions") >>,
         AddAdminUser |-> << >>]

\* The tables of InitialSchema with the columns AddGuardNameFavicon looks for.
Columns(t) == CASE t = "roles" -> {"guard_name"} [] t = "settings" -> {"favicon"} [] OTHER -> {}

\* What goes when x is dropped: a table takes its indexes and rows along.
Gone(x) ==
    {x} \cup Columns(x) \cup
    (CASE x = "users" -> {"users__", "user"} [] x = "roles" -> {"roles__", "role"}
       [] x = "permissions" -> {"permissions__"} [] x = "settings" -> {"setting"}
       [] x = "users_roles" -> {"link"} [] OTHER -> {})

\* The table an index, a column or a row belongs to.
TableOf == [users__ |-> "users", roles__ |-> "roles", permissions__ |-> "permissions",
            guard_name |-> "roles", favicon |-> "settings",
            setting |-> "settings", role |-> "roles", user |-> "users", link |-> "users_roles"]

\* What an insertion of a row needs: the role is given its guard_name.
Needs(r) == {TableOf[r]} \cup (IF r = "role" THEN {"guard_name"} ELSE {})

\* What a migration's up is there for.
Objects(m) == {Up[m][i].what : i \in DOMAIN Up[m]}

Known == ToSet(Migrations)
Facts == (UNION {Objects(m) : m \in Known}) \cup Known

\* Statements that commit by themselves where DDL is not transactional.
Ddl(s) == s.do \in {"table", "index", "column", "drop"}

-----------------------------------------------------------------------------
(***************************************************************************)
(* A run: what is left to do, whether the check of the first statement has *)
(* found nothing, whether its transaction was closed by DDL, and what its  *)
(* open transaction adds and removes.                                      *)
(***************************************************************************)
NoRun == [todo |-> << >>, looked |-> FALSE, closed |-> FALSE, add |-> {}, del |-> {}]
Statements == {Table(t) : t \in {"users", "roles", "permissions", "settings",
                                  "users_roles", "roles_permissions", "sessions"}}
              \cup {Index(i) : i \in {"users__", "roles__", "permissions__"}}
              \cup {Column(c) : c \in {"guard_name", "favicon"}}
              \cup {InsertRow(r) : r \in AdminRows}
              \cup {Drop(x) : x \in Facts}
              \cup {Record(m) : m \in Known} \cup {Unrecord(m) : m \in Known}

Runs == [todo: Seq(Statements), looked: BOOLEAN, closed: BOOLEAN,
         add: SUBSET Facts, del: SUBSET Facts]

BootTypeOK ==
    /\ transactional \in BOOLEAN
    /\ db \subseteq Facts
    /\ run \in [Process -> Runs]
    /\ phase \in [Container -> Phases]
    /\ file \in Container \cup {Null}
    /\ secret \in [Container -> Container \cup {Null}]
    /\ {harmed, torn, racing, cut, shared} \subseteq BOOLEAN

Migrating(p) == run[p] # NoRun
View(p) == (db \ run[p].del) \cup run[p].add
NextOf(p) == Head(run[p].todo)

\* The check in front of a statement finds that there is nothing to do.
Skips_Guard(p, s) ==                             \* mutant: the second column asks for the first
    \/ s.do \in {"table", "row"} /\ s.what \in View(p)
    \/ s.do = "column" /\ "guard_name" \in View(p)
    \/ s.do = "drop" /\ s.what \notin View(p)
Skips_Columns(p, s) ==                           \* mutant: no hasColumn
    \/ s.do \in {"table", "row"} /\ s.what \in View(p)
    \/ s.do = "drop" /\ s.what \notin View(p)
Skips(p, s) ==
    \/ s.do \in {"table", "column", "row"} /\ s.what \in View(p)
    \/ s.do = "drop" /\ s.what \notin View(p)

\* A second one of the same is refused; of settings rows there may be two.  (The
\* unique indexes precede the settings, for which a seed looks first.)
Unique(s) == s.do \in {"table", "index", "column", "row"} /\ s.what # "setting"

\* The database refuses the statement: the object is there, or what it belongs
\* to is not.
Refused(p, s) ==
    \/ Unique(s) /\ s.what \in View(p) \cup db
    \/ s.do \in {"index", "column"} /\ TableOf[s.what] \notin View(p)
    \/ s.do = "row" /\ ~(Needs(s.what) \subseteq View(p))

\* The query for a row is refused without its table.
Unreadable(p, s) == s.do = "row" /\ TableOf[s.what] \notin View(p)

\* Another transaction has the same object in the making, or in the dropping.
Blocked(p, s) ==
    \E x \in Process \ {p} : s.what \in run[x].add \cup run[x].del /\ (Unique(s) \/ s.do = "drop")

\* What an executed statement adds and removes.
Adds(s) == CASE s.do = "table" -> {s.what} \cup Columns(s.what)
             [] s.do \in {"drop", "unrecord"} -> {}
             [] OTHER -> {s.what}
Removes(s) == CASE s.do = "drop" -> Gone(s.what) [] s.do = "unrecord" -> {s.what} [] OTHER -> {}

\* Process p starts a run of these statements.
Start(p, todo) ==
    run' = [run EXCEPT ![p] = [NoRun EXCEPT !.todo = todo]]

\* The run of p is over; its container goes on with seed.js.
Finish(p) ==
    /\ run' = [run EXCEPT ![p] = NoRun]
    /\ phase' = IF p \in Container THEN [phase EXCEPT ![p] = "setting"] ELSE phase

\* migration:run loads what is recorded and starts on the rest.
Script(m) == Up[m] \o <<Record(m)>>
Due(m) == IF m \in db THEN << >> ELSE Script(m)
Pending == Due("InitialSchema") \o Due("AddGuardNameFavicon")
              \o Due("CreateSessionTable") \o Due("AddAdminUser")
Load(c) ==
    /\ phase[c] = "load"
    /\ ~Migrating(Operator)
    /\ IF Pending = << >>
       THEN phase' = [phase EXCEPT ![c] = "setting"] /\ UNCHANGED <<run, racing, cut>>
       ELSE /\ Start(c, Pending)
            /\ phase' = [phase EXCEPT ![c] = "run"]
            /\ racing' = (racing \/ \A p \in Process : ~Migrating(p))
            /\ cut' = (cut /\ \E p \in Process : Migrating(p))
    /\ UNCHANGED <<transactional, db, secrets, harmed, torn>>

\* migration:revert: the last migration recorded, if any.  The operator waits for
\* containers that migrate or seed, and they wait for the revert.
Undo(m) == Down[m] \o <<Unrecord(m)>>
Revert(m) ==
    /\ \A p \in Process : ~Migrating(p)
    /\ \A c \in Container : phase[c] \notin SeedPhases
    /\ m \in db
    /\ \A i, j \in DOMAIN Migrations : Migrations[i] = m /\ Migrations[j] \in db => j <= i
    /\ Start(Operator, Undo(m))
    /\ racing' = FALSE
    /\ UNCHANGED <<transactional, db, phase, secrets, harmed, torn, cut>>

\* hasTable, hasColumn, or the query for a row: the rest comes only if it is not
\* there.
Check(p) ==
    /\ Migrating(p) /\ run[p].todo # << >> /\ ~run[p].looked
    /\ NextOf(p).do \in {"table", "column", "row", "drop"}
    /\ ~Unreadable(p, NextOf(p))
    /\ run' = [run EXCEPT ![p] = IF Skips(p, NextOf(p)) THEN [run[p] EXCEPT !.todo = Tail(@)]
                                 ELSE [run[p] EXCEPT !.looked = TRUE]]
    /\ UNCHANGED <<transactional, db, phase, secrets, history>>

Ready(p) ==
    /\ Migrating(p) /\ run[p].todo # << >>
    /\ run[p].looked \/ NextOf(p).do \in {"index", "record", "unrecord"}
    /\ ~Blocked(p, NextOf(p))

\* A statement is executed: in the open transaction, or committed at once.
Execute(p) ==
    LET s == NextOf(p)
        after == (View(p) \ Removes(s)) \cup Adds(s)
        closes == ~transactional /\ (run[p].closed \/ Ddl(s))
        next == [run[p] EXCEPT !.todo = Tail(@), !.looked = FALSE]
    IN  /\ Ready(p) /\ ~Refused(p, s)
        /\ IF closes
           THEN /\ db' = after
                /\ run' = [run EXCEPT ![p] = [next EXCEPT !.closed = TRUE, !.add = {}, !.del = {}]]
           ELSE /\ db' = db
                /\ run' = [run EXCEPT ![p] = [next EXCEPT !.add = (@ \ Removes(s)) \cup Adds(s),
                                                          !.del = (@ \ Adds(s)) \cup Removes(s)]]
        /\ UNCHANGED <<transactional, phase, secrets, history>>

\* Nothing is left to do.
Commit(p) ==
    /\ Migrating(p) /\ run[p].todo = << >>
    /\ db' = View(p)
    /\ Finish(p)
    /\ UNCHANGED <<transactional, secrets, history>>

\* A statement is refused: the transaction, if still open, is rolled back, and
\* the entrypoint goes on with a warning.
Broken(p) ==
    \/ Ready(p) /\ Refused(p, NextOf(p))
    \/ Migrating(p) /\ run[p].todo # << >> /\ Unreadable(p, NextOf(p))
Break(p) ==
    /\ Broken(p)
    /\ Finish(p)
    /\ UNCHANGED <<transactional, db, secrets, history>>

\* The process of a run dies, or its connection does.
Lose(p) ==
    /\ Migrating(p)
    /\ Finish(p)
    /\ harmed' = TRUE
    /\ racing' = FALSE
    /\ torn' = (torn \/ (p = Operator /\ ~transactional))
    /\ UNCHANGED <<transactional, db, secrets, cut>>

-----------------------------------------------------------------------------
(***************************************************************************)
(* The rest of the entrypoint.                                             *)
(***************************************************************************)
Enter(c) ==
    /\ phase[c] = "off"
    /\ phase' = [phase EXCEPT ![c] = "secrets"]
    /\ UNCHANGED <<transactional, db, run, secrets, history>>

\* The secrets file is read, if it is there.
ReadSecrets(c) ==
    /\ phase[c] = "secrets"
    /\ secret' = [secret EXCEPT ![c] = file]
    /\ phase' = [phase EXCEPT ![c] = IF file = Null THEN "draw" ELSE "load"]
    /\ shared' = (shared /\ ~(file = Null /\ \E x \in Container : phase[x] = "draw"))
    /\ UNCHANGED <<transactional, db, run, file, history>>

\* A container without a secret draws one of its own and appends it.
DrawSecret_Unsaved(c) ==                         \* mutant: not written to the file
    /\ phase[c] = "draw"
    /\ secret' = [secret EXCEPT ![c] = c]
    /\ phase' = [phase EXCEPT ![c] = "load"]
    /\ UNCHANGED <<transactional, db, run, file, shared, history>>
DrawSecret(c) ==
    /\ phase[c] = "draw"
    /\ secret' = [secret EXCEPT ![c] = c]
    /\ file' = c
    /\ phase' = [phase EXCEPT ![c] = "load"]
    /\ UNCHANGED <<transactional, db, run, shared, history>>

\* seed.js queries for its next row, without a transaction.
SeedFinds(c, r) ==
    /\ phase[c] = r
    /\ TableOf[r] \in db
    /\ phase' = [phase EXCEPT ![c] = IF r \in db THEN AfterRow[r] ELSE NotFound[r]]
    /\ UNCHANGED <<transactional, db, run, secrets, history>>

\* It inserts the row it has not found; the user comes after bcrypt.hash.
SeedInserts(c, r) ==
    /\ phase[c] = NotFound[r]
    /\ ~Refused(c, InsertRow(r)) /\ ~Blocked(c, InsertRow(r))
    /\ db' = db \cup {r}
    /\ phase' = [phase EXCEPT ![c] = AfterRow[r]]
    /\ UNCHANGED <<transactional, run, secrets, history>>

\* Either query is refused; the server starts all the same.
SeedRefused(c, r) ==
    /\ \/ phase[c] = r /\ TableOf[r] \notin db
       \/ phase[c] = NotFound[r] /\ Refused(c, InsertRow(r)) /\ ~Blocked(c, InsertRow(r))
    /\ phase' = [phase EXCEPT ![c] = "serving"]
    /\ UNCHANGED <<transactional, db, run, secrets, history>>

\* seed.js dies, or its connection does.
SeedLost(c) ==
    /\ phase[c] \in SeedPhases
    /\ phase' = [phase EXCEPT ![c] = "serving"]
    /\ cut' = TRUE
    /\ UNCHANGED <<transactional, db, run, secrets, harmed, torn, racing>>

\* The container stops, with whatever it was running.
StopContainer(c) ==
    /\ phase[c] # "off"
    /\ phase' = [phase EXCEPT ![c] = "off"]
    /\ secret' = [secret EXCEPT ![c] = Null]
    /\ run' = [run EXCEPT ![c] = NoRun]
    /\ harmed' = (harmed \/ Migrating(c))
    /\ racing' = (racing /\ ~Migrating(c))
    /\ cut' = (cut \/ phase[c] \in SeedPhases \cup {"run"})
    /\ UNCHANGED <<transactional, db, file, shared, torn>>

-----------------------------------------------------------------------------
BootInit ==
    /\ transactional \in BOOLEAN
    /\ db = {}
    /\ run = [p \in Process |-> NoRun]
    /\ phase = [c \in Container |-> "off"]
    /\ file = Null
    /\ secret = [c \in Container |-> Null]
    /\ harmed = FALSE /\ torn = FALSE /\ racing = FALSE /\ cut = FALSE
    /\ shared = TRUE

BootNext ==
    \/ \E c \in Container :
          \/ Enter(c) \/ ReadSecrets(c) \/ DrawSecret(c)
          \/ Load(c) \/ SeedLost(c) \/ StopContainer(c)
          \/ \E r \in AdminRows : SeedFinds(c, r) \/ SeedInserts(c, r) \/ SeedRefused(c, r)
    \/ \E m \in Known : Revert(m)
    \/ \E p \in Process : Check(p) \/ Execute(p) \/ Commit(p) \/ Break(p) \/ Lose(p)

BootSpec == BootInit /\ [][BootNext]_bootVars

-----------------------------------------------------------------------------
(***************************************************************************)
(* Properties.                                                             *)
(***************************************************************************)

\* A migration is recorded only with all it is there for, also when runs of two
\* containers interleave or one stops half way, unless a revert did without
\* transactional DDL.  With it, nothing is there of a migration not recorded.
SchemaMatches ==
    /\ ~torn /\ ~Migrating(Operator) => \A m \in Known \cap db : Objects(m) \subseteq db
    /\ transactional =>
          db \ (Known \cup AdminRows \cup {"guard_name", "favicon"})
             \subseteq UNION {Objects(m) : m \in Known \cap db}

\* When containers race for the migrations one of them completes them, and so does
\* one container alone: with none of their runs stopped, the schema is complete
\* once no run is in progress, however many have failed; without transactional
\* DDL, if no earlier run was stopped.  AddAdminUser may be left to be recorded
\* later, when a seed of another container was faster.  Its rows are there all the
\* same: at once with transactional DDL, else when no container is on its way
\* through seed.js and none was stopped there, however many seeds were refused.
OneCompletes ==
    racing /\ (transactional \/ ~harmed) /\ (\A p \in Process : ~Migrating(p))
        => /\ Known \ {"AddAdminUser"} \subseteq db
           /\ \/ transactional
              \/ ~cut /\ \A c \in Container : phase[c] \notin SeedPhases \cup {"run"}
              => AdminRows \subseteq db

\* Containers use the secret in the file, the one they find again after a
\* restart, unless two of them have drawn theirs at the same time.
SecretsAgree ==
    shared => \A c \in Container :
                 phase[c] \notin {"off", "secrets", "draw"} => secret[c] = file

-----------------------------------------------------------------------------
(***************************************************************************)
(* The inductive invariant behind the three of them.                       *)
(***************************************************************************)

\* A container's run is in its place in the entrypoint.
Placed == \A c \in Container : Migrating(c) => phase[c] = "run"

\* A secret that is in the file is never replaced, as long as one container at a
\* time has found none there.
SecretsInv ==
    /\ \A c \in Container : phase[c] \notin {"off", "secrets", "draw"} => file # Null
    /\ shared => /\ \A c \in Container : phase[c] = "draw" => file = Null
                 /\ \A c, d \in Container : phase[c] = "draw" /\ phase[d] = "draw" => c = d
                 /\ SecretsAgree

\* What is made before an object of InitialSchema, up to its last index, and before
\* a column.
Earlier(x) ==
    CASE x = "users__"       -> {"users"}
      [] x = "roles"         -> {"users", "users__"}
      [] x = "roles__"       -> {"users", "users__", "roles"}
      [] x = "permissions"   -> {"users", "users__", "roles", "roles__"}
      [] x = "permissions__" -> {"users", "users__", "roles", "roles__", "permissions"}
      [] x = "guard_name"    -> {"roles"}
      [] x = "favicon"       -> {"settings"}
      [] OTHER               -> {}

\* What is there when a statement comes, without a revert torn apart.
Recorded(m) ==
    Objects(m) \cup (IF m = "AddGuardNameFavicon" THEN {"InitialSchema"} ELSE {})
Requires(s) ==
    CASE s.do = "record"                       -> Recorded(s.what)
      [] s.do \in {"table", "index", "column"} -> Earlier(s.what)
      [] s.do = "row"                          -> Needs(s.what)
      [] OTHER                                 -> {}

\* Facts X as migrations leave them: what is recorded is there with all it is there
\* for; objects are there with those made before them.  What is there belongs to one
\* of the migrations M.
Whole(X) == \A m \in Known \cap X : Recorded(m) \subseteq X
Chained(X) == \A x \in X : Earlier(x) \subseteq X
Owned(X, M) == X \ (Known \cup AdminRows) \subseteq UNION {Objects(m) : m \in M}
Settled(X) == "InitialSchema" \in X => AdminRows \subseteq X

Quiet == \A p \in Process : ~Migrating(p)
DbInv ==
    /\ Chained(db)
    /\ transactional \/ ~Migrating(Operator) => Whole(db)
    /\ transactional \/ (~harmed /\ Quiet) => Owned(db, Known \cap db)
    /\ transactional => Settled(db)

\* The statements of a container's run: what a statement requires is made before it
\* (Prepared), what it makes is recorded after it (Followed), every migration is
\* recorded or going to be (Sufficient), an index comes after all that is made before
\* it, the rows at the end (Ordered).
Makes(s) == s.do \in {"table", "index", "column", "row"}
Prepared(todo, X) ==
    \A i \in DOMAIN todo : \A o \in Requires(todo[i]) \ X : \E j \in 1..(i - 1) : todo[j].what = o
Followed(todo) ==
    \A i \in DOMAIN todo : Makes(todo[i]) =>
        \A o \in Adds(todo[i]) : \E j \in DOMAIN todo :
            j > i /\ todo[j].do = "record" /\ o \in Objects(todo[j].what)
Sufficient(todo, X) == \A m \in Known \ X : \E i \in DOMAIN todo : todo[i].what = m
Ordered(todo) ==
    \A i \in DOMAIN todo : \A j \in 1..(i - 1) :
        /\ todo[i].do = "index" => todo[j].what \in Earlier(todo[i].what)
        /\ todo[j].do = "row" => todo[i].do = "row" \/ todo[i] = Record("AddAdminUser")

\* The migrations a run has recorded or is going to record.
Covers(p) == {m \in Known : m \in View(p) \/ Record(m) \in ToSet(run[p].todo)}

Forward(c) ==
    /\ run[c].del = {}
    /\ \A s \in ToSet(run[c].todo) : Makes(s) \/ s.do = "record"
    /\ run[c].closed => ~transactional /\ run[c].add = {}
    /\ Whole(View(c)) /\ Chained(View(c))
    /\ Prepared(run[c].todo, View(c)) /\ Sufficient(run[c].todo, View(c)) /\ Ordered(run[c].todo)
    /\ Followed(run[c].todo)
    /\ transactional => Owned(View(c), Covers(c))

\* The run that reverts m: it drops what only m is there for, and all of it, what
\* was made later first.
Others(m) == (Known \cap View(Operator)) \ {m}
Unbuilt(todo, X) ==
    \A i \in DOMAIN todo : \A o \in X :
        Earlier(o) \cap Removes(todo[i]) # {} => \E j \in 1..i : o \in Removes(todo[j])
Backward(m) ==
    /\ ToSet(run[Operator].todo) \subseteq ToSet(Undo(m))
    /\ Chained(View(Operator))
    /\ Unbuilt(run[Operator].todo, View(Operator))
    /\ m \in View(Operator) => Unrecord(m) \in ToSet(run[Operator].todo)
    /\ \A n \in Others(m) : /\ Recorded(n) \subseteq View(Operator)
                            /\ \A s \in ToSet(Undo(m)) : Removes(s) \cap Recorded(n) = {}
    /\ transactional \/ ~harmed =>
          \A o \in View(Operator) \ (Known \cup AdminRows) :
             \/ \E n \in Others(m) : o \in Objects(n)
             \/ \E s \in ToSet(run[Operator].todo) : o \in Removes(s)
    /\ transactional => ("InitialSchema" \in Others(m) => AdminRows \subseteq View(Operator))

RunInv ==
    /\ \A c \in Container : Migrating(c) => Forward(c) /\ ~Migrating(Operator)
    /\ Migrating(Operator) => \E m \in Known : Backward(m)

\* Of containers that race one is ahead: what it is going to make nobody has made,
\* except for what it will find there.
Ahead(c) ==
    /\ Migrating(c)
    /\ \A s \in ToSet(run[c].todo) : s.do = "index" => s.what \notin View(c)
    /\ run[c].looked => run[c].todo # << >> /\ Makes(NextOf(c)) /\ NextOf(c).what \notin View(c)
    /\ ~transactional /\ ~run[c].closed =>
          /\ run[c].add \cap Known \subseteq {"AddAdminUser"}
          /\ \A m \in Known \ {"AddAdminUser"} :
                Record(m) \in ToSet(run[c].todo) => Objects(m) \cap View(c) = {}
Goal == Known \ {"AddAdminUser"}
RaceInv ==
    /\ ~harmed => \A c \in Container : Migrating(c) => racing
    /\ Migrating(Operator) => ~racing
    /\ racing /\ (transactional \/ ~harmed) => Goal \subseteq db \/ \E c \in Container : Ahead(c)

\* What seed.js has behind it is there.  Of the containers that migrate and seed one
\* is not refused: it still has a seed.js to run, or inserts a row nobody has.
Behind == [setting |-> {}, role |-> {"setting"}, user |-> {"setting", "role"},
           link |-> {"setting", "role", "user"}]
Unrefused(c) ==
    \/ phase[c] \in {"run"} \cup AdminRows
    \/ \E r \in AdminRows : phase[c] = NotFound[r] /\ (r = "setting" \/ r \notin db)
SeedInv ==
    /\ \A c \in Container, r \in AdminRows : phase[c] \in {r, NotFound[r]} => Behind[r] \subseteq db
    /\ Migrating(Operator) => \A c \in Container : phase[c] \notin SeedPhases
    /\ racing /\ ~transactional /\ ~harmed /\ ~cut =>
          AdminRows \subseteq db \/ \E c \in Container : Unrefused(c)

BootInv ==
    /\ BootTypeOK /\ Placed /\ SecretsInv
    /\ torn => harmed /\ ~transactional
    /\ ~torn => DbInv /\ RunInv /\ RaceInv /\ SeedInv

=============================================================================
