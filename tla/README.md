# nestadmin: formal models

TLA+ models of [NestAdmin](../src/README.md), a NestJS/TypeORM admin panel, with the TLC
configurations that check them on small instances and TLAPS proofs of the invariants for
every value of the constants. All paths below are relative to the repository
(`src/src/...` is its `src` directory).

    tlc -workers 2 -config Sessions_overlap.cfg MCSessions.tla     # one run
    tlapm SessionsProofs.tla                                       # one proof

## 1. The system

NestAdmin is one Node.js process (or several behind a proxy) in front of one SQL database.
Inside a process everything runs on one event loop: code between two `await`s is atomic, and
every `await` (a query, a transaction, bcrypt, an upload) lets the handlers of other requests
run. There is no locking, no version column and no explicit transaction in the services: all
of them read with `findOne`/`findBy`, change an object, and call `save`, `update` or `remove`.
That makes *what a request may still write although it read it long ago* the central question
of most components.

| Component | State | Operations | Hard behaviour |
|---|---|---|---|
| **Access-control tables**: `RoleService`, `UserService`, `PermissionService`, `ProfileService.update`, `AuthService.register` | rows of `users`, `roles`, `permissions`; join tables `users_roles`, `roles_permissions` (no foreign keys) | create, update, delete, deleteSelected, assign/unassign of permissions (one or selected), roles of a user | read – modify – save of a whole relation by two requests; an entity saved after its row was deleted; links that outlive their rows |
| **User accounts and password reset**: `AuthService.requestOTP/processOTP`, `ProfileService.update`, `UserService.update` | columns of a `users` row: password, OTP with expiry, profile | request OTP, reset with OTP, update a profile | bcrypt between read and write; save of a whole entity carries old columns along |
| **Web sessions**: `TypeOrmSessionStore`, express-session, login/logout | table `sessions`; a copy of the session in every request | get, set, touch, destroy, login, logout, save in a handler | copies of concurrent requests of one browser; set after destroy; logout that does not wait |
| **API tokens**: `loginApi`, `logout`, `isTokenBlacklisted`, `JwtStrategy` | a Map of revoked jtis in the memory of each process | login, use, logout | several processes, restarts, the sweep of the Map, a missing expiry |
| **Site settings and their cache**: `SettingService.update`, `SettingCacheService` | the row of `settings`; a copy with a time to live in each process | get (hit, miss, failed query), update, invalidate | a fill that races an invalidation; other processes; two updates |
| **Permission sync**: `syncFromRouteRegistry`, `syncFromRoutes`, `store`, `update`, `delete` | what the rows of `permissions` say; the route registry | sync (one find and maybe one insert per route), store, update, delete | check-then-insert without a unique index; a sync that fails half way |
| **Seeding**: `seeder.ts`, `AddAdminUser`, `SettingService.index` | first rows of `settings`, `roles`, `users` | seed at migration and at every boot | several statements without a transaction; two processes at once; rows an administrator changed |
| **Landing page and template catalogue**: `HomeController`, `FeTemplateService`, `FeCatalogService` | downloaded template files, catalogue in memory and on disk | render, ensure, list, preview | slug read twice around an await; failed downloads; a disk copy that is never refreshed |
| **Media and storage**: `MediaService`, `StorageService`, `storageClient.ts`, `filemanager.js` | files of each storage backend, keys in columns of rows | upload, list, delete, URL of a key; picture uploads of the services; copy to another backend and restart on it | an upload whose row is not saved; two updates that carry older keys; a driver switched under the keys; a listing that ends at 100 |
| **Boot**: `docker-entrypoint.sh`, the four migrations, `seed.ts` | schema, recorded migrations, the secrets file | settle secrets, run migrations, seed, serve; `migration:revert` | containers that boot together; schema statements that commit by themselves (MySQL) and a stop between them |
| **Web console**: the web controllers, `ViewLocalsMiddleware`, `AppExceptionFilter`, connect-flash | flash messages in the session and in its copies | give a message and redirect, take and show, refuse, save | redirects that do not wait for the save; tabs whose copies of the session cross |
| Guards of the API, dashboard statistics, configuration, helpers, developer scripts, landing page animation | none that outlives a request | counts, parsing, presentation | – |

**Interactions.** The web and API controllers call the services one to one. A web request
passes express-session (which calls the session store before and after the handler),
`ViewLocalsMiddleware` (which reads `req.session` and calls `SettingCacheService.get`) and a
guard; an API request passes `JwtStrategy.validate`, which asks `isTokenBlacklisted`.
`SettingService.update` calls `SettingCacheService.invalidate`; `FeTemplateService` reads
through the same cache. Opening the permission page calls `syncFromRouteRegistry`, which reads
the registry the controllers' constructors filled. The seeder writes the same tables as the
access services. All of them meet in the database only. The console's controllers sit in front of
all of this: each of their forms gives one message, which travels in the session to the page the
browser is redirected to. Before any of it runs, the entrypoint of each container brings the
schema up.

## 2. Modules

Each `X.tla` is a component, `MCX.tla` instantiates it for TLC (symmetry sets, tuples a cfg
cannot write), `XProofs.tla` holds its theorems. Three proof modules cover two components each:
`AuthProofs` those of `UserAccount` and `TokenBlacklist`, `BrowserProofs` of `Media` and
`Console`, `SeederProofs` of `Seeder` and `Boot`. In each pair the second to be written has
names of its own where both would have the same (`TokenTypeOK`, `MediaTypeOK`, `BootTypeOK`;
`BootSpec`, `BootInit` and so on).

| Module | Models | Notes |
|---|---|---|
| `TypeOrm` | `Repository.save`/`remove` of the TypeORM dependency, as the services use them | external; used by all models of tables |
| `AccessTables` | *abstract specification*: what the access services promise an administrator working alone | implemented by `AccessControl`, request by request |
| `AccessControl` | the services that create or remove rows and links | |
| `UserAccount` | the columns of one user's row | |
| `Sessions` | session store, middleware, login, logout | |
| `TokenBlacklist` | API tokens | |
| `Settings` | the settings row and its caches | fairness of time and of answered queries |
| `PermissionSync` | rows of `permissions` against the route registry | |
| `Seeder` | the first rows of `settings`, `roles`, `users`; seeds, visitors and an administrator | its edits are single steps: their overlaps are in `AccessControl` |
| `Landing` | the landing page, downloaded templates, the template catalogue | fairness of time |
| `Media` | uploaded files over one of two backends, the rows that name them, the file manager | the operator's copy and restart are actions |
| `Boot` | entrypoint, secrets, migrations, revert | with and without transactional DDL |
| `Console` | flash messages through the session copies of several tabs | every web controller is an action |

### How a handler becomes actions

A handler is split where it awaits and nowhere else. A request in flight is a record with a
program counter and the copies it holds (`req[q]`, `update[w]`, `get[g]`); the guards are the
handler's conditions, 404s and 409s; what a handler does in one synchronous stretch is one
action. An early return that changed nothing is an action that is not taken; one in the middle
of a handler ends the request (`FindPermissions`, `FindRoles`). Every await may also fail, or
the process may stop: `Fail` ends a request at any point, with whatever it has written so far
left in place.

**TypeORM** (external). `save` first loads what the database holds for the entity, computes the
difference to the entity in memory and executes it in one transaction; `remove` loads and
deletes in one transaction. The models have one step for the load (`SaveLoad`, `RemoveLoad`)
and one for the transaction (`SaveCommit`, `RemoveCommit`); other requests run in between.
`TypeOrm.tla` says what the difference does: links in `want` and not in `have` are inserted
(which fails when such a link exists already), links in `have` and not in `want` are deleted,
an entity whose row the load did not find is inserted, columns that differ are updated, and an
UPDATE of a row that is gone changes nothing. `update(id, {...})`, which the password reset
uses, is a single UPDATE of the named columns.

**AccessControl.** `rows` are the ids with a row, `links` both join tables, `issued` the UUIDs
handed out, `req` the requests. `Update` (without relation) leaves links alone but can insert
a row again; `UpdateUser`/`FindRoles` are the two reads of `UserService.update`;
`PermissionAssign`/`FindPermissions` those of the assigning handlers; `PermissionUnassign`
reads once; `CreateUser` reads roles, hashes and saves. A link counts (`Effective`) when both
its rows are there, since queries join all three tables. Columns and unique indexes are not in
this module: a violated index is one of the failures of `Fail`.

**UserAccount.** One row with columns `password`, `otp` (hash and expiry together, they are
always written together) and `profile` (all others). `RequestFind/RequestWrite`,
`ProcessFind/ProcessWrite` and `UpdateFind/SaveLoad/SaveCommit` are the awaits of `requestOTP`,
`processOTP` and the two `update`s. OTPs are never drawn twice, `Expire` ends their time.

**Sessions.** A request gets the session its cookie names (`Arrive`, `Resume`) or a new one
(`ArriveNew`, `Regenerate`), its handler runs with the copy, and at the end the middleware calls
`set` if the copy changed, `touch` if not. `SetFind`/`SetWrite` are the two queries of `set`.
The user in the session is the data; flash messages and form errors only matter in that they
make `set` run and may make the column differ, so `SetWrite` may or may not write an equal user.

**TokenBlacklist.** No handler awaits between reading and writing the Map, so login, use and
logout are single steps. `UserExp` is `undefined` because `validate` does not hand on `exp`;
comparisons with `undefined` are false as in JavaScript.

**Settings.** `Miss`, `Query`, `Fill`, `QueryFails` are a `get` that does not hit; the answer
travels between `Query` and `Fill`. `Find`, `SaveLoad`, `SaveCommit`, `Invalidate` are
`update`. `Tick` ages all caches, `Restart` empties one process.

**PermissionSync.** A sync walks over `Registry`; `SyncFind` and `SyncInsert` are its two
queries per route. `StoreFind/StoreSave` and `UpdateCheck/UpdateFind/SaveLoad/SaveCommit` are
`store` and `update`.

**Seeder.** A seed awaits every query, so each query is a step: `FindSetting`, `InsertSetting`,
`FindRole`, ..., `InsertLink`; the hash of the password falls between `FindUser` and
`InsertUser`. This is the one module with the unique columns `roles.name`, `users.email` and
`users.code`; an INSERT that violates one, or inserts a link that is there, is `Reject`, an error
that ends the seed. In the migration the same statements are one transaction, hence the two
initial states: `Migrated`, or `Empty` when the migration failed (`docker-entrypoint.sh` starts
the server and the seed all the same). `IndexFind`/`IndexSave` are `SettingService.index`.

**Landing.** A file in `FE_TEMPLATE_DIR` is missing, cut short or whole, and so is the catalogue
on disk; what the files say is left out. `Render` and `GetActiveHtml` each read the setting;
between them `ensure` may wait for a download, which writes the file, part of it, or fails.
`list` answers from memory (`Fresh`), from disk or after a fetch, whose failure puts the built-in
catalogue in memory; `previewHtml` goes on from there (`Listed`). Its answer is the variable
`answer`, which holds what the last step sent and whether it was `due` to be the whole template.
No controller calls `FeCatalogService` at this commit: the requests `Preview...` are those the
service is exported for.

**Media.** `store` says per backend which keys have a file; `driver` is `storageConfig` with its
three cases local, remote, and remote without keys (`isRemoteUnconfigured`). `Find`,
`SaveUpload` per file, `SaveLoad`, `SaveCommit` are the awaits of `SettingService.update`, whose
three columns subsume the one of users and profiles. All of these services also copy a picture
column from the body of the request, unseen, when it has one there (`SettingService.ts:172`,
`ProfileService.ts:79`, `UserService.ts:111` and `147`): `Find` takes a member of `Text` for it.
`Text` stands for whatever such a body may say, names of files included; a text equal to the
value the row has is no change. `PutFails` may leave the file behind, since
a timeout says nothing of the store. `Upload`, `LoadList`, `DeleteFile` are the file manager;
`Named` is `path.basename` on the three forms a client can send, one of which (a presigned URL)
names nothing. `CopyFiles` and `Restart` are the operator following the README of the repository.

**Boot.** A migration is its list of statements, an execution (`run[p]`) what is left of them
and what its open transaction adds and removes. `Check` is the question in front of a statement
(`hasColumn`, `createTable(.., true)`, the seeder's query), `Execute` the statement: inside the
transaction, or, without transactional DDL, committed together with everything before it, after
which the rest of the run is outside any transaction (`closed`). Other runs come in between.
`Refused` has what the database does not accept, `Blocked` makes a statement wait for a
transaction that has the same object in the making. Indexes of one table count as one object,
created right after it. `seedInitialData` is four rows, each looked for and then inserted: four
statements of `AddAdminUser`, inside its run, and in `seed.js` two steps per row, each on its own
(`SeedFinds`, then `SeedInserts`; the user's comes after `bcrypt.hash`), refused by the unique
indexes, by a missing table or column (`SeedRefused`), or ended with its process (`SeedLost`).
Where MySQL reads from an older snapshot it misses the rows committed since, and the insertion
that follows is refused; in the model that is the run whose look came before that commit. The
entrypoint goes on after a failure (`Break`, `Lose`,
`SeedRefused`), so `phase` always reaches `serving`. `Revert` waits for containers that migrate
or seed: it is the operator's command, and the one who gives it looks first.

**Console.** `stored` are the messages in the row of the session, `tab[t].flash` those in the
copy a request holds, `saving[t]` a `set` under way (`SetFind`, `SetWrite`, as in `Sessions`).
`ViewLocals` takes all messages out of every copy, whichever request it is; `RenderPage` shows
the first; `RenderBare` shows none; `AnswerForm` appends one and redirects while the save begins;
`AwaitSave` redirects when it has ended. A redirect is followed at once (`Get`), so the next
request of a tab may meet the save of the one before. The controllers are one action each over
these, and `Thrown`, `Unauthorized`, `Refused` are the exception filter and csurf.

### History variables

The models carry variables the program does not have: which requests are alone (`alone`,
`crossed`, `mixed`, `racing`, `harmed`, `orderly`, `sole`, `steady`, `calm`, `again`, `quiet`) and what those were told (`granted`, `revoked`, `retired`, `kept`,
`spent`, `closed`, `owner`, `floor`, `covered`, `deleted`, `given`, `shown`, `missed`). They occur in no guard of the program's
variables. They are what lets the properties be *true* statements about code without locks:
overlapping writers do overwrite each other (see the findings), but a request that overlapped
with no competitor of its own was promised something, and these properties say the promise is
kept against every older copy that other requests still hold.

## 3. Runs

| Run | Instance | Properties | Shows |
|---|---|---|---|
| `AccessControl_overlap` | 2 users, 2 roles, 1 permission, 2 requests that overlap until the second user has been created (`Overlaps`); 2.8 M states | `TypeOK`, `GrantedHolds`, `RevokedHolds`, `RetiredStaysGone`, `ImplementsTables` | grants, revocations and deletions that met no competitor are final until asked otherwise; each step of such a request is one step of `AccessTables`, also while another request works on other rows |
| `UserAccount_overlap` | 2 passwords, 2 OTPs, 3 requests; 0.3 M states | `TypeOK`, `PasswordSticks`, `OtpOnce` | a password set without company stays, a used OTP never returns |
| `Sessions_overlap` | 2 sessions, 2 users, 2 requests; 0.3 M states | `TypeOK`, `ClosedStaysClosed`, `OwnerKept` | a destroyed session stays destroyed, a login is not undone |
| `TokenBlacklist_running` | 2 tokens, 2 instances, clock to 4, lifetime 2 | `TokenTypeOK`, `RevokedHere` | a running instance never forgets a logout |
| `Settings_overlap` | 2 instances, 1 reader, 2 writers, 2 columns, 2 updates; 1.5 M states | `TypeOK`, `UpdateVisible`, `UpdateSticks`, `Heals` | an invalidation that met no older answer is final, an update alone keeps its columns, every cache comes to hold the row |
| `PermissionSync_table` | 2 routes of different names, 4 ids, 2 requests; 0.1 M states | `TypeOK`, `OneRowEach`, `AllRoutesPresent` | serial requests never duplicate a row; an undisturbed sync leaves every route with its row |
| `Seeder_boots` | 2 seeds, 2 ids per table, 2 names, addresses and codes, 1 visitor; 1.6 M states | `TypeOK`, `AdminReady`, `FailsOnCodeOnly`, `AgainInsertsNothing`, `OneSetting` | a seed that ends unedited leaves the default administrator, whoever else seeds or stopped before; alone it fails on the code only |
| `Landing_overlap` | 3 templates, 1 built-in besides the default, 2 requests; 0.1 M states | `TypeOK`, `LandingServed`, `PreviewServed`, `StoredStays`, `CatalogueRecovers` | a template once downloaded is served whole and without the network; the stored catalogue prevails |
| `Media_switch` | 2 pictures, 2 editor files, 1 column, 1 text, 2 updates, a listing of 1 key; 2.8 M states | `MediaTypeOK`, `RowsRender`, `ListTells` | a row never has the key of an upload whose file is not there, through failures, overlaps, deletions and an orderly switch of backend; the file manager tells what was uploaded and deleted |
| `Boot_race` | 2 containers, an operator, both kinds of database; 1.6 M states | `BootTypeOK`, `SchemaMatches`, `OneCompletes`, `SecretsAgree` | what is recorded is there; of containers that race one completes the schema, and the administrator is there when their seeds are over; both use the secret in the file |
| `Console_tabs` | 2 tabs, 2 messages, one save behind a response per tab; 4.4 M states | `TypeOK`, `ToldOnce`, `RedirectTells` | a message is told exactly once unless copies of the session crossed; a handler that waits for its save is told of on its page |
| `Sessions_logout` | 2 sessions, 1 user, 2 requests | `LogoutInvalidates` *(violated)* | finding 1 |

**Bounds.** Every hazard listed in `PROJECT.json` is a race of two requests with each other or
with a process that stops, so two slots suffice to produce it, and slots are reused without
limit: a run contains arbitrarily long sequences of requests. Three slots in `UserAccount` let
an older copy survive two later requests. In `Seeder` two ids per table let the
administrator delete a seeded row and a seed insert it again, and a second user take the code or
the address of the first; two values of a unique column tell the seed's from another. Ids (`User`, `Role`, `Permission`, `Sid`, `Id`) are
never issued twice, so a finite set is a bound on the number of creations; rows that exist
are changed and saved any number of times. `MaxUpdates` bounds the updates of the settings,
`MaxTime` the clock of the tokens, `Ttl = 1` makes a cached copy expire at the next tick (the
theorems hold for every `Ttl`). Two values per column tell "mine" from "somebody else's". Two
roles let a user's roles be replaced (users are created alongside
another request; `Overlaps` lets requests go on one at a time once the second one exists, and the
theorems have no such bound), one permission is enough for the other join table since
`permissionAssignSelected` treats each permission alike. `Media` has two keys of each
prefix, one column (that an update stores several files, or fails between them, is left to the
theorem) and `MaxKeys = 1` for
the 100 of `listFiles`, so a second file already exceeds a remote page. `Boot` needs two
containers for its races.
`Console` has two tabs, and two messages, so that one can be behind or beside another in a copy;
a tab starts no second save while one is still going on behind its previous answer. The theorems
below remove all of these bounds for the safety properties they are about.

**Deadlock** is checked except in `AccessControl` and `Seeder`, where the finite supply of ids
runs out: with every row deleted nothing is left to do, and a seed cannot insert another.

**Fairness.** `Landing!FairSpec` has weak fairness of `Expire`: six hours pass. Nothing forces a
fetch to be answered or a request to come, so `CatalogueRecovers` speaks of what `list` would
answer. `Settings!FairSpec` has weak fairness of `Tick` (time passes) and of
each `Fill` (the event loop eventually runs the continuation of a query that was answered).
Nothing forces a request to come, a query to be answered, or an update to finish. `Heals` is
stated so that a request that never comes cannot violate it: what must eventually hold is that
a copy that is *served* equals the row. With `MaxUpdates` the updates stop, which is the
premise "after the last update".

### Findings

A counterexample TLC produces, and the statement of the repository it contradicts.

1. `auth.controller.ts:86` – logout redirects without waiting for the store; a request after
   the redirect is still signed in (`tests/bdd/features/auth.feature:14`).

Seen while modelling and visible in the models, without a run of their own:

- `auth.service.ts:67` – the blacklist is a Map in the memory of one process: a token logged out
  is accepted after a restart and by other instances, though `docs/API.md:58` has it
  blacklisted until it expires ("Token di-blacklist (berlaku sampai expiry)") and
  `docs/ARCHITECTURE.md:136` scales the program horizontally. `RevokedHere` is what remains true.
- `seeder.ts:106` – the seed looks for its user by e-mail and inserts it with a fixed, unique
  code: after the default administrator's address has changed every boot's seed fails, though
  the comment at `seeder.ts:14` says "Idempoten mutlak: cek-dulu sebelum insert, aman dijalankan
  berulang". By `FailsOnCodeOnly` this is the only way an undisturbed seed fails.
- `RoleWebController.ts:98` and the other plain forms redirect before their message is saved: the
  page may come up without it, and lose it. `docs/ARCHITECTURE.md:105` says "Web → flash message
  + redirect" of errors; a 401 redirects without one (`app-exception.filter.ts:52`).
- `auth.controller.ts:55` and the other pages of login, registration and reset hand the view what
  `flash()` returns, which is nothing any more: `ViewLocalsMiddleware` has taken all messages. So
  the "Single flash success" of `login.ejs:31` is never shown (`AuthWeb` is `RenderBare`).
- `app-exception.filter.ts:70` – a missing picture is a 404, which gives a message and redirects;
  its request has taken the messages that were there. The default headers of helmet suppress the
  referrer, so the redirect leads to the dashboard.
- `main.ts:101` – csurf refuses a form before the messages are taken; the page then has two
  messages of which `view-locals.middleware.ts:82` shows the first.
- `media.service.ts:148` – a presigned URL, whose last part carries a query, names no file:
  delete answers with success and deletes nothing. What a copy on another backend holds comes back
  with the backend.
- `docker-entrypoint.sh:28` – the secrets file is sourced after the environment is set, so its
  values win over those the comment at line 25 says are honoured.
- `1700000000000-InitialSchema.ts:76` – without transactional DDL, a run that stops between a
  table and its index leaves a schema no later run completes: the table is skipped and the
  migration stays unrecorded, or an index is refused. `OneCompletes` excludes exactly this.
- `setting-cache.service.ts:18` – a query answered before an update fills the cache after the
  invalidation, and the old row is served for another minute although `docs/ARCHITECTURE.md:137`
  says the cache is invalidated on update. `UpdateVisible` is what remains true.
- `ProfileService.ts:88` – a profile save that found the row before a password reset writes
  the old password and the used OTP back.
- `PermissionService.ts:41` – overlapping syncs insert a route twice although the comment at
  line 26 calls the sync an idempotent upsert. `OneRowEach` is what remains true.
- `SettingService.ts:98` – two requests that find no settings row insert one each.
- `home.controller.ts:35` and `fe-template.service.ts:84` promise the default template when a
  download fails; the code sends a placeholder, since the default is an EJS view without a file
  in `FE_TEMPLATE_DIR`.
- `fe-template.service.ts:27` – a file cut short by a failed write counts as downloaded and is
  served as the landing page from then on.
- `fe-catalog.service.ts:103` – the copy on disk is never refreshed, though
  `docs/ARCHITECTURE.md:146` gives the catalogue six hours.
- `fe-template.service.ts:69` – the download of a landing template has no timeout.
- `RoleService.ts:140` – two overlapping assignments to one role: one of them is lost, or a
  removed link comes back, since each saves the whole list it read (`docs/API.md:126-127`).
- `RoleService.ts:69` – an update that found its row before a deletion inserts it again.
- `auth.service.ts:137` – `register` gives the user no role; `docs/API.md:52` promises "User".
- `auth.service.ts:68-72` – "Clean up expired entries" removes none, because the stored expiry
  is always `undefined`.
- `app.module.ts:34` – throttlers are configured but no `ThrottlerGuard` is registered, so
  the 429 of `docs/API.md:49` is never answered.

## 4. Proofs

| Theorem | Module | States |
|---|---|---|
| `TypeCorrect`, `GrantedIsKept`, `RevokedIsKept`, `RetiredIsKept` | `AccessControlProofs` | `Spec => []TypeOK`, `[]GrantedHolds`, `[]RevokedHolds`, `[]RetiredStaysGone` |
| `TablesImplemented` | `AccessControlProofs` | `Spec => ImplementsTables`: the refinement of `AccessTables`, initial states and steps |
| `TypeCorrect`, `ClosedForGood`, `OwnerForGood` | `SessionsProofs` | `[]TypeOK`, `[]ClosedStaysClosed`, `[]OwnerKept` |
| `TypeCorrect`, `UpdateVisibleAlways`, `UpdateSticksAlways` | `SettingsProofs` | `[]TypeOK`, `[]UpdateVisible`, `[]UpdateSticks` |
| `TypeCorrect`, `PasswordSticksAlways`, `OtpOnceAlways` | `AuthProofs` | of `UserAccount`: `[]TypeOK`, `[]PasswordSticks`, `[]OtpOnce` |
| `TokenTypeCorrect`, `RevokedWhileRunning` | `AuthProofs` | of `TokenBlacklist`: `[]TokenTypeOK`, `[]RevokedHere` |
| `TypeCorrect`, `OneRowEachAlways`, `RoutesPresentAlways` | `PermissionSyncProofs` | `[]TypeOK`, `[]OneRowEach`, `[]AllRoutesPresent` |
| `TypeCorrect`, `AdminReadyAlways`, `FailsOnCodeOnlyAlways`, `AgainInsertsNothingAlways`, `OneSettingAlways` | `SeederProofs` | `[]TypeOK`, `[]AdminReady`, `[]FailsOnCodeOnly`, `[]AgainInsertsNothing`, `[]OneSetting` |
| `TypeCorrect`, `LandingServedAlways`, `PreviewServedAlways`, `StoredStaysAlways` | `LandingProofs` | `[]TypeOK`, `[]LandingServed`, `[]PreviewServed`, and the action property `StoredStays` |
| `MediaTypeCorrect`, `RowsRenderAlways`, `ListTellsAlways` | `BrowserProofs` | of `Media`: `[]MediaTypeOK`, `[]RowsRender`, `[]ListTells` |
| `ConsoleTypeCorrect`, `ToldOnceAlways`, `RedirectTellsAlways` | `BrowserProofs` | of `Console`: `[]TypeOK`, `[]ToldOnce`, `[]RedirectTells` |
| `BootTypeCorrect`, `SchemaMatchesAlways`, `OneCompletesAlways`, `SecretsAgreeAlways` | `SeederProofs` | of `Boot`: `[]BootTypeOK`, `[]SchemaMatches`, `[]OneCompletes`, `[]SecretsAgree` |
| `Invariance`, `Inductive`, `MediaInvariance`, `ConsoleInvariance`, `BootInvariance` | each | the inductive invariants: `[]IndInv`, `[]MediaInv`, `[]ConsoleInv`, `[]BootInv` |

They hold for any number of requests, ids, instances, tabs, containers and values. The only
assumptions are the named `ASSUME`s of each module: ids of different tables differ, sentinels (`Null`, `None`,
`Undefined`, `Anonymous`, `Unknown`) are no ordinary values, time bounds are natural numbers,
the registry is a sequence without duplicates (which `RouteRegistry.register` guarantees).

**The argument** is the same in most modules. The property alone is not inductive: it says
nothing of the copies that requests in flight will still write. `IndInv` (`MediaInv`,
`ConsoleInv`) adds that:

- *a request that is alone is up to date*: what it has read still is so (`AloneInv`,
  `SoleInv`, `QuietInv`), because whatever could change it would have competed with it and
  ended its being alone;
- *a promise binds the copies in flight*: after a promise no copy disagrees with it
  (`GrantedInv`/`Spares`, `RevokedInv`/`Omits`, `KeptInv`, `SpentInv`, `ClosedInv`, `OwnerInv`,
  `FloorInv`): when it was given no other request held a copy, and later copies are read from
  a database that already keeps it;
- *what was found stays* (`Seeder`): seeds and visitors only add rows (`Grow`), so what a seed
  found is still there when it ends (`CalmInv`); what a lone seed did not find is still missing
  when it inserts (`AloneInv`); unique columns make the rows it finds the ones that are linked;
- *what may still be named is held* (`Media`): not only the keys in the row, also those an
  update holds, whether it read them or stored their files, have a file on the backend in use,
  and on both once the files were copied (`PicturesInv`);
- *a message is in one place* (`Console`): on its way from the row through one copy onto the
  page, and out of the row with the save behind it (`OnItsWay`); the message of a redirect
  comes first in each place (`Redirected`);
- *rows that are gone stay gone*: `Lost(x)` says the row is gone and no save in flight has x
  (`RevokedInv`, `RetiredInv`).

`Boot` is different, since the data it protects is the program itself: lists of statements that
other runs make obsolete while they are worked off. `BootInv` says of the database that what is
recorded is whole and that what is there belongs to something recorded (`DbInv`), and of each
run that the statements left are a way to go on from what it sees: in a container's (`Forward`)
what a statement requires is there or made before it, and what it makes is recorded after it; in
the operator's (`Backward`) nothing is dropped that an earlier migration needs, and later
objects first. Both are closed under taking the head off the list, which is what the actions do;
that the scripts of the four migrations, one after the other, have them is proved statement by
statement. `OneCompletes` needs a reason why somebody gets through: as long as the
schema is not complete one of the racing containers is `Ahead`, that is, the indexes it has
still to make are not there, so the database never refuses it a statement (`AheadWorks`).
Without transactions whoever gets a statement in is the one ahead from then on
(`AheadExecute`); with them the first to commit has completed the schema (`ContainerCommit`).
The rows are another matter, since `AddAdminUser` may be refused by a seed that is faster, and
that seed by another. `SeedInv` says why somebody gets through here, too: as long as a row is
missing, some container still has its `seed.js` before it (as every container has that
migrates) or is about to insert a row nobody has (`Unrefused`). When another is faster with that
row it is the other that goes on, with a `seed.js` or, from a run, towards one; and a seed that is
refused for want of a table leaves a container that is still making it (`RefusedSeed`). So the
administrator is there once all have come to the end, unless one of them was stopped on the way
(`cut`).
`SecretsInv` is independent of the migrations.

Each proof has one lemma for the initial states, one per group of actions (with a step per
conjunct the action can disturb), and a temporal step that combines them. Each of the
inductive invariants was checked with TLC as an invariant before it was proved (`BootInv` with
two containers).

**The refinement** needs two things more. The step that writes happens in the middle of what
others do, so it must be known that what the request is about to write differs from the tables
of that moment exactly by what it was asked for: `UpToDate` says so of the links it wants, as
well as of those it has loaded. And an id drawn for a user in creation is nobody else's
(`CreatedInv`): only then is the commit one step of the tables, in which the user, its roles and
the knowledge of its id appear together. `TablesStep` goes through all actions: those that
read, load or begin leave `rows`, `shown` and `known` alone (`Same`), each kind of commit is the
step of the tables it stands for, a failed creation is `GiveUp`.

**Only model-checked**: `Heals` and `CatalogueRecovers` (liveness under fairness is out of the
prover's reach) and the violated properties. The other properties of the passing runs are all
theorems: the safety invariants, the action property `StoredStays` and the refinement.

## 5. Not modelled

- The Redis driver of `buildSessionStore` and the in-memory store of the tests: third-party
  stores with their own expiry; the database store is the default.
- Wording, rendering, pagination and filtering of lists: no state.
- `JwtAuthGuard`, `RolesGuard` and `hasAccess`: pure functions of the user in the token or the
  session, which is a copy made at login. `AccessMiddleware` would read the tables afresh, but
  returns at once: nothing sets the `_routeName` it looks for.
- `errors` and `old` in the session: nothing throws a `ValidationError`, so they are never set.
- Dashboard statistics, configuration, column types of the migrations, wording of the views.
- Contents of files (first bytes, sizes, types) and the signatures of URLs; presigned URLs that
  the editor inserts into a description expire there after six hours, which is a matter of the
  text, not of the store.
- `scripts/make-module.js` and `scripts/check-conventions.js`: a generator of source text and a
  linter, run by a developer once at a time; what they do is what their templates and regular
  expressions say.
- `public/fe/default/js/motion.js`: animation of the landing page in the browser.
- The bundled redis-server of the entrypoint.

## 6. Plan

The order is that of importance; all of it is done.

1. `AccessControl` with `AccessTables` and proofs.
2. `Sessions`, 3. `TokenBlacklist`, 4. `Settings`, 5. `UserAccount`, 6. `PermissionSync`,
   7. `Seeder`, 8. `Landing`, each with its invariants, type correctness included, proved.
9. `Media`, 10. `Boot`, 11. `Console`, checked by TLC.
12. Proofs of the invariants of `Media`, `Console` and `Boot`.
13. Proof of the refinement `AccessControl => AccessTables`, step by step from `IndInv`.
