------------------------------- MODULE Media -------------------------------
(***************************************************************************)
(* Uploaded files: StorageService over the client of one storage backend   *)
(* (storageClient.ts), the pictures whose keys the services keep in the    *)
(* columns of a row (UserService, ProfileService, SettingService), and the *)
(* file manager of the editor (MediaController, MediaService, and          *)
(* filemanager.js in the browser).                                         *)
(*                                                                         *)
(* A key is <prefix>/<uuid><ext>, drawn by the server and never twice; of  *)
(* a file only its key is kept.  The operator may copy all files to the    *)
(* other backend and may restart the program on it, as the README of the   *)
(* repository tells, at any moment.                                        *)
(***************************************************************************)
EXTENDS Naturals, FiniteSets, TypeOrm

CONSTANTS
    Picture,    \* keys under uploads/
    Editor,     \* keys under editor/
    Column,     \* picture columns of the row: icon, logo, login_image
    Request,    \* calls of update in flight
    MaxKeys,    \* the 100 of listFiles
    Text,       \* what else a request may put into a picture column, also ''
    Null        \* a column without a picture

ASSUME MediaAssumption ==
    /\ Null \notin Picture /\ Picture \cap (Editor \cup Text) = {}
    /\ MaxKeys \in Nat

VARIABLES
    driver,     \* storageConfig: STORAGE_DRIVER, and whether its keys are set
    store,      \* per backend: the keys it holds a file for
    row,        \* the row's picture columns
    update,     \* calls of update
    page,       \* keys the file manager shows
    (***********************************************************************)
    (* History.  The program does not have these variables.                *)
    (***********************************************************************)
    drawn,      \* keys drawn so far
    kept,       \* editor files uploaded with success that nobody deleted
    deleted,    \* editor files reported as deleted that no copy can restore
    copied,     \* the other backend has been given all files put until now
    orderly     \* the program was never restarted on a backend without them

files == <<store, drawn>>
history == <<kept, deleted, copied, orderly>>
mediaVars == <<driver, files, row, update, page, history>>

Backend == {"local", "remote"}
Key == Picture \cup Editor
Row == [Column -> Picture \cup Text \cup {Null}]

(***************************************************************************)
(* Where a call of update is: "files" the row is in memory and the files   *)
(* of the columns todo are stored one after the other, "loaded" save has   *)
(* read the row once more.                                                 *)
(***************************************************************************)
NoUpdate == [pc |-> "idle"]
Updates == [pc: {"files"}, todo: SUBSET Column, want: Row]
             \cup [pc: {"loaded"}, want: Row, have: Row]

MediaTypeOK ==
    /\ driver \in Backend \cup {"keyless"}
    /\ store \in [Backend -> SUBSET Key]
    /\ row \in Row
    /\ update \in [Request -> Updates \cup {NoUpdate}]
    /\ page \subseteq Editor
    /\ drawn \subseteq Key
    /\ kept \subseteq Editor /\ deleted \subseteq Editor
    /\ copied \in BOOLEAN /\ orderly \in BOOLEAN

-----------------------------------------------------------------------------
(***************************************************************************)
(* The storage adapter.                                                    *)
(***************************************************************************)

\* isRemoteUnconfigured; getStorageClient throws then.
RemoteUnconfigured == driver = "keyless"

\* The backend of the client getStorageClient builds on its first use.
Client == driver

\* put of all three clients, once it has succeeded.
Put(k) ==
    /\ store' = [store EXCEPT ![Client] = @ \cup {k}]
    /\ drawn' = drawn \cup {k}
    /\ copied' = FALSE

\* put fails; the backend may have the file all the same (a timeout, a part
\* of the file on the disk).
PutFails(k) ==
    /\ store' \in {store, [store EXCEPT ![Client] = @ \cup {k}]}
    /\ drawn' = drawn \cup {k}
    /\ copied' = FALSE

\* delete of all three clients: no error when there is no such file.
RemoveKeys(X) == store' = [store EXCEPT ![Client] = @ \ X]

\* s3PresignedUrl: a URL names the object in the bucket; the mount of main.ts
\* serves /storage from the directory of the local client.
PresignedUrl(k) == [at |-> "remote", key |-> k]
LocalUrl(k) == [at |-> "local", key |-> k]

\* buildSignedUrl: by the driver of now.
SignedUrl(k) == IF driver = "local" THEN LocalUrl(k) ELSE PresignedUrl(k)

\* StorageService.getFile, of a key this service has drawn.  Without keys it is
\* the bare path /<key>, which nothing serves.
GetFile(k) == IF RemoteUnconfigured THEN [at |-> "nowhere", key |-> k] ELSE SignedUrl(k)

\* What the browser gets for a URL is the file.
Renders(url) == url.at = driver /\ url.key \in store[url.at]

\* The clients' list(prefix, maxKeys): the local one reads the whole directory,
\* a remote one answers with a page of at most maxKeys keys.
Listings_AnyPrefix(P) ==                         \* mutant: the prefix not handed on
    IF driver = "local" \/ Cardinality(store[Client]) <= MaxKeys THEN {store[Client]}
    ELSE {S \in SUBSET store[Client] : Cardinality(S) = MaxKeys}
Listings(P) ==
    LET all == store[Client] \cap P
    IN  IF driver = "local" \/ Cardinality(all) <= MaxKeys THEN {all}
        ELSE {S \in SUBSET all : Cardinality(S) = MaxKeys}

\* StorageService.listFiles.
ListFiles(P) == IF RemoteUnconfigured THEN {{}} ELSE Listings(P)

-----------------------------------------------------------------------------
(***************************************************************************)
(* SettingService.update; UserService.store and update and                 *)
(* ProfileService.update do the same with one column.                      *)
(***************************************************************************)

\* The row is read; the request brings a file for each column of C, and for others
\* its body may have a text, which is merged into the row whatever it says (a file
\* for the same column prevails).  The code merges when the files are stored; the
\* row is in memory, so that may be done here.
Find(q, C, want) ==
    /\ update[q] = NoUpdate
    /\ \A c \in Column : want[c] = row[c] \/ (c \notin C /\ want[c] \in Text)
    /\ update' = [update EXCEPT ![q] = [pc |-> "files", todo |-> C, want |-> want]]
    /\ UNCHANGED <<driver, files, row, page, history>>

NextFile(q) == update[q].pc = "files" /\ update[q].todo # {}

\* The request with the key of its next file, that of column c.
WithKey(q, c, k) ==
    update' = [update EXCEPT ![q] =
                  [pc |-> "files", todo |-> @.todo \ {c}, want |-> [@.want EXCEPT ![c] = k]]]

\* StorageService.saveUpload: the file is there before the row names it.
SaveUpload(q, c, k) ==
    /\ NextFile(q) /\ c \in update[q].todo
    /\ ~RemoteUnconfigured
    /\ k \in Picture \ drawn
    /\ Put(k)
    /\ WithKey(q, c, k)
    /\ UNCHANGED <<driver, row, page, kept, deleted, orderly>>

\* Without a client, or when put fails, update throws; what it has stored stays.
UploadFails(q) ==
    /\ NextFile(q)
    /\ update' = [update EXCEPT ![q] = NoUpdate]
    /\ \/ RemoteUnconfigured /\ UNCHANGED <<files, copied>>
       \/ ~RemoteUnconfigured /\ \E k \in Picture \ drawn : PutFails(k)
    /\ UNCHANGED <<driver, row, page, kept, deleted, orderly>>

\* All files are stored; save reads the row.
SaveLoad(q) ==
    /\ update[q].pc = "files" /\ update[q].todo = {}
    /\ update' = [update EXCEPT ![q] = [pc |-> "loaded", want |-> @.want, have |-> row]]
    /\ UNCHANGED <<driver, files, row, page, history>>

\* The transaction of save.  The file of the key replaced is left where it is.
SaveCommit_Tidy(q) ==                            \* mutant: the files replaced are deleted
    /\ update[q].pc = "loaded"
    /\ row' = ColumnsAfterSave(row, update[q].have, update[q].want)
    /\ update' = [update EXCEPT ![q] = NoUpdate]
    /\ store' = [b \in Backend |-> IF b # driver THEN store[b]
                 ELSE store[b] \ {update[q].have[c] : c \in {d \in Column : row'[d] # row[d]}}]
    /\ UNCHANGED <<driver, drawn, page, history>>
SaveCommit(q) ==
    /\ update[q].pc = "loaded"
    /\ row' = ColumnsAfterSave(row, update[q].have, update[q].want)
    /\ update' = [update EXCEPT ![q] = NoUpdate]
    /\ UNCHANGED <<driver, files, page, history>>

\* A query fails, or an index refuses the row.
SaveFails(q) ==
    /\ update[q] # NoUpdate /\ ~NextFile(q)
    /\ update' = [update EXCEPT ![q] = NoUpdate]
    /\ UNCHANGED <<driver, files, row, page, history>>

-----------------------------------------------------------------------------
(***************************************************************************)
(* The file manager.                                                       *)
(***************************************************************************)

\* MediaService.upload of a file that passes its tests (size, type, first
\* bytes; any other is refused without effect).
Upload(e) ==
    /\ ~RemoteUnconfigured
    /\ e \in Editor \ drawn
    /\ Put(e)
    /\ kept' = kept \cup {e}
    /\ UNCHANGED <<driver, row, update, page, deleted, orderly>>

UploadRefused(e) ==
    /\ ~RemoteUnconfigured
    /\ e \in Editor \ drawn
    /\ PutFails(e)
    /\ UNCHANGED <<driver, row, update, page, kept, deleted, orderly>>

\* MediaService.list; names, sizes and dates make no difference here.
MediaList == ListFiles(Editor)

\* loadList: GET list fills the modal.
LoadList ==
    /\ page' \in MediaList
    /\ UNCHANGED <<driver, files, row, update, history>>

\* What the client sends for file k: its bare name, as filemanager.js does, its
\* path, or the presigned URL it was shown with.
Forms == {"name", "path", "signed"}

\* MediaService.delete works on editor/<basename>: the file itself, no file at
\* all when the name carries a query or belongs to another prefix.
Named_Whole(k, form) == IF form = "name" THEN {k} \cap Editor ELSE {}  \* mutant: no basename
Named(k, form) == IF form = "signed" THEN {} ELSE {k} \cap Editor

\* delete, answered with success whether or not there was such a file; the
\* button of the modal takes its item away.
DeleteFile(k, form) ==
    /\ ~RemoteUnconfigured
    /\ k \in drawn
    /\ form = "name" => k \in page
    /\ RemoveKeys(Named(k, form))
    /\ page' = IF form = "name" THEN page \ {k} ELSE page
    /\ kept' = kept \ {k}
    /\ deleted' = IF form # "signed" /\ k \in Editor THEN deleted \cup {k} ELSE deleted
    /\ UNCHANGED <<driver, row, update, drawn, copied, orderly>>

-----------------------------------------------------------------------------
(***************************************************************************)
(* The operator.                                                           *)
(***************************************************************************)

\* aws s3 sync, ossutil cp: all files of one backend to the other.
CopyFiles(a, b) ==
    /\ a # b
    /\ store' = [store EXCEPT ![b] = @ \cup store[a]]
    /\ copied' = (copied \/ a = driver)
    /\ deleted' = IF b = driver THEN {} ELSE deleted
    /\ UNCHANGED <<driver, row, update, page, drawn, kept, orderly>>

\* Restart, on whichever driver .env names by then.  Requests in flight are
\* gone; what they had stored stays.  On another backend a deleted file may
\* still be there.
Restart(d) ==
    /\ driver' = d
    /\ update' = [q \in Request |-> NoUpdate]
    /\ orderly' = (orderly /\ (d = driver \/ copied))
    /\ deleted' = IF d = driver THEN deleted ELSE {}
    /\ UNCHANGED <<files, row, page, kept, copied>>

-----------------------------------------------------------------------------
MediaInit ==
    /\ driver = "local"
    /\ store = [b \in Backend |-> {}]
    /\ row = [c \in Column |-> Null]
    /\ update = [q \in Request |-> NoUpdate]
    /\ page = {}
    /\ drawn = {} /\ kept = {} /\ deleted = {}
    /\ copied = TRUE /\ orderly = TRUE

MediaNext ==
    \/ \E q \in Request :
          \/ \E C \in SUBSET Column, want \in Row : Find(q, C, want)
          \/ \E c \in Column, k \in Picture : SaveUpload(q, c, k)
          \/ UploadFails(q) \/ SaveLoad(q) \/ SaveCommit(q) \/ SaveFails(q)
    \/ \E e \in Editor : Upload(e) \/ UploadRefused(e)
    \/ LoadList
    \/ \E k \in Key, form \in Forms : DeleteFile(k, form)
    \/ \E a, b \in Backend : CopyFiles(a, b)
    \/ \E d \in Backend \cup {"keyless"} : Restart(d)

MediaSpec == MediaInit /\ [][MediaNext]_mediaVars

-----------------------------------------------------------------------------
(***************************************************************************)
(* Properties.                                                             *)
(***************************************************************************)

\* Every picture a row names is rendered, unless the name came as text in the
\* body of a request: failed and overlapping updates, the file manager and
\* restarts never leave the key of a file that is not there, and neither does
\* another backend that was given all files first.
RowsRender ==
    orderly /\ ~RemoteUnconfigured =>
        \A c \in Column : row[c] \in Picture => Renders(GetFile(row[c]))

\* What the file manager would list: every file whose upload it reported and
\* nobody deleted, up to the limit of a remote listing, and none it reported
\* as deleted.
ListTells ==
    \A S \in MediaList :
        /\ S \cap deleted = {}
        /\ orderly /\ ~RemoteUnconfigured /\ Cardinality(store[driver] \cap Editor) <= MaxKeys
              => kept \subseteq S

-----------------------------------------------------------------------------
(***************************************************************************)
(* The inductive invariant behind RowsRender and ListTells.                *)
(***************************************************************************)

\* The program can serve k, and still can on the other backend once that was
\* given all files.
Held(k) ==
    /\ ~RemoteUnconfigured => k \in store[driver]
    /\ copied => \A b \in Backend : k \in store[b]

\* A key that is in the row, or that a call of update may put there: it has
\* read it in the row, or stored its file.
Names(r) == {r[c] : c \in Column} \cap Picture
PicturesInv ==
    orderly =>
        /\ \A k \in Names(row) : Held(k)
        /\ \A q \in Request :
              /\ update[q] # NoUpdate => \A k \in Names(update[q].want) : Held(k)
              /\ update[q].pc = "loaded" => \A k \in Names(update[q].have) : Held(k)

KeptInv == orderly => \A k \in kept : Held(k)

\* A key is never drawn again, so a file deleted does not come back by itself.
DeletedInv ==
    /\ deleted \subseteq drawn
    /\ ~RemoteUnconfigured => deleted \cap store[driver] = {}

MediaInv == MediaTypeOK /\ PicturesInv /\ KeptInv /\ DeletedInv

=============================================================================
