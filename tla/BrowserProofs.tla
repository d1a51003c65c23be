--------------------------- MODULE BrowserProofs ---------------------------
(***************************************************************************)
(* What the browser gets to see: the pictures and editor files of module   *)
(* Media, for any number of keys, columns and overlapping updates, and the *)
(* messages of module Console, for any number of tabs and messages.        *)
(***************************************************************************)
EXTENDS Media, Console, TLAPS

-----------------------------------------------------------------------------
(***************************************************************************)
(* Media.                                                                  *)
(***************************************************************************)
LEMMA MediaInitialState == MediaInit => MediaInv
<1> SUFFICES ASSUME MediaInit
             PROVE  MediaInv
  OBVIOUS
<1>1. MediaTypeOK
  BY DEF MediaInit, MediaTypeOK, Backend, Row
<1>2. PicturesInv
  BY MediaAssumption DEF MediaInit, PicturesInv, Names, NoUpdate
<1>3. KeptInv /\ DeletedInv
  BY DEF MediaInit, KeptInv, DeletedInv
<1> QED BY <1>1, <1>2, <1>3 DEF MediaInv

\* What a call of update looks like at each place.
LEMMA UpdateShape ==
  ASSUME MediaTypeOK, NEW q \in Request
  PROVE  /\ update[q] = NoUpdate \/ update[q].pc \in {"files", "loaded"}
         /\ update[q].pc \in {"files", "loaded"} => update[q] # NoUpdate /\ update[q].want \in Row
         /\ update[q].pc = "files" => update[q].todo \subseteq Column
         /\ update[q].pc = "loaded" => update[q].have \in Row
         /\ NoUpdate.pc = "idle"
  BY DEF MediaTypeOK, Updates, NoUpdate

\* The keys of a row are keys of pictures, also after a text is merged into it, after
\* one more is put into it and after a save.
LEMMA RowNames ==
  ASSUME NEW r \in Row
  PROVE  Names(r) \subseteq Picture
  BY DEF Row, Names

LEMMA NamesWithText ==
  ASSUME NEW r \in Row, NEW w \in Row, \A c \in Column : w[c] = r[c] \/ w[c] \in Text
  PROVE  Names(w) \subseteq Names(r)
  BY MediaAssumption DEF Row, Names

LEMMA NamesWithKey ==
  ASSUME NEW r \in Row, NEW c \in Column, NEW k \in Picture
  PROVE  /\ [r EXCEPT ![c] = k] \in Row
         /\ Names([r EXCEPT ![c] = k]) \subseteq Names(r) \cup {k}
  BY DEF Row, Names

LEMMA NamesAfterSave ==
  ASSUME NEW r \in Row, NEW have \in Row, NEW want \in Row
  PROVE  /\ ColumnsAfterSave(r, have, want) \in Row
         /\ Names(ColumnsAfterSave(r, have, want)) \subseteq Names(r) \cup Names(want)
  BY DEF Row, Names, ColumnsAfterSave

\* A file put, or put in part, takes no other one away.
LEMMA PutStep ==
  ASSUME MediaTypeOK, ~RemoteUnconfigured, NEW k \in Key, Put(k) \/ PutFails(k),
         UNCHANGED driver
  PROVE  /\ store' \in [Backend -> SUBSET Key]
         /\ drawn' = drawn \cup {k}
         /\ copied' = FALSE
         /\ \A x : Held(x) => Held(x)'
         /\ Put(k) => Held(k)'
         /\ store'[driver] \subseteq store[driver] \cup {k}
<1>1. driver \in Backend
  BY DEF MediaTypeOK, RemoteUnconfigured
<1> QED BY <1>1 DEF MediaTypeOK, Put, PutFails, Client, Held, RemoteUnconfigured

\* The steps that leave the files alone.
LEMMA UpdateStep ==
  ASSUME MediaInv, NEW q \in Request,
         \/ \E C \in SUBSET Column, want \in Row : Find(q, C, want)
         \/ SaveLoad(q) \/ SaveCommit(q) \/ SaveFails(q)
  PROVE  MediaInv'
<1> USE UpdateShape, RowNames DEF MediaInv, MediaTypeOK
<1>held. UNCHANGED <<driver, files, history>> => \A k : Held(k)' = Held(k)
  BY DEF files, history, Held, RemoteUnconfigured
<1>kept. ASSUME UNCHANGED <<driver, files, history>>
         PROVE  KeptInv' /\ DeletedInv'
  BY <1>kept, <1>held DEF files, history, KeptInv, DeletedInv, RemoteUnconfigured
<1>1. ASSUME NEW C \in SUBSET Column, NEW want \in Row, Find(q, C, want)
      PROVE  MediaInv'
  <2> DEFINE u == [pc |-> "files", todo |-> C, want |-> want]
  <2>1. update' = [update EXCEPT ![q] = u]
    BY <1>1 DEF Find
  <2>2. Names(want) \subseteq Names(row)
    BY <1>1, NamesWithText DEF Find, MediaTypeOK
  <2>3. u \in Updates
    BY <2>2 DEF Updates
  <2>4. MediaTypeOK'
    BY <1>1, <2>1, <2>3 DEF Find, files, history
  <2>5. PicturesInv'
    BY <1>1, <1>held, <2>1, <2>2 DEF Find, files, history, PicturesInv, NoUpdate
  <2> QED BY <1>1, <1>kept, <2>4, <2>5 DEF Find
<1>2. CASE SaveLoad(q)
  <2> DEFINE u == [pc |-> "loaded", want |-> update[q].want, have |-> row]
  <2>1. update' = [update EXCEPT ![q] = u]
    BY <1>2 DEF SaveLoad
  <2>2. u \in Updates
    BY <1>2 DEF SaveLoad, Updates
  <2>3. MediaTypeOK'
    BY <1>2, <2>1, <2>2 DEF SaveLoad, files, history
  <2>4. PicturesInv'
    BY <1>2, <1>held, <2>1 DEF SaveLoad, files, history, PicturesInv, NoUpdate
  <2> QED BY <1>2, <1>kept, <2>3, <2>4 DEF SaveLoad
<1>3. CASE SaveCommit(q)
  <2>1. /\ row' = ColumnsAfterSave(row, update[q].have, update[q].want)
        /\ update' = [update EXCEPT ![q] = NoUpdate]
        /\ update[q].pc = "loaded"
    BY <1>3 DEF SaveCommit
  <2>2. row' \in Row /\ Names(row') \subseteq Names(row) \cup Names(update[q].want)
    BY <2>1, NamesAfterSave
  <2>3. MediaTypeOK'
    BY <1>3, <2>1, <2>2 DEF SaveCommit, files, history
  <2>4. PicturesInv'
    BY <1>3, <1>held, <2>1, <2>2 DEF SaveCommit, files, history, PicturesInv
  <2> QED BY <1>3, <1>kept, <2>3, <2>4 DEF SaveCommit
<1>4. CASE SaveFails(q)
  <2>1. MediaTypeOK'
    BY <1>4 DEF SaveFails, files, history
  <2>2. PicturesInv'
    BY <1>4, <1>held DEF SaveFails, files, history, PicturesInv
  <2> QED BY <1>4, <1>kept, <2>1, <2>2 DEF SaveFails
<1> QED BY <1>1, <1>2, <1>3, <1>4

\* A file of a picture is stored, or not.
LEMMA UploadStep ==
  ASSUME MediaInv, NEW q \in Request,
         (\E c \in Column, k \in Picture : SaveUpload(q, c, k)) \/ UploadFails(q)
  PROVE  MediaInv'
<1> USE UpdateShape, RowNames DEF MediaInv, MediaTypeOK
<1>1. ASSUME NEW c \in Column, NEW k \in Picture, SaveUpload(q, c, k)
      PROVE  MediaInv'
  <2> DEFINE u == [pc |-> "files", todo |-> update[q].todo \ {c},
                   want |-> [update[q].want EXCEPT ![c] = k]]
  <2>1. update' = [update EXCEPT ![q] = u] /\ update[q].pc = "files"
    BY <1>1 DEF SaveUpload, WithKey, NextFile
  <2>2. u.want \in Row /\ Names(u.want) \subseteq Names(update[q].want) \cup {k}
    BY <2>1, NamesWithKey
  <2>3. u \in Updates
    BY <2>1, <2>2 DEF Updates
  <2>4. ~RemoteUnconfigured /\ Put(k) /\ k \in Key /\ k \in Picture \ drawn
        /\ UNCHANGED <<driver, row, page, kept, deleted, orderly>>
    BY <1>1 DEF SaveUpload, Key
  <2>5. /\ store' \in [Backend -> SUBSET Key]
        /\ drawn' = drawn \cup {k}
        /\ copied' = FALSE
        /\ \A x : Held(x) => Held(x)'
        /\ Held(k)'
        /\ store'[driver] \subseteq store[driver] \cup {k}
    BY <2>4, PutStep
  <2>6. MediaTypeOK'
    BY <2>1, <2>3, <2>4, <2>5
  <2>7. PicturesInv'
    BY <2>1, <2>2, <2>4, <2>5 DEF PicturesInv, NoUpdate
  <2>8. KeptInv' /\ DeletedInv'
    BY <2>4, <2>5, MediaAssumption DEF KeptInv, DeletedInv, RemoteUnconfigured
  <2> QED BY <2>6, <2>7, <2>8
<1>2. CASE UploadFails(q)
  <2>1. update' = [update EXCEPT ![q] = NoUpdate]
        /\ UNCHANGED <<driver, row, page, kept, deleted, orderly>>
    BY <1>2 DEF UploadFails
  <2>2. CASE UNCHANGED <<files, copied>>
    <3>1. \A k : Held(k)' = Held(k)
      BY <2>1, <2>2 DEF files, Held, RemoteUnconfigured
    <3>2. MediaTypeOK'
      BY <2>1, <2>2 DEF files
    <3>3. PicturesInv'
      BY <2>1, <2>2, <3>1 DEF PicturesInv
    <3>4. KeptInv' /\ DeletedInv'
      BY <2>1, <2>2, <3>1 DEF files, KeptInv, DeletedInv, RemoteUnconfigured
    <3> QED BY <3>2, <3>3, <3>4
  <2>3. ASSUME ~RemoteUnconfigured, NEW k \in Picture \ drawn, PutFails(k)
        PROVE  MediaInv'
    <3>1. /\ store' \in [Backend -> SUBSET Key]
          /\ drawn' = drawn \cup {k} /\ k \in Key
          /\ copied' = FALSE
          /\ \A x : Held(x) => Held(x)'
          /\ store'[driver] \subseteq store[driver] \cup {k}
      BY <2>1, <2>3, PutStep DEF Key
    <3>2. MediaTypeOK'
      BY <2>1, <3>1
    <3>3. PicturesInv'
      BY <2>1, <3>1 DEF PicturesInv
    <3>4. KeptInv' /\ DeletedInv'
      BY <2>1, <2>3, <3>1 DEF KeptInv, DeletedInv, RemoteUnconfigured
    <3> QED BY <3>2, <3>3, <3>4
  <2> QED BY <1>2, <2>2, <2>3 DEF UploadFails
<1> QED BY <1>1, <1>2

\* The file manager: an editor file is stored, or not.
LEMMA EditorUploadStep ==
  ASSUME MediaInv, NEW e \in Editor, Upload(e) \/ UploadRefused(e)
  PROVE  MediaInv'
<1> USE RowNames DEF MediaInv, MediaTypeOK
<1>1. /\ UNCHANGED <<driver, row, update, page, deleted, orderly>>
      /\ ~RemoteUnconfigured /\ e \notin drawn /\ e \in Key
      /\ Put(e) \/ PutFails(e)
      /\ (kept' = kept \cup {e} /\ Put(e)) \/ kept' = kept
  BY DEF Upload, UploadRefused, Key
<1>2. /\ store' \in [Backend -> SUBSET Key]
      /\ drawn' = drawn \cup {e}
      /\ copied' = FALSE
      /\ \A x : Held(x) => Held(x)'
      /\ Put(e) => Held(e)'
      /\ store'[driver] \subseteq store[driver] \cup {e}
  BY <1>1, PutStep
<1>3. MediaTypeOK'
  BY <1>1, <1>2
<1>4. PicturesInv'
  BY <1>1, <1>2 DEF PicturesInv
<1>5. KeptInv'
  BY <1>1, <1>2 DEF KeptInv
<1>6. DeletedInv'
  BY <1>1, <1>2 DEF DeletedInv, RemoteUnconfigured
<1> QED BY <1>3, <1>4, <1>5, <1>6

\* What the file manager is shown are editor files.
LEMMA ListingKeys ==
  ASSUME MediaTypeOK, NEW S \in MediaList
  PROVE  /\ S \subseteq Editor
         /\ ~RemoteUnconfigured => S \subseteq store[driver]
         /\ RemoteUnconfigured => S = {}
  BY DEF MediaList, ListFiles, Listings, Client

LEMMA LoadListStep ==
  ASSUME MediaInv, LoadList
  PROVE  MediaInv'
<1> USE DEF MediaInv, LoadList
<1>1. MediaTypeOK'
  BY ListingKeys DEF MediaTypeOK, files, history
<1>2. \A k : Held(k)' = Held(k)
  BY DEF files, history, Held, RemoteUnconfigured
<1>3. PicturesInv' /\ KeptInv' /\ DeletedInv'
  BY <1>2 DEF PicturesInv, KeptInv, DeletedInv, files, history, RemoteUnconfigured
<1> QED BY <1>1, <1>3

\* A deletion takes away one editor file at most, and no picture.
LEMMA DeleteFileStep ==
  ASSUME MediaInv, NEW k \in Key, NEW form \in Forms, DeleteFile(k, form)
  PROVE  MediaInv'
<1> USE UpdateShape, RowNames DEF MediaInv, MediaTypeOK
<1>1. /\ ~RemoteUnconfigured /\ driver \in Backend /\ k \in drawn
      /\ UNCHANGED <<driver, row, update, drawn, copied, orderly>>
      /\ store' = [store EXCEPT ![driver] = @ \ Named(k, form)]
      /\ kept' = kept \ {k}
      /\ deleted' = IF form # "signed" /\ k \in Editor THEN deleted \cup {k} ELSE deleted
  BY DEF DeleteFile, RemoveKeys, Client, RemoteUnconfigured
<1>2. /\ Named(k, form) \subseteq {k} \cap Editor
      /\ form # "signed" /\ k \in Editor => k \in Named(k, form)
  BY DEF Named
<1>3. page' \subseteq Editor
  BY DEF DeleteFile
<1>4. MediaTypeOK'
  BY <1>1, <1>3
<1>5. \A x : Held(x) /\ x \notin Named(k, form) => Held(x)'
  BY <1>1 DEF Held, RemoteUnconfigured
<1>6. \A x \in Picture : Held(x) => Held(x)'
  BY <1>2, <1>5, MediaAssumption
<1>7. PicturesInv'
  <2>1. ASSUME orderly'
        PROVE  \A x \in Names(row)' : Held(x)'
    BY <1>1, <1>6, <2>1 DEF PicturesInv
  <2>2. ASSUME orderly', NEW q \in Request, update'[q] # NoUpdate
        PROVE  \A x \in Names(update'[q].want) : Held(x)'
    BY <1>1, <1>6, <2>2 DEF PicturesInv
  <2>3. ASSUME orderly', NEW q \in Request, update'[q].pc = "loaded"
        PROVE  \A x \in Names(update'[q].have) : Held(x)'
    BY <1>1, <1>6, <2>3 DEF PicturesInv
  <2> QED BY <2>1, <2>2, <2>3 DEF PicturesInv
<1>8. KeptInv'
  BY <1>1, <1>2, <1>5 DEF KeptInv
<1>9. DeletedInv'
  BY <1>1, <1>2 DEF DeletedInv, RemoteUnconfigured
<1> QED BY <1>4, <1>7, <1>8, <1>9

\* The operator.
LEMMA CopyFilesStep ==
  ASSUME MediaInv, NEW a \in Backend, NEW b \in Backend, CopyFiles(a, b)
  PROVE  MediaInv'
<1> USE DEF MediaInv, MediaTypeOK
<1>1. /\ UNCHANGED <<driver, row, update, page, drawn, kept, orderly>>
      /\ a # b /\ store' = [store EXCEPT ![b] = @ \cup store[a]]
      /\ copied' = (copied \/ a = driver)
      /\ deleted' = IF b = driver THEN {} ELSE deleted
  BY DEF CopyFiles
<1>2. Backend = {a, b}
  BY <1>1 DEF Backend
<1>3. MediaTypeOK'
  BY <1>1
<1>4. \A x : Held(x) => Held(x)'
  BY <1>1, <1>2 DEF Held, RemoteUnconfigured, Backend
<1>5. PicturesInv'
  BY <1>1, <1>4 DEF PicturesInv
<1>6. KeptInv'
  BY <1>1, <1>4 DEF KeptInv
<1>7. DeletedInv'
  BY <1>1 DEF DeletedInv, RemoteUnconfigured
<1> QED BY <1>3, <1>5, <1>6, <1>7

LEMMA RestartStep ==
  ASSUME MediaInv, NEW d \in Backend \cup {"keyless"}, Restart(d)
  PROVE  MediaInv'
<1> USE DEF MediaInv, MediaTypeOK
<1>1. /\ driver' = d /\ UNCHANGED <<store, drawn, row, page, kept, copied>>
      /\ update' = [q \in Request |-> NoUpdate]
      /\ orderly' = (orderly /\ (d = driver \/ copied))
      /\ deleted' = IF d = driver THEN deleted ELSE {}
  BY DEF Restart, files
<1>2. MediaTypeOK'
  BY <1>1
<1>3. orderly' => \A x : Held(x) => Held(x)'
  BY <1>1 DEF Held, RemoteUnconfigured
<1>4. PicturesInv'
  BY <1>1, <1>3 DEF PicturesInv, NoUpdate
<1>5. KeptInv'
  BY <1>1, <1>3 DEF KeptInv
<1>6. DeletedInv'
  BY <1>1 DEF DeletedInv, RemoteUnconfigured
<1> QED BY <1>2, <1>4, <1>5, <1>6

LEMMA MediaInductiveStep == MediaInv /\ [MediaNext]_mediaVars => MediaInv'
<1> SUFFICES ASSUME MediaInv, [MediaNext]_mediaVars
             PROVE  MediaInv'
  OBVIOUS
<1>1. CASE MediaNext
  BY <1>1, UpdateStep, UploadStep, EditorUploadStep, LoadListStep, DeleteFileStep,
     CopyFilesStep, RestartStep
  DEF MediaNext
<1>2. CASE UNCHANGED mediaVars
  <2>1. UNCHANGED <<driver, store, drawn, row, update, page, kept, deleted, copied, orderly>>
    BY <1>2 DEF mediaVars, files, history
  <2>2. \A k : Held(k)' = Held(k)
    BY <2>1 DEF Held, RemoteUnconfigured
  <2>3. MediaTypeOK'
    BY <2>1 DEF MediaInv, MediaTypeOK
  <2>4. PicturesInv' /\ KeptInv' /\ DeletedInv'
    BY <2>1, <2>2 DEF MediaInv, PicturesInv, KeptInv, DeletedInv, RemoteUnconfigured
  <2> QED BY <2>3, <2>4 DEF MediaInv
<1> QED BY <1>1, <1>2

\* The inductive invariant.
THEOREM MediaInvariance == MediaSpec => []MediaInv
  BY MediaInitialState, MediaInductiveStep, PTL DEF MediaSpec

\* The row, the calls of update and the backends keep their types.
THEOREM MediaTypeCorrect == MediaSpec => []MediaTypeOK
<1>1. MediaInv => MediaTypeOK
  BY DEF MediaInv
<1> QED BY <1>1, MediaInvariance, PTL

\* StorageService.saveUpload before save: a row never names a picture that the
\* program cannot serve, unless the request itself brought the name.
THEOREM RowsRenderAlways == MediaSpec => []RowsRender
<1>1. MediaInv => RowsRender
  <2> SUFFICES ASSUME MediaInv, orderly, ~RemoteUnconfigured,
                      NEW c \in Column, row[c] \in Picture
               PROVE  Renders(GetFile(row[c]))
    BY DEF RowsRender
  <2>1. row[c] \in store[driver]
    BY DEF MediaInv, PicturesInv, Names, Held
  <2>2. driver \in Backend
    BY DEF MediaInv, MediaTypeOK, RemoteUnconfigured
  <2> QED BY <2>1, <2>2
          DEF Renders, GetFile, SignedUrl, LocalUrl, PresignedUrl, RemoteUnconfigured, Backend
<1> QED BY <1>1, MediaInvariance, PTL

\* MediaService.list: nothing it reported as deleted, and everything it reported as
\* uploaded that the limit of a listing leaves room for.
THEOREM ListTellsAlways == MediaSpec => []ListTells
<1>1. MediaInv => ListTells
  <2> SUFFICES ASSUME MediaInv, NEW S \in MediaList
               PROVE  /\ S \cap deleted = {}
                      /\ orderly /\ ~RemoteUnconfigured
                           /\ Cardinality(store[driver] \cap Editor) <= MaxKeys => kept \subseteq S
    BY DEF ListTells
  <2>1. S \cap deleted = {}
    BY ListingKeys DEF MediaInv, DeletedInv
  <2>2. ASSUME orderly, ~RemoteUnconfigured,
               Cardinality(store[driver] \cap Editor) <= MaxKeys
        PROVE  kept \subseteq S
    <3>1. S = store[driver] \cap Editor
      BY <2>2 DEF MediaList, ListFiles, Listings, Client
    <3>2. kept \subseteq store[driver] \cap Editor
      BY <2>2 DEF MediaInv, MediaTypeOK, KeptInv, Held
    <3> QED BY <3>1, <3>2
  <2> QED BY <2>1, <2>2
<1> QED BY <1>1, MediaInvariance, PTL

-----------------------------------------------------------------------------
(***************************************************************************)
(* Console.                                                                *)
(***************************************************************************)
\* Sequences of messages.
LEMMA NoMessages == ToSet(<<>>) = {} /\ <<>> \in Messages
  BY DEF ToSet, Messages

LEMMA MessageSeq ==
  ASSUME NEW s \in Messages
  PROVE  /\ ToSet(s) \subseteq Message
         /\ ToSet(<<>>) = {} /\ <<>> \in Messages
         /\ s # <<>> => Head(s) \in ToSet(s)
  BY DEF Messages, ToSet

LEMMA AppendMessage ==
  ASSUME NEW s \in Messages, NEW m \in Message
  PROVE  /\ Append(s, m) \in Messages
         /\ ToSet(Append(s, m)) = ToSet(s) \cup {m}
         /\ Append(s, m) # s /\ Append(s, m) # <<>>
         /\ s # <<>> => Head(Append(s, m)) = Head(s)
         /\ Append(<<>>, m) = <<m>>
         /\ Last(<<m>>) = m /\ Head(<<m>>) = m /\ ToSet(<<m>>) = {m} /\ <<m>> # <<>>
<1> USE DEF Messages
<1>1. Append(s, m) \in Messages /\ Append(s, m) # s /\ Append(s, m) # <<>>
  BY Len(Append(s, m)) = Len(s) + 1
<1>2. ToSet(Append(s, m)) = ToSet(s) \cup {m}
  <2> DEFINE a == Append(s, m)
  <2>1. DOMAIN a = 1..(Len(s) + 1) /\ DOMAIN s = 1..Len(s) /\ Len(s) \in Nat
    OBVIOUS
  <2>2. \A i \in 1..Len(s) : a[i] = s[i]
    OBVIOUS
  <2>3. a[Len(s) + 1] = m
    OBVIOUS
  <2> QED BY <2>1, <2>2, <2>3 DEF ToSet
<1>3. s # <<>> => Head(Append(s, m)) = Head(s)
  OBVIOUS
<1>4. Append(<<>>, m) = <<m>>
  OBVIOUS
<1>5. Last(<<m>>) = m /\ Head(<<m>>) = m /\ ToSet(<<m>>) = {m} /\ <<m>> # <<>>
  BY DEF Last, ToSet
<1> QED BY <1>1, <1>2, <1>3, <1>4, <1>5

\* A request at each place, and the fields of the one it becomes.
LEMMA TabShape ==
  ASSUME TypeOK, NEW t \in Tab
  PROVE  /\ tab[t] \in {Idle} \cup Requests
         /\ saving[t] \in {None} \cup Saves
         /\ tab[t] = Idle <=> tab[t].pc = "idle"
         /\ tab[t].pc \in {"idle", "get", "run", "await"}
         /\ tab[t] # Idle => /\ tab[t].at \in Controller /\ tab[t].ask \in {"page", "form", "data"}
                             /\ tab[t].was \in Messages /\ tab[t].flash \in Messages
                             /\ tab[t].after \in Message \cup {None}
         /\ saving[t] # None => /\ saving[t].pc \in {"find", "write"}
                                /\ saving[t].flash \in Messages /\ saving[t].have \in Messages
  BY DEF TypeOK, Requests, Saves, Idle

LEMMA NewRequest ==
  ASSUME NEW at \in Controller, NEW ask \in {"page", "form", "data"}, NEW after \in Message \cup {None}
  PROVE  /\ Get(at, ask, after) \in Requests /\ Get(at, ask, after) # Idle
         /\ Get(at, ask, after).pc = "get" /\ Get(at, ask, after).after = after
         /\ Get(at, ask, after).was = <<>> /\ Get(at, ask, after).flash = <<>>
<1>1. <<>> \in Messages
  BY DEF Messages
<1>2. Get(at, ask, after).pc # Idle.pc
  BY DEF Get, Idle
<1> QED BY <1>1, <1>2 DEF Get, Idle, Requests

LEMMA NewSave ==
  ASSUME NEW s \in Messages
  PROVE  /\ [pc |-> "find", flash |-> s, have |-> <<>>] \in Saves
         /\ [pc |-> "find", flash |-> s, have |-> <<>>] # None
<1>1. [pc |-> "find", flash |-> s, have |-> <<>>] \in Saves
  BY DEF Saves, Messages
<1> QED BY <1>1, NoneAssumption

\* A tab without a copy of the session has no messages in memory; while a message
\* that has not crossed is in the session, one tab at most has a copy, and one copy.
LEMMA NoCopy ==
  ASSUME TypeOK, RequestInv, NEW t \in Tab, ~Open(t)
  PROVE  Taken(t) = {} /\ Copy(t) = {}
<1>1. tab[t] = Idle \/ (tab[t].was = <<>> /\ tab[t].flash = <<>>)
  BY TabShape DEF Open, Runs, RequestInv
<1>2. ToSet(<<>>) = {}
  BY DEF ToSet
<1> QED BY <1>1, <1>2 DEF Open, Taken, Copy

LEMMA OneCopy ==
  ASSUME TypeOK, RequestInv, NotedInv, NEW m \in Live \ crossed, NEW t \in Tab, Open(t)
  PROVE  /\ \A u \in Tab \ {t} : ~Open(u) /\ Taken(u) = {} /\ Copy(u) = {}
         /\ m \in ToSet(stored) \cup Taken(t) \cup Copy(t)
         /\ tab[t].pc = "run" => saving[t] = None
<1>1. ~Two /\ ~Behind
  BY DEF NotedInv
<1>2. \A u \in Tab \ {t} : ~Open(u)
  BY <1>1 DEF Two
<1>3. \A u \in Tab \ {t} : Taken(u) = {} /\ Copy(u) = {}
  BY <1>2, NoCopy
<1>4. m \in ToSet(stored) \cup Taken(t) \cup Copy(t)
  BY <1>3 DEF Live
<1> QED BY <1>1, <1>2, <1>3, <1>4 DEF Behind

LEMMA NoCopies ==
  ASSUME TypeOK, RequestInv, NEW m \in Live, \A t \in Tab : ~Open(t)
  PROVE  m \in ToSet(stored)
  BY NoCopy DEF Live

\* What a step of tab t leaves alone.
LEMMA TabStep ==
  ASSUME TypeOK, NEW t \in Tab,
         NEW r \in {Idle} \cup Requests, tab' = [tab EXCEPT ![t] = r],
         NEW v \in {None} \cup Saves, saving' = [saving EXCEPT ![t] = v]
  PROVE  /\ tab' \in [Tab -> {Idle} \cup Requests] /\ tab'[t] = r
         /\ saving' \in [Tab -> {None} \cup Saves] /\ saving'[t] = v
         /\ \A u \in Tab \ {t} :
              /\ tab'[u] = tab[u] /\ saving'[u] = saving[u]
              /\ Open(u)' = Open(u) /\ Taken(u)' = Taken(u) /\ Copy(u)' = Copy(u)
         /\ \A m : m \in Live' => \/ m \in Live \cup ToSet(stored')
                                  \/ m \in Taken(t)' \cup Copy(t)'
         /\ \A m : m \in ToSet(stored') \cup Taken(t)' \cup Copy(t)' => m \in Live'
         /\ \A m : m \in Live => \/ m \in Live' \cup ToSet(stored)
                                 \/ m \in Taken(t) \cup Copy(t)
<1>1. /\ tab' \in [Tab -> {Idle} \cup Requests] /\ tab'[t] = r
      /\ saving' \in [Tab -> {None} \cup Saves] /\ saving'[t] = v
  BY DEF TypeOK
<1>2. \A u \in Tab \ {t} : tab'[u] = tab[u] /\ saving'[u] = saving[u]
  BY DEF TypeOK
<1>3. \A u \in Tab \ {t} :
         Open(u)' = Open(u) /\ Taken(u)' = Taken(u) /\ Copy(u)' = Copy(u)
  BY <1>2 DEF Open, Runs, Taken, Copy
<1>4. \A m : m \in Live' => \/ m \in Live \cup ToSet(stored')
                            \/ m \in Taken(t)' \cup Copy(t)'
  BY <1>3 DEF Live
<1>5. \A m : m \in ToSet(stored') \cup Taken(t)' \cup Copy(t)' => m \in Live'
  BY DEF Live
<1>6. \A m : m \in Live => \/ m \in Live' \cup ToSet(stored)
                           \/ m \in Taken(t) \cup Copy(t)
  BY <1>3 DEF Live
<1> QED BY <1>1, <1>2, <1>3, <1>4, <1>5, <1>6

\* The history of any step.
LEMMA NoteStep ==
  ASSUME TypeOK, Note
  PROVE  /\ NotedInv'
         /\ crossed \subseteq crossed' /\ mixed \subseteq mixed'
         /\ Live' \subseteq given' /\ given \subseteq given' => crossed' \subseteq given'
         /\ mixed' \subseteq crossed'
  BY DEF TypeOK, Note, NotedInv

\* Two tabs with a copy, and two requests of one tab, after a step.
LEMMA Overlaps ==
  ASSUME NotedInv', NEW t \in Tab, Open(t)'
  PROVE  /\ \A u \in Tab \ {t} : Open(u)' => Live' \subseteq crossed' /\ Live' \subseteq mixed'
         /\ tab'[t].pc = "run" /\ saving'[t] # None => Live' \subseteq crossed'
  BY DEF NotedInv, Two, Behind

\* A handler leaves: its request is r from here, what its copy holds is s, the
\* messages of G are given and those of M are shown.
LEMMA LeaveStep ==
  ASSUME ConsoleInv, Note, UNCHANGED stored,
         NEW t \in Tab, tab[t].pc = "run", saving[t] = None,
         NEW r \in {Idle} \cup Requests, tab' = [tab EXCEPT ![t] = r],
         NEW s \in Messages, NEW G \in SUBSET Message, NEW M \in SUBSET Message,
         \/ s = <<>> /\ G = {}
         \/ M = {} /\ \E m \in Fresh : s = <<m>> /\ G = {m},
         M \subseteq FlashMessage(tab[t].was),
         \/ r.pc = "idle"
         \/ r.pc = "get" /\ r.was = <<>> /\ r.flash = <<>> /\ r.after = None
         \/ r.pc = "await" /\ r.was = tab[t].was /\ r.flash = s,
         saving' = IF r.pc # "await" /\ s = tab[t].was THEN saving
                   ELSE [saving EXCEPT ![t] = [pc |-> "find", flash |-> s, have |-> <<>>]],
         Give(G), Show(M), Miss(Taken(t) \ M)
  PROVE  ConsoleInv'
<1> DEFINE f == [pc |-> "find", flash |-> s, have |-> <<>>]
           v == IF r.pc # "await" /\ s = tab[t].was THEN None ELSE f
<1> USE DEF ConsoleInv
<1>was. /\ tab[t] # Idle /\ tab[t].was \in Messages /\ tab[t].flash = <<>>
        /\ Taken(t) = ToSet(tab[t].was) /\ Copy(t) = {} /\ Open(t)
  <2>1. tab[t] # Idle /\ tab[t].was \in Messages /\ tab[t].flash = <<>>
    BY TabShape DEF RequestInv
  <2>2. ToSet(<<>>) = {}
    BY DEF ToSet
  <2> QED BY <2>1, <2>2 DEF Taken, Copy, Open, Runs
<1>v. /\ v \in {None} \cup Saves /\ saving' = [saving EXCEPT ![t] = v]
      /\ f # None /\ f.pc = "find" /\ f.flash = s
  BY NewSave DEF TypeOK
<1> HIDE DEF v, f
<1>frame. /\ tab' \in [Tab -> {Idle} \cup Requests] /\ tab'[t] = r
          /\ saving' \in [Tab -> {None} \cup Saves] /\ saving'[t] = v
          /\ \A u \in Tab \ {t} :
               /\ tab'[u] = tab[u] /\ saving'[u] = saving[u]
               /\ Open(u)' = Open(u) /\ Taken(u)' = Taken(u) /\ Copy(u)' = Copy(u)
          /\ \A m : m \in Live' => \/ m \in Live \cup ToSet(stored')
                                   \/ m \in Taken(t)' \cup Copy(t)'
          /\ \A m : m \in ToSet(stored') \cup Taken(t)' \cup Copy(t)' => m \in Live'
  BY <1>v, TabStep
<1>s. ToSet(s) = G
  <2>1. \A m \in Message : ToSet(<<m>>) = {m}
    BY <1>was, AppendMessage
  <2>2. ToSet(<<>>) = {}
    BY DEF ToSet
  <2> QED BY <2>1, <2>2 DEF Fresh
<1>note. /\ NotedInv' /\ crossed \subseteq crossed' /\ mixed \subseteq mixed'
         /\ Live' \subseteq given' /\ given \subseteq given' => crossed' \subseteq given'
         /\ mixed' \subseteq crossed'
  BY NoteStep
<1>idle. \A x \in {Idle} \cup Requests : x = Idle <=> x.pc = "idle"
  BY DEF Idle, Requests
<1>M. M \subseteq Taken(t) /\ Taken(t) \subseteq Live /\ Taken(t) \subseteq given
  BY <1>was, MessageSeq DEF FlashMessage, Live, GivenInv
<1>live. /\ Taken(t)' \subseteq Taken(t) /\ Copy(t)' \subseteq G
         /\ \A m \in Live' : m \in Live \cup G
         /\ v = f => G \subseteq Copy(t)'
  <2>1. ToSet(<<>>) = {}
    BY DEF ToSet
  <2>2. Taken(t)' \subseteq Taken(t)
    BY <2>1, <1>frame, <1>idle, <1>was DEF Taken
  <2>3. Copy(t)' \subseteq G /\ (v = f => G \subseteq Copy(t)')
    BY <2>1, <1>frame, <1>idle, <1>v, <1>s DEF Copy, v
  <2>4. ToSet(stored') \subseteq Live
    BY DEF Live
  <2> QED BY <2>2, <2>3, <2>4, <1>frame, <1>M
<1>type. TypeOK' /\ RequestInv' /\ GivenInv'
  <2>1. given' = given \cup G /\ missed' = missed \cup (Taken(t) \ M)
        /\ shown' = [m \in Message |-> IF m \in M /\ shown[m] < 2 THEN shown[m] + 1 ELSE shown[m]]
    BY DEF Give, Miss, Show
  <2>2. Live' \subseteq given'
    BY <2>1, <1>live DEF GivenInv
  <2>3. TypeOK'
    <3>1. shown' \in [Message -> 0..2]
      BY <2>1 DEF TypeOK
    <3>2. \A u \in Tab : tab'[u].pc = "await" => saving'[u] # None
      BY <1>frame, <1>v DEF TypeOK, v
    <3> QED BY <2>1, <2>2, <3>1, <3>2, <1>frame, <1>note, <1>M DEF TypeOK
  <2>4. RequestInv'
    <3>1. s = <<>> \/ \E m \in Message : s = <<m>>
      BY DEF Fresh
    <3>2. r.pc = "await" => v.flash = s
      BY <1>v DEF v
    <3> QED BY <3>1, <3>2, <1>frame DEF RequestInv
  <2>5. GivenInv'
    BY <2>1, <2>2, <1>M DEF GivenInv
  <2> QED BY <2>3, <2>4, <2>5
<1>shown. /\ given' = given \cup G /\ missed' = missed \cup (Taken(t) \ M)
          /\ \A m \in Message : /\ shown[m] \in 0..2 /\ shown'[m] \in 0..2 /\ shown'[m] >= shown[m]
                                /\ m \notin M => shown'[m] = shown[m]
                                /\ m \in M => shown'[m] > 0
                                /\ m \in M /\ shown[m] = 0 => shown'[m] = 1
  BY DEF TypeOK, Give, Miss, Show
<1>told. ToldInv'
  <2> SUFFICES ASSUME NEW m \in Message, m \in given' \ (crossed' \cup missed')
               PROVE  OnItsWay(m)'
    BY <1>type DEF ToldInv, TypeOK
  <2>1. CASE m \in G
    <3>1. s = <<m>> /\ m \notin given /\ m \in ToSet(s) /\ m \notin M
      BY <2>1, <1>s, <1>M DEF Fresh
    <3>2. s # tab[t].was
      BY <3>1, <1>M, <1>was
    <3>3. v = f /\ v # None /\ m \in Live' /\ Open(t)'
      BY <3>2, <2>1, <1>live, <1>frame, <1>v DEF v, Open
    <3>4. \A u \in Tab \ {t} : ~Open(u)'
      BY <3>3, <1>note, Overlaps
    <3>5. shown'[m] = 0
      BY <3>1, <1>shown DEF GivenInv
    <3> QED BY <3>1, <3>3, <3>4, <3>5, <1>frame, <1>v DEF OnItsWay, Open, Runs
  <2>2. CASE m \notin G /\ m \notin Live
    <3>1. m \in given \ (crossed \cup missed) /\ shown[m] = 1
      BY <2>2, <1>shown, <1>note DEF ToldInv, OnItsWay
    <3>2. m \notin Live' /\ shown'[m] = 1
      BY <2>2, <3>1, <1>live, <1>shown, <1>M
    <3> QED BY <3>2 DEF OnItsWay
  <2>3. CASE m \notin G /\ m \in Live
    <3>1. m \in given \ (crossed \cup missed)
      BY <2>3, <1>shown, <1>note
    <3>2. tab[t].was = stored /\ shown[m] = 0
      BY <2>3, <3>1 DEF ToldInv, OnItsWay
    <3>3. /\ \A u \in Tab \ {t} : ~Open(u)
          /\ m \in ToSet(stored) \cup Taken(t) \cup Copy(t)
      BY <2>3, <3>1, <1>was, OneCopy
    <3>4. m \in Taken(t) /\ m \in M /\ shown'[m] = 1
      BY <3>2, <3>3, <1>was, <1>shown
    <3>5. s = <<>> /\ s # tab[t].was /\ ToSet(<<>>) = {}
      BY <3>4, <1>was, MessageSeq
    <3>6. v = f /\ v # None /\ Open(t)'
      BY <3>5, <1>frame, <1>v DEF v, Open
    <3>7. \A u \in Tab \ {t} : ~Open(u)'
      BY <3>3, <1>frame
    <3>8. m \in Live'
      BY <3>2, <3>4, <1>frame, <1>was
    <3> QED BY <3>4, <3>5, <3>6, <3>7, <3>8, <1>frame, <1>v DEF OnItsWay, Open, Runs
  <2> QED BY <2>1, <2>2, <2>3
<1>redirect. RedirectInv'
  <2> SUFFICES ASSUME NEW w \in Tab, NEW m \in Message \ (mixed' \cup missed')
               PROVE  Redirected(w, m)'
    BY DEF RedirectInv
  <2>1. CASE w = t
    <3>1. r.pc = "await" => v = f
      BY DEF v
    <3> QED BY <2>1, <3>1, <1>frame, <1>v, <1>type, NoneAssumption DEF TypeOK, Redirected
  <2>2. CASE w # t
    <3>1. m \in Message \ (mixed \cup missed) /\ (shown[m] > 0 => shown'[m] > 0)
      BY <1>note, <1>shown
    <3>2. tab'[w] = tab[w] /\ saving'[w] = saving[w]
      BY <2>2, <1>frame
    <3>3. CASE tab[w].pc = "get" /\ tab[w].after = m
      <4>1. CASE shown[m] > 0
        BY <3>1, <3>2, <3>3, <4>1 DEF TypeOK, Redirected
      <4>2. CASE First(m)
        <5>1. Leads(m, tab[t].was)
          BY <4>2 DEF First
        <5>2. m \in Taken(t)
          BY <5>1, <1>was, MessageSeq DEF Leads
        <5>3. m \in M
          BY <5>2, <1>shown
        <5> QED BY <5>3, <3>2, <3>3, <1>shown DEF Redirected
      <4> QED BY <4>1, <4>2, <3>1, <3>3 DEF RedirectInv, Redirected
    <3> QED BY <3>1, <3>2, <3>3 DEF RedirectInv, Redirected
  <2> QED BY <2>1, <2>2
<1> QED BY <1>type, <1>note, <1>told, <1>redirect

\* The ways out of a handler.
LEMMA RunShape ==
  ASSUME ConsoleInv, NEW t \in Tab, tab[t].pc = "run"
  PROVE  /\ tab[t] \in Requests /\ tab[t].flash = <<>> /\ tab[t].was \in Messages
         /\ tab[t].at \in Controller /\ tab[t].ask \in {"page", "form", "data"}
         /\ <<>> \in Messages /\ Idle.pc = "idle"
         /\ FlashMessage(tab[t].was) \subseteq Message
         /\ \A m \in Message : Append(<<>>, m) = <<m>> /\ <<m>> \in Messages
<1>1. tab[t] # Idle
  BY TabShape DEF ConsoleInv
<1>2. tab[t] \in Requests /\ tab[t].flash = <<>> /\ tab[t].was \in Messages
      /\ tab[t].at \in Controller /\ tab[t].ask \in {"page", "form", "data"}
  BY <1>1, TabShape DEF ConsoleInv, RequestInv
<1>3. FlashMessage(tab[t].was) \subseteq Message
  BY <1>2, MessageSeq DEF FlashMessage
<1>4. <<>> \in Messages
  BY DEF Messages
<1>5. \A m \in Message : Append(<<>>, m) = <<m>> /\ <<m>> \in Messages
  BY <1>4, AppendMessage
<1> QED BY <1>2, <1>3, <1>4, <1>5 DEF Idle

LEMMA RenderStep ==
  ASSUME ConsoleInv, Note, NEW t \in Tab, tab[t].pc = "run", RenderPage(t) \/ RenderBare(t)
  PROVE  ConsoleInv'
<1>1. CASE RenderPage(t)
  <2> DEFINE M == IF tab[t].ask = "data" THEN {} ELSE FlashMessage(tab[t].was)
  <2>1. M \in SUBSET Message /\ M \subseteq FlashMessage(tab[t].was)
    BY RunShape
  <2>2. Show(M) /\ Miss(Taken(t) \ M) /\ Give({}) /\ Respond(t, tab[t].was, <<>>, Idle)
    BY <1>1, RunShape DEF RenderPage
  <2> HIDE DEF M
  <2> QED BY <2>1, <2>2, RunShape, LeaveStep DEF Respond
<1>2. CASE RenderBare(t)
  BY <1>2, RunShape, LeaveStep DEF RenderBare, Respond
<1> QED BY <1>1, <1>2

LEMMA RedirectStep ==
  ASSUME ConsoleInv, Note, NEW t \in Tab, tab[t].pc = "run", NEW at \in Controller,
         \/ \E m \in Fresh : AnswerForm(t, m, at)
         \/ Respond(t, tab[t].was, tab[t].flash, Redirect(t, at)) /\ Miss(Taken(t)) /\ Show({}) /\ Give({})
  PROVE  ConsoleInv'
<1> DEFINE r == Redirect(t, at)
<1>1. r \in Requests /\ r.pc = "get" /\ r.was = <<>> /\ r.flash = <<>> /\ r.after = None
  BY NewRequest DEF Redirect
<1> HIDE DEF r
<1>2. ASSUME NEW m \in Fresh, AnswerForm(t, m, at)
      PROVE  ConsoleInv'
  <2>1. Respond(t, tab[t].was, <<m>>, r) /\ Give({m}) /\ Miss(Taken(t)) /\ Show({})
    BY <1>2, RunShape DEF AnswerForm, Fresh, r
  <2>2. <<m>> \in Messages /\ {m} \in SUBSET Message
    BY RunShape DEF Fresh
  <2>3. Miss(Taken(t) \ {})
    BY <2>1
  <2> QED BY <1>1, <2>1, <2>2, <2>3, LeaveStep DEF Respond
<1>3. CASE Respond(t, tab[t].was, tab[t].flash, Redirect(t, at)) /\ Miss(Taken(t)) /\ Show({}) /\ Give({})
  <2>1. Respond(t, tab[t].was, <<>>, r) /\ Miss(Taken(t) \ {})
    BY <1>3, RunShape DEF r
  <2> QED BY <1>1, <1>3, <2>1, RunShape, LeaveStep DEF Respond
<1> QED BY <1>2, <1>3

LEMMA AwaitStep ==
  ASSUME ConsoleInv, Note, NEW t \in Tab, tab[t].pc = "run",
         (\E m \in Fresh : AwaitSave(t, m)) \/ AwaitLogin(t)
  PROVE  ConsoleInv'
<1>1. ASSUME NEW m \in Fresh, AwaitSave(t, m)
      PROVE  ConsoleInv'
  <2> DEFINE r == [tab[t] EXCEPT !.pc = "await", !.flash = <<m>>]
  <2>1. r \in Requests /\ r.pc = "await" /\ r.was = tab[t].was /\ r.flash = <<m>>
    BY RunShape DEF Requests, Fresh
  <2>2. tab' = [tab EXCEPT ![t] = r]
    BY <1>1, RunShape DEF AwaitSave, Fresh
  <2>3. saving' = [saving EXCEPT ![t] = [pc |-> "find", flash |-> <<m>>, have |-> <<>>]]
    BY <1>1, RunShape DEF AwaitSave, Fresh
  <2>4. <<m>> \in Messages /\ {m} \in SUBSET Message
    BY RunShape DEF Fresh
  <2>5. saving[t] = None /\ UNCHANGED stored /\ Give({m}) /\ Miss(Taken(t) \ {}) /\ Show({})
    BY <1>1 DEF AwaitSave
  <2> HIDE DEF r
  <2> QED BY <2>1, <2>2, <2>3, <2>4, <2>5, LeaveStep
<1>2. CASE AwaitLogin(t)
  <2> DEFINE r == [tab[t] EXCEPT !.pc = "await", !.at = "dashboard"]
  <2>1. r \in Requests /\ r.pc = "await" /\ r.was = tab[t].was /\ r.flash = <<>>
    BY RunShape DEF Requests, Controller
  <2>2. tab' = [tab EXCEPT ![t] = r]
    BY <1>2, RunShape DEF AwaitLogin
  <2>3. saving' = [saving EXCEPT ![t] = [pc |-> "find", flash |-> <<>>, have |-> <<>>]]
    BY <1>2, RunShape DEF AwaitLogin
  <2>4. saving[t] = None /\ UNCHANGED stored /\ Give({}) /\ Miss(Taken(t) \ {}) /\ Show({})
    BY <1>2 DEF AwaitLogin
  <2> HIDE DEF r
  <2> QED BY <2>1, <2>2, <2>3, <2>4, RunShape, LeaveStep
<1> QED BY <1>1, <1>2

\* The controllers.
LEMMA HandleStep ==
  ASSUME ConsoleInv, Note, NEW t \in Tab,
         \/ RoleWeb(t) \/ UserWeb(t) \/ PermissionWeb(t) \/ SettingWeb(t)
         \/ ProfileWeb(t) \/ AuthWeb(t) \/ DashboardWeb(t) \/ MediaWeb(t)
         \/ Unauthorized(t)
         \/ \E m \in Fresh : Thrown(t, m)
  PROVE  ConsoleInv'
<1>1. tab[t].pc = "run"
  BY DEF RoleWeb, UserWeb, PermissionWeb, SettingWeb, ProfileWeb, AuthWeb, DashboardWeb,
         MediaWeb, Unauthorized, Thrown, Serves
<1>2. tab[t].at \in Controller /\ {"role", "user", "permission", "auth", "dashboard"} \subseteq Controller
  BY <1>1, RunShape DEF Controller
<1>3. CASE \/ RoleWeb(t) \/ UserWeb(t) \/ PermissionWeb(t) \/ SettingWeb(t)
           \/ ProfileWeb(t) \/ DashboardWeb(t) \/ MediaWeb(t)
  BY <1>1, <1>2, <1>3, RenderStep, RedirectStep, AwaitStep
  DEF RoleWeb, UserWeb, PermissionWeb, SettingWeb, ProfileWeb, DashboardWeb, MediaWeb
<1>4. CASE AuthWeb(t)
  BY <1>1, <1>2, <1>4, RenderStep, RedirectStep, AwaitStep DEF AuthWeb
<1>5. CASE Unauthorized(t)
  BY <1>1, <1>2, <1>5, RedirectStep DEF Unauthorized
<1>6. CASE \E m \in Fresh : Thrown(t, m)
  BY <1>1, <1>2, <1>6, RedirectStep DEF Thrown
<1> QED BY <1>3, <1>4, <1>5, <1>6

-----------------------------------------------------------------------------
\* The steps that give and show nothing: tab t goes on with r, its save with v.
LEMMA QuietStep ==
  ASSUME ConsoleInv, Note, UNCHANGED <<given, shown>>, stored' \in Messages,
         missed \subseteq missed', missed' \subseteq given,
         NEW t \in Tab,
         NEW r \in {Idle} \cup Requests, tab' = [tab EXCEPT ![t] = r],
         NEW v \in {None} \cup Saves, saving' = [saving EXCEPT ![t] = v],
         r.pc = "await" => v # None,
         Live' \subseteq Live
  PROVE  /\ TypeOK' /\ GivenInv' /\ NotedInv'
         /\ crossed \subseteq crossed' /\ mixed \subseteq mixed'
<1> USE DEF ConsoleInv
<1>frame. /\ tab' \in [Tab -> {Idle} \cup Requests] /\ tab'[t] = r
          /\ saving' \in [Tab -> {None} \cup Saves] /\ saving'[t] = v
          /\ \A u \in Tab \ {t} : tab'[u] = tab[u] /\ saving'[u] = saving[u]
  BY TabStep
<1>note. /\ NotedInv' /\ crossed \subseteq crossed' /\ mixed \subseteq mixed'
         /\ Live' \subseteq given' /\ given \subseteq given' => crossed' \subseteq given'
         /\ mixed' \subseteq crossed'
  BY NoteStep
<1>1. GivenInv'
  BY DEF GivenInv
<1>2. TypeOK'
  BY <1>frame, <1>note, <1>1 DEF TypeOK, GivenInv
<1> QED BY <1>note, <1>1, <1>2

LEMMA SendStep ==
  ASSUME ConsoleInv, Note, NEW t \in Tab, NEW at \in Controller,
         NEW ask \in {"page", "form", "data"}, Send(t, at, ask)
  PROVE  ConsoleInv'
<1> DEFINE r == Get(at, ask, None)
           v == saving[t]
<1> USE DEF ConsoleInv
<1>r. /\ r \in Requests /\ r # Idle /\ r.pc = "get" /\ r.after = None
      /\ r.was = <<>> /\ r.flash = <<>>
  BY NewRequest
<1> HIDE DEF r
<1>1. /\ tab[t] = Idle /\ tab' = [tab EXCEPT ![t] = r]
      /\ UNCHANGED <<stored, saving, given, shown, missed>>
  BY DEF Send, r
<1>v. v \in {None} \cup Saves /\ saving' = [saving EXCEPT ![t] = v]
  BY <1>1 DEF TypeOK
<1>frame. /\ tab'[t] = r /\ saving'[t] = v
          /\ \A u \in Tab \ {t} :
               /\ tab'[u] = tab[u] /\ saving'[u] = saving[u]
               /\ Open(u)' = Open(u) /\ Taken(u)' = Taken(u) /\ Copy(u)' = Copy(u)
          /\ \A m : m \in Live' => \/ m \in Live \cup ToSet(stored')
                                   \/ m \in Taken(t)' \cup Copy(t)'
          /\ \A m : m \in ToSet(stored') \cup Taken(t)' \cup Copy(t)' => m \in Live'
          /\ \A m : m \in Live => \/ m \in Live' \cup ToSet(stored)
                                  \/ m \in Taken(t) \cup Copy(t)
  BY <1>1, <1>r, <1>v, TabStep
<1> HIDE DEF v
<1>2. /\ Taken(t)' = Taken(t) /\ Copy(t)' = Copy(t) /\ Open(t)' = Open(t)
      /\ tab[t].pc = "idle"
  BY <1>1, <1>r, <1>frame, NoMessages DEF Taken, Copy, Open, Runs, v, Idle
<1>3. \A m : m \in Live' <=> m \in Live
  <2>1. ToSet(stored) \cup Taken(t) \cup Copy(t) \subseteq Live
    BY DEF Live
  <2> QED BY <1>1, <1>2, <1>frame, <2>1
<1>4. /\ TypeOK' /\ GivenInv' /\ NotedInv'
      /\ crossed \subseteq crossed' /\ mixed \subseteq mixed'
  BY <1>1, <1>3, <1>r, <1>v, QuietStep DEF TypeOK
<1>5. RequestInv'
  BY <1>1, <1>2, <1>r, <1>frame DEF RequestInv
<1>6. ToldInv'
  <2> SUFFICES ASSUME NEW m \in given' \ (crossed' \cup missed')
               PROVE  OnItsWay(m)'
    BY DEF ToldInv
  <2>1. OnItsWay(m)
    BY <1>1, <1>4 DEF ToldInv
  <2> QED BY <2>1, <1>1, <1>2, <1>3, <1>frame, <1>r DEF OnItsWay, v
<1>7. RedirectInv'
  <2> SUFFICES ASSUME NEW w \in Tab, NEW m \in Message \ (mixed' \cup missed')
               PROVE  Redirected(w, m)'
    BY DEF RedirectInv
  <2>1. First(m) => First(m)'
    BY <1>1, <1>frame, <1>r DEF First, v
  <2>2. m \in Message \ (mixed \cup missed) /\ m # None
    BY <1>1, <1>4, NoneAssumption
  <2> QED BY <2>1, <2>2, <1>1, <1>frame, <1>r DEF RedirectInv, Redirected
<1> QED BY <1>4, <1>5, <1>6, <1>7

LEMMA ViewLocalsStep ==
  ASSUME ConsoleInv, Note, NEW t \in Tab, ViewLocals(t)
  PROVE  ConsoleInv'
<1> DEFINE r == [tab[t] EXCEPT !.pc = "run", !.was = stored]
           v == saving[t]
<1> USE DEF ConsoleInv
<1>1. /\ tab[t].pc = "get" /\ tab[t] # Idle /\ tab[t] \in Requests
      /\ tab[t].was = <<>> /\ tab[t].flash = <<>>
      /\ UNCHANGED <<stored, saving, given, shown, missed>>
  BY TabShape DEF ViewLocals, RequestInv
<1>r. /\ r \in Requests /\ r.pc = "run" /\ r.was = stored
      /\ r.flash = <<>> /\ r.after = tab[t].after
      /\ tab' = [tab EXCEPT ![t] = r]
  BY <1>1 DEF ViewLocals, Requests, TypeOK
<1> HIDE DEF r
<1>v. v \in {None} \cup Saves /\ saving' = [saving EXCEPT ![t] = v]
  BY <1>1 DEF TypeOK
<1>idle. r # Idle
  BY <1>r DEF Idle
<1>frame. /\ tab'[t] = r /\ saving'[t] = v
          /\ \A u \in Tab \ {t} :
               /\ tab'[u] = tab[u] /\ saving'[u] = saving[u]
               /\ Open(u)' = Open(u) /\ Taken(u)' = Taken(u) /\ Copy(u)' = Copy(u)
          /\ \A m : m \in Live' => \/ m \in Live \cup ToSet(stored')
                                   \/ m \in Taken(t)' \cup Copy(t)'
          /\ \A m : m \in ToSet(stored') \cup Taken(t)' \cup Copy(t)' => m \in Live'
          /\ \A m : m \in Live => \/ m \in Live' \cup ToSet(stored)
                                  \/ m \in Taken(t) \cup Copy(t)
  BY <1>1, <1>r, <1>v, TabStep
<1> HIDE DEF v
<1>2. /\ Taken(t) = {} /\ Taken(t)' = ToSet(stored) /\ Copy(t)' = Copy(t) /\ Open(t)'
      /\ Open(t) <=> saving[t] # None
  BY <1>1, <1>r, <1>idle, <1>frame, NoMessages DEF Taken, Copy, Open, Runs, v
<1>3. \A m : m \in Live' <=> m \in Live
  <2>1. ToSet(stored) \cup Taken(t) \cup Copy(t) \subseteq Live
    BY DEF Live
  <2> QED BY <1>1, <1>2, <1>frame, <2>1
<1>4. /\ TypeOK' /\ GivenInv' /\ NotedInv'
      /\ crossed \subseteq crossed' /\ mixed \subseteq mixed'
  BY <1>1, <1>3, <1>r, <1>v, QuietStep DEF TypeOK
<1>5. RequestInv'
  BY <1>1, <1>2, <1>r, <1>frame DEF RequestInv
<1>6. ToldInv'
  <2> SUFFICES ASSUME NEW m \in given' \ (crossed' \cup missed')
               PROVE  OnItsWay(m)'
    BY DEF ToldInv
  <2>1. OnItsWay(m)
    BY <1>1, <1>4 DEF ToldInv
  <2>2. CASE m \notin Live
    BY <2>1, <2>2, <1>1, <1>3 DEF OnItsWay
  <2>3. CASE m \in Live
    <3>1. /\ \A u \in Tab \ {t} : ~Open(u)'
          /\ saving'[t] = None
      BY <2>3, <1>2, <1>3, <1>4, <1>r, <1>frame, Overlaps
    <3>2. \A u \in Tab : ~Open(u)
      BY <3>1, <1>2, <1>frame, <1>1
    <3>3. shown[m] = 0
      BY <2>1, <2>3, <3>2 DEF OnItsWay
    <3> QED BY <2>3, <3>1, <3>3, <1>1, <1>2, <1>3, <1>frame, <1>r DEF OnItsWay, Open, Runs
  <2> QED BY <2>2, <2>3
<1>7. RedirectInv'
  <2> SUFFICES ASSUME NEW w \in Tab, NEW m \in Message \ (mixed' \cup missed')
               PROVE  Redirected(w, m)'
    BY DEF RedirectInv
  <2>1. First(m) => First(m)'
    BY <1>1, <1>frame, <1>r DEF First, v
  <2>2. Redirected(w, m)
    BY <1>1, <1>4 DEF RedirectInv
  <2>3. CASE w = t
    BY <2>2, <2>3, <1>1, <1>frame, <1>r DEF Redirected, First
  <2>4. CASE w # t
    BY <2>1, <2>2, <2>4, <1>1, <1>frame DEF Redirected
  <2> QED BY <2>3, <2>4
<1> QED BY <1>4, <1>5, <1>6, <1>7

\* csurf refuses a form before the middleware has seen it.
LEMMA RefusedStep ==
  ASSUME ConsoleInv, Note, NEW t \in Tab, NEW x \in Fresh, Refused(t, x)
  PROVE  ConsoleInv'
<1> DEFINE r == Redirect(t, "dashboard")
           s == Append(stored, x)
           v == [pc |-> "find", flash |-> s, have |-> <<>>]
<1> USE DEF ConsoleInv
<1>1. /\ tab[t].pc = "get" /\ tab[t] # Idle /\ saving[t] = None
      /\ tab[t].was = <<>> /\ tab[t].flash = <<>> /\ tab[t].ask \in {"page", "form", "data"}
      /\ UNCHANGED <<stored, missed>> /\ given' = given \cup {x}
      /\ \A m \in Message : shown'[m] = shown[m]
      /\ x \in Message \ given
  BY TabShape DEF Refused, Respond, RequestInv, Give, Miss, Show, Fresh
<1>s. /\ s \in Messages /\ s # stored /\ ToSet(s) = ToSet(stored) \cup {x}
      /\ stored # <<>> => s # <<>> /\ Head(s) = Head(stored)
  BY <1>1, AppendMessage DEF TypeOK
<1>r. /\ r \in Requests /\ r # Idle /\ r.pc = "get" /\ r.after = None
      /\ r.was = <<>> /\ r.flash = <<>>
  BY <1>1, NewRequest DEF Redirect, Controller
<1>v. v \in Saves /\ v # None /\ v.pc = "find" /\ v.flash = s
  BY <1>s, NewSave
<1>step. tab' = [tab EXCEPT ![t] = r] /\ saving' = [saving EXCEPT ![t] = v]
  BY <1>s DEF Refused, Respond
<1> HIDE DEF r, s, v
<1>frame. /\ tab' \in [Tab -> {Idle} \cup Requests] /\ tab'[t] = r
          /\ saving' \in [Tab -> {None} \cup Saves] /\ saving'[t] = v
          /\ \A u \in Tab \ {t} :
               /\ tab'[u] = tab[u] /\ saving'[u] = saving[u]
               /\ Open(u)' = Open(u) /\ Taken(u)' = Taken(u) /\ Copy(u)' = Copy(u)
          /\ \A m : m \in Live' => \/ m \in Live \cup ToSet(stored')
                                   \/ m \in Taken(t)' \cup Copy(t)'
          /\ \A m : m \in ToSet(stored') \cup Taken(t)' \cup Copy(t)' => m \in Live'
          /\ \A m : m \in Live => \/ m \in Live' \cup ToSet(stored)
                                  \/ m \in Taken(t) \cup Copy(t)
  BY <1>r, <1>v, <1>step, TabStep
<1>2. /\ Taken(t) = {} /\ Copy(t) = {} /\ ~Open(t) /\ Open(t)'
      /\ Taken(t)' = {} /\ Copy(t)' = ToSet(stored) \cup {x}
  BY <1>1, <1>r, <1>s, <1>v, <1>frame, NoMessages DEF Taken, Copy, Open, Runs
<1>3. \A m : m \in Live' <=> m \in Live \/ m = x
  <2>1. ToSet(stored) \subseteq Live
    BY DEF Live
  <2> QED BY <1>1, <1>2, <1>frame, <2>1
<1>note. /\ NotedInv' /\ crossed \subseteq crossed' /\ mixed \subseteq mixed'
         /\ Live' \subseteq given' /\ given \subseteq given' => crossed' \subseteq given'
         /\ mixed' \subseteq crossed'
  BY NoteStep
<1>4. GivenInv'
  BY <1>1, <1>3 DEF GivenInv
<1>5. TypeOK'
  <2>1. shown' \in [Message -> 0..2]
    BY DEF TypeOK, Refused, Show
  <2>2. \A u \in Tab : tab'[u].pc = "await" => saving'[u] # None
    BY <1>frame, <1>r DEF TypeOK
  <2> QED BY <2>1, <2>2, <1>1, <1>4, <1>frame, <1>note DEF TypeOK, GivenInv
<1>6. RequestInv'
  BY <1>r, <1>frame DEF RequestInv
<1>7. ToldInv'
  <2> SUFFICES ASSUME NEW m \in given' \ (crossed' \cup missed')
               PROVE  OnItsWay(m)'
    BY DEF ToldInv
  <2>0. m \in Message /\ (m # x => m \in given \ (crossed \cup missed))
    BY <1>1, <1>note DEF TypeOK
  <2>1. CASE m # x /\ m \notin Live
    BY <2>0, <2>1, <1>1, <1>3 DEF OnItsWay, ToldInv
  <2>2. CASE m = x \/ m \in Live
    <3>1. /\ \A u \in Tab \ {t} : ~Open(u)'
      BY <2>2, <1>2, <1>3, <1>note, Overlaps
    <3>2. \A u \in Tab : ~Open(u)
      BY <3>1, <1>2, <1>frame
    <3>3. shown'[m] = 0
      BY <2>0, <2>2, <3>2, <1>1 DEF OnItsWay, ToldInv, GivenInv
    <3>4. m \in ToSet(v.flash)
      BY <2>2, <3>2, <1>s, <1>v, NoCopies
    <3> QED BY <2>2, <3>1, <3>3, <3>4, <1>2, <1>3, <1>frame, <1>r, <1>v DEF OnItsWay, Open, Runs
  <2> QED BY <2>1, <2>2
<1>8. RedirectInv'
  <2> SUFFICES ASSUME NEW w \in Tab, NEW m \in Message \ (mixed' \cup missed')
               PROVE  Redirected(w, m)'
    BY DEF RedirectInv
  <2>1. First(m) => First(m)'
    BY <1>1, <1>frame, <1>r, <1>s, <1>v DEF First, Leads
  <2>2. Redirected(w, m)
    BY <1>1, <1>note DEF RedirectInv
  <2>3. CASE w = t
    BY <2>3, <1>frame, <1>r, NoneAssumption DEF Redirected
  <2>4. CASE w # t
    BY <2>1, <2>2, <2>4, <1>1, <1>frame DEF Redirected
  <2> QED BY <2>3, <2>4
<1> QED BY <1>note, <1>4, <1>5, <1>6, <1>7, <1>8

-----------------------------------------------------------------------------
\* The save.
LEMMA SetFindStep ==
  ASSUME ConsoleInv, Note, NEW t \in Tab, SetFind(t)
  PROVE  ConsoleInv'
<1> DEFINE r == tab[t]
           v == [saving[t] EXCEPT !.pc = "write", !.have = stored]
<1> USE DEF ConsoleInv
<1>1. /\ saving[t] # None /\ saving[t] \in Saves /\ saving[t].pc = "find"
      /\ UNCHANGED <<stored, tab, given, shown, missed>>
  BY TabShape DEF SetFind
<1>v. /\ v \in Saves /\ v.pc = "write" /\ v.have = stored /\ v.flash = saving[t].flash
      /\ saving' = [saving EXCEPT ![t] = v]
  BY <1>1 DEF SetFind, Saves, TypeOK
<1>none. v # None
  BY <1>v, NoneAssumption
<1> HIDE DEF v
<1>r. r \in {Idle} \cup Requests /\ tab' = [tab EXCEPT ![t] = r]
  BY <1>1 DEF TypeOK
<1>frame. /\ saving'[t] = v
          /\ \A u \in Tab \ {t} :
               /\ tab'[u] = tab[u] /\ saving'[u] = saving[u]
               /\ Open(u)' = Open(u) /\ Taken(u)' = Taken(u) /\ Copy(u)' = Copy(u)
          /\ \A m : m \in Live' => \/ m \in Live \cup ToSet(stored')
                                   \/ m \in Taken(t)' \cup Copy(t)'
          /\ \A m : m \in ToSet(stored') \cup Taken(t)' \cup Copy(t)' => m \in Live'
          /\ \A m : m \in Live => \/ m \in Live' \cup ToSet(stored)
                                  \/ m \in Taken(t) \cup Copy(t)
  BY <1>r, <1>v, TabStep
<1> HIDE DEF r
<1>2. Taken(t)' = Taken(t) /\ Copy(t)' = Copy(t) /\ Open(t)' = Open(t)
  BY <1>1, <1>v, <1>none, <1>frame DEF Taken, Copy, Open, Runs
<1>3. \A m : m \in Live' <=> m \in Live
  <2>1. ToSet(stored) \cup Taken(t) \cup Copy(t) \subseteq Live
    BY DEF Live
  <2> QED BY <1>1, <1>2, <1>frame, <2>1
<1>4. /\ TypeOK' /\ GivenInv' /\ NotedInv'
      /\ crossed \subseteq crossed' /\ mixed \subseteq mixed'
  BY <1>1, <1>3, <1>r, <1>v, <1>none, QuietStep DEF TypeOK
<1>5. RequestInv'
  BY <1>1, <1>v, <1>frame DEF RequestInv
<1>6. ToldInv'
  <2> SUFFICES ASSUME NEW m \in given' \ (crossed' \cup missed')
               PROVE  OnItsWay(m)'
    BY DEF ToldInv
  <2>1. OnItsWay(m)
    BY <1>1, <1>4 DEF ToldInv
  <2>2. \A u \in Tab : Open(u)' = Open(u)
    BY <1>2, <1>frame
  <2> QED BY <2>1, <2>2, <1>1, <1>3, <1>frame, <1>v DEF OnItsWay
<1>7. RedirectInv'
  <2> SUFFICES ASSUME NEW w \in Tab, NEW m \in Message \ (mixed' \cup missed')
               PROVE  Redirected(w, m)'
    BY DEF RedirectInv
  <2>1. First(m) => First(m)'
    BY <1>1, <1>frame, <1>v DEF First
  <2>2. Redirected(w, m)
    BY <1>1, <1>4 DEF RedirectInv
  <2> QED BY <2>1, <2>2, <1>1, <1>frame, <1>v DEF Redirected
<1> QED BY <1>4, <1>5, <1>6, <1>7

\* The end of a save, for better or worse: a handler that waits redirects, with
\* `after` the message it has given or None.
LEMMA SetEnds ==
  ASSUME ConsoleInv, NEW t \in Tab, saving[t] # None, NEW after \in Message \cup {None},
         saving' = [saving EXCEPT ![t] = None],
         tab' = IF tab[t].pc # "await" THEN tab
                ELSE [tab EXCEPT ![t] = Get(tab[t].at, "page", after)]
  PROVE  \E r \in {Idle} \cup Requests :
            /\ tab' = [tab EXCEPT ![t] = r] /\ tab'[t] = r
            /\ r.pc # "await" /\ (tab[t].pc # "await" => r = tab[t])
            /\ tab[t].pc = "await" => r.pc = "get" /\ r.after = after
            /\ r.pc = "get" => r.was = <<>> /\ r.flash = <<>>
<1> USE DEF ConsoleInv
<1>1. CASE tab[t].pc # "await"
  <2>1. tab[t] \in {Idle} \cup Requests /\ tab' = [tab EXCEPT ![t] = tab[t]]
    BY <1>1, TabShape DEF TypeOK
  <2> QED BY <1>1, <2>1 DEF RequestInv, TypeOK
<1>2. CASE tab[t].pc = "await"
  <2> DEFINE r == Get(tab[t].at, "page", after)
  <2>1. tab[t].at \in Controller
    BY <1>2, TabShape
  <2>2. r \in Requests /\ r.pc = "get" /\ r.after = after /\ r.was = <<>> /\ r.flash = <<>>
    BY <2>1, NewRequest
  <2>3. tab' = [tab EXCEPT ![t] = r]
    BY <1>2
  <2> HIDE DEF r
  <2> QED BY <1>2, <2>2, <2>3 DEF TypeOK
<1> QED BY <1>1, <1>2

LEMMA SetWriteStep ==
  ASSUME ConsoleInv, Note, NEW t \in Tab, SetWrite(t)
  PROVE  ConsoleInv'
<1> USE DEF ConsoleInv
<1>1. /\ saving[t] # None /\ saving[t].pc = "write" /\ saving[t].flash \in Messages
      /\ stored' = saving[t].flash \/ (saving[t].flash = saving[t].have /\ stored' = stored)
      /\ UNCHANGED <<given, shown, missed>>
      /\ saving' = [saving EXCEPT ![t] = None] /\ Open(t)
  BY TabShape DEF SetWrite, Open
<1>by. /\ tab[t].pc = "await" => GivenBy(t) \in Message \cup {None}
       /\ tab[t].pc = "await" /\ GivenBy(t) # None
            => tab[t].flash = <<GivenBy(t)>> /\ saving[t].flash = <<GivenBy(t)>>
  <2>1. ASSUME NEW m \in Message PROVE Last(<<m>>) = m /\ <<m>> # <<>>
    BY NoMessages, AppendMessage
  <2> QED BY <2>1 DEF RequestInv, GivenBy
<1>after. PICK r \in {Idle} \cup Requests :
            /\ tab' = [tab EXCEPT ![t] = r] /\ tab'[t] = r
            /\ r.pc # "await" /\ (tab[t].pc # "await" => r = tab[t])
            /\ tab[t].pc = "await" => r.pc = "get" /\ r.after = GivenBy(t)
            /\ r.pc = "get" => r.was = <<>> /\ r.flash = <<>>
  <2> DEFINE after == IF tab[t].pc = "await" THEN GivenBy(t) ELSE None
  <2>1. after \in Message \cup {None}
    BY <1>by
  <2>2. tab' = IF tab[t].pc # "await" THEN tab
               ELSE [tab EXCEPT ![t] = Get(tab[t].at, "page", after)]
    BY DEF SetWrite
  <2>3. tab[t].pc = "await" => after = GivenBy(t)
    OBVIOUS
  <2> HIDE DEF after
  <2>4. \E r \in {Idle} \cup Requests :
            /\ tab' = [tab EXCEPT ![t] = r] /\ tab'[t] = r
            /\ r.pc # "await" /\ (tab[t].pc # "await" => r = tab[t])
            /\ tab[t].pc = "await" => r.pc = "get" /\ r.after = after
            /\ r.pc = "get" => r.was = <<>> /\ r.flash = <<>>
    BY <2>1, <2>2, <1>1, SetEnds
  <2> QED BY <2>3, <2>4
<1>frame. /\ saving'[t] = None
          /\ \A u \in Tab \ {t} :
               /\ tab'[u] = tab[u] /\ saving'[u] = saving[u]
               /\ Open(u)' = Open(u) /\ Taken(u)' = Taken(u) /\ Copy(u)' = Copy(u)
          /\ \A m : m \in Live' => \/ m \in Live \cup ToSet(stored')
                                   \/ m \in Taken(t)' \cup Copy(t)'
          /\ \A m : m \in ToSet(stored') \cup Taken(t)' \cup Copy(t)' => m \in Live'
  BY <1>after, <1>1, TabStep
<1>2. /\ Taken(t)' \subseteq Taken(t) /\ Copy(t)' \subseteq Copy(t)
      /\ r.pc # "run" => Taken(t)' = {} /\ Copy(t)' = {} /\ ~Open(t)'
  <2>1. r.pc # "run" /\ r # Idle => r.was = <<>> /\ r.flash = <<>>
    BY <1>after DEF Requests
  <2>2. ToSet(<<>>) = {} /\ Idle.pc = "idle"
    BY NoMessages DEF Idle
  <2>3. tab'[t] = r /\ (r.pc = "run" => r = tab[t]) /\ saving'[t] = None
    BY <1>after, <1>frame
  <2> QED BY <2>1, <2>2, <2>3, <1>after DEF Taken, Copy, Open, Runs, Requests
<1>3. /\ Live' \subseteq Live
      /\ Taken(t) \cup Copy(t) \cup ToSet(stored) \subseteq Live
      /\ ToSet(saving[t].flash) \subseteq Copy(t)
      /\ \A u \in Tab : Copy(u) \subseteq Live
  <2>1. ToSet(saving[t].flash) \subseteq Copy(t)
    BY <1>1 DEF Copy
  <2>2. Taken(t) \cup Copy(t) \cup ToSet(stored) \subseteq Live /\ \A u \in Tab : Copy(u) \subseteq Live
    BY DEF Live
  <2>3. ToSet(stored') \subseteq Live
    BY <1>1, <2>1, <2>2
  <2> QED BY <2>1, <2>2, <2>3, <1>2, <1>frame
<1>4. /\ TypeOK' /\ GivenInv' /\ NotedInv'
      /\ crossed \subseteq crossed' /\ mixed \subseteq mixed'
  <2>1. stored' \in Messages
    BY <1>1 DEF TypeOK
  <2> QED BY <2>1, <1>1, <1>3, <1>after, QuietStep DEF TypeOK
<1>5. RequestInv'
  BY <1>after, <1>frame DEF RequestInv
<1>6. ToldInv'
  <2> SUFFICES ASSUME NEW m \in given' \ (crossed' \cup missed')
               PROVE  OnItsWay(m)'
    BY DEF ToldInv
  <2>1. OnItsWay(m) /\ m \notin crossed
    BY <1>1, <1>4 DEF ToldInv
  <2>2. CASE m \notin Live
    BY <2>1, <2>2, <1>1, <1>3 DEF OnItsWay
  <2>3. CASE m \in Live
    <3>1. /\ \A u \in Tab \ {t} : ~Open(u) /\ Taken(u) = {} /\ Copy(u) = {}
          /\ tab[t].pc # "run"
      BY <2>1, <2>3, <1>1, OneCopy
    <3>2. /\ shown[m] = IF m \in ToSet(saving[t].flash) THEN 0 ELSE 1
          /\ stored' = saving[t].flash
      BY <2>1, <2>3, <1>1 DEF OnItsWay
    <3>3. \A u \in Tab : ~Open(u)' /\ Taken(u)' = {} /\ Copy(u)' = {}
      BY <3>1, <1>2, <1>frame, <1>after
    <3>4. m \in Live' <=> m \in ToSet(saving[t].flash)
      BY <3>2, <3>3 DEF Live
    <3> QED BY <3>2, <3>3, <3>4, <1>1 DEF OnItsWay, Open, Runs
  <2> QED BY <2>2, <2>3
<1>7. RedirectInv'
  <2> SUFFICES ASSUME NEW w \in Tab, NEW m \in Message \ (mixed' \cup missed')
               PROVE  Redirected(w, m)'
    BY DEF RedirectInv
  <2>1. First(m) => First(m)'
    BY <1>1, <1>frame, <1>after DEF First
  <2>2. Redirected(w, m) /\ m \notin mixed /\ m \notin missed /\ m # None
    BY <1>1, <1>4, NoneAssumption DEF RedirectInv
  <2>two. \A u \in Tab : Open(u) /\ u # t => m \notin Live
    BY <1>1, <2>2 DEF NotedInv, Two
  <2>3. CASE w = t /\ tab[t].pc # "await"
    BY <2>1, <2>2, <2>3, <1>1, <1>after, <1>frame DEF Redirected
  <2>4. CASE w = t /\ tab[t].pc = "await"
    <3> SUFFICES ASSUME r.after = m
                 PROVE  First(m)'
      BY <2>4, <1>after DEF Redirected
    <3>1. tab[t].flash = <<m>> /\ saving[t].flash = <<m>>
      BY <2>2, <2>4, <1>after, <1>by
    <3>2. saving[t].have = stored
      BY <2>2, <2>4, <3>1, <1>1 DEF Redirected
    <3>3. stored' = <<m>>
      BY <1>1, <3>1, <3>2
    <3>4. Leads(m, <<m>>) /\ m \in ToSet(<<m>>)
      BY NoMessages, AppendMessage DEF Leads
    <3>5. m \in Live
      BY <3>1, <3>4, <1>3
    <3>6. \A u \in Tab : ~Open(u)'
      BY <3>5, <2>two, <2>4, <1>2, <1>frame, <1>after
    <3> QED BY <3>3, <3>4, <3>6 DEF First, Open, Runs
  <2>5. CASE w # t
    <3>1. tab'[w] = tab[w] /\ saving'[w] = saving[w]
      BY <2>5, <1>frame
    <3>2. ~(tab[w].pc = "await" /\ tab[w].flash = <<m>>)
      <4> SUFFICES ASSUME tab[w].pc = "await", tab[w].flash = <<m>>
                   PROVE  FALSE
        OBVIOUS
      <4>1. Open(w) /\ tab[w] # Idle
        BY DEF Open, Runs, Idle
      <4>2. m \in ToSet(<<m>>)
        BY NoMessages, AppendMessage
      <4>3. m \in Copy(w)
        BY <4>1, <4>2 DEF Copy
      <4> QED BY <4>1, <4>3, <2>5, <2>two, <1>3
    <3> QED BY <3>1, <3>2, <2>1, <2>2, <1>1 DEF Redirected
  <2> QED BY <2>3, <2>4, <2>5
<1> QED BY <1>4, <1>5, <1>6, <1>7

LEMMA SetFailsStep ==
  ASSUME ConsoleInv, Note, NEW t \in Tab, SetFails(t)
  PROVE  ConsoleInv'
<1> USE DEF ConsoleInv
<1>1. /\ saving[t] # None /\ saving[t].flash \in Messages
      /\ UNCHANGED <<stored, given, shown>>
      /\ missed' = missed \cup ToSet(saving[t].flash) \cup ToSet(stored)
      /\ saving' = [saving EXCEPT ![t] = None] /\ Open(t)
  BY TabShape DEF SetFails, Open, Miss
<1>after. PICK r \in {Idle} \cup Requests :
            /\ tab' = [tab EXCEPT ![t] = r] /\ tab'[t] = r
            /\ r.pc # "await" /\ (tab[t].pc # "await" => r = tab[t])
            /\ tab[t].pc = "await" => r.pc = "get" /\ r.after = None
            /\ r.pc = "get" => r.was = <<>> /\ r.flash = <<>>
  BY <1>1, SetEnds DEF SetFails
<1>frame. /\ saving'[t] = None
          /\ \A u \in Tab \ {t} :
               /\ tab'[u] = tab[u] /\ saving'[u] = saving[u]
               /\ Open(u)' = Open(u) /\ Taken(u)' = Taken(u) /\ Copy(u)' = Copy(u)
          /\ \A m : m \in Live' => \/ m \in Live \cup ToSet(stored')
                                   \/ m \in Taken(t)' \cup Copy(t)'
  BY <1>after, <1>1, TabStep
<1>2. /\ Taken(t)' \subseteq Taken(t) /\ Copy(t)' \subseteq Copy(t)
      /\ r.pc # "run" => Taken(t)' = {} /\ Copy(t)' = {} /\ ~Open(t)'
  <2>1. r.pc # "run" /\ r # Idle => r.was = <<>> /\ r.flash = <<>>
    BY <1>after DEF Requests
  <2>2. ToSet(<<>>) = {} /\ Idle.pc = "idle"
    BY NoMessages DEF Idle
  <2>3. tab'[t] = r /\ (r.pc = "run" => r = tab[t]) /\ saving'[t] = None
    BY <1>after, <1>frame
  <2> QED BY <2>1, <2>2, <2>3, <1>after DEF Taken, Copy, Open, Runs, Requests
<1>3. /\ Live' \subseteq Live
      /\ Taken(t) \cup Copy(t) \cup ToSet(stored) \subseteq Live
      /\ ToSet(saving[t].flash) \subseteq Copy(t)
  <2>1. ToSet(saving[t].flash) \subseteq Copy(t)
    BY <1>1 DEF Copy
  <2>2. Taken(t) \cup Copy(t) \cup ToSet(stored) \subseteq Live
    BY DEF Live
  <2> QED BY <2>1, <2>2, <1>1, <1>2, <1>frame
<1>4. /\ TypeOK' /\ GivenInv' /\ NotedInv'
      /\ crossed \subseteq crossed' /\ mixed \subseteq mixed'
  <2>1. missed \subseteq missed' /\ missed' \subseteq given
    BY <1>1, <1>3 DEF TypeOK, GivenInv
  <2> QED BY <2>1, <1>1, <1>3, <1>after, QuietStep DEF TypeOK
<1>5. RequestInv'
  BY <1>after, <1>frame DEF RequestInv
<1>6. ToldInv'
  <2> SUFFICES ASSUME NEW m \in given' \ (crossed' \cup missed')
               PROVE  OnItsWay(m)'
    BY DEF ToldInv
  <2>1. OnItsWay(m) /\ m \notin crossed /\ m \notin ToSet(saving[t].flash) \cup ToSet(stored)
    BY <1>1, <1>4 DEF ToldInv
  <2>2. CASE m \notin Live
    BY <2>1, <2>2, <1>1, <1>3 DEF OnItsWay
  <2>3. CASE m \in Live
    <3>1. /\ \A u \in Tab \ {t} : ~Open(u) /\ Taken(u) = {} /\ Copy(u) = {}
          /\ tab[t].pc # "run" /\ shown[m] = 1
      BY <2>1, <2>3, <1>1, OneCopy DEF OnItsWay
    <3>2. \A u \in Tab : Taken(u)' = {} /\ Copy(u)' = {}
      BY <3>1, <1>2, <1>frame, <1>after
    <3>3. m \notin Live' /\ shown'[m] = 1
      BY <2>1, <3>1, <3>2, <1>1 DEF Live
    <3> QED BY <3>3 DEF OnItsWay
  <2> QED BY <2>2, <2>3
<1>7. RedirectInv'
  <2> SUFFICES ASSUME NEW w \in Tab, NEW m \in Message \ (mixed' \cup missed')
               PROVE  Redirected(w, m)'
    BY DEF RedirectInv
  <2>1. Redirected(w, m) /\ m # None /\ m \notin ToSet(stored)
    BY <1>1, <1>4, NoneAssumption DEF RedirectInv
  <2>2. ~First(m)
    BY <2>1, MessageSeq DEF First, Leads, TypeOK
  <2>3. CASE w = t /\ tab[t].pc # "await"
    BY <2>1, <2>2, <2>3, <1>1, <1>after, <1>frame DEF Redirected
  <2>4. CASE w = t /\ tab[t].pc = "await"
    BY <2>1, <2>4, <1>after DEF Redirected
  <2>5. CASE w # t
    BY <2>1, <2>2, <2>5, <1>1, <1>frame DEF Redirected
  <2> QED BY <2>3, <2>4, <2>5
<1> QED BY <1>4, <1>5, <1>6, <1>7

\* A request that cannot be served.
LEMMA FailStep ==
  ASSUME ConsoleInv, Note, NEW t \in Tab, Fail(t)
  PROVE  ConsoleInv'
<1> DEFINE v == saving[t]
<1> USE DEF ConsoleInv
<1>1. /\ tab[t].pc \in {"get", "run"} /\ tab[t] # Idle /\ tab[t].flash = <<>>
      /\ tab[t].pc = "get" => tab[t].was = <<>>
      /\ tab' = [tab EXCEPT ![t] = Idle] /\ Idle.pc = "idle"
      /\ UNCHANGED <<stored, saving, given, shown, missed>>
  BY TabShape DEF Fail, RequestInv, Idle
<1>v. v \in {None} \cup Saves /\ saving' = [saving EXCEPT ![t] = v]
  BY <1>1 DEF TypeOK
<1>frame. /\ tab'[t] = Idle /\ saving'[t] = v
          /\ \A u \in Tab \ {t} :
               /\ tab'[u] = tab[u] /\ saving'[u] = saving[u]
               /\ Open(u)' = Open(u) /\ Taken(u)' = Taken(u) /\ Copy(u)' = Copy(u)
          /\ \A m : m \in Live' => \/ m \in Live \cup ToSet(stored')
                                   \/ m \in Taken(t)' \cup Copy(t)'
          /\ \A m : m \in ToSet(stored') \cup Taken(t)' \cup Copy(t)' => m \in Live'
          /\ \A m : m \in Live => \/ m \in Live' \cup ToSet(stored)
                                  \/ m \in Taken(t) \cup Copy(t)
  BY <1>1, <1>v, TabStep
<1> HIDE DEF v
<1>2. /\ Taken(t)' = {} /\ Copy(t)' = Copy(t)
      /\ tab[t].pc = "get" => Taken(t) = {} /\ Open(t)' = Open(t)
      /\ Open(t)' <=> saving[t] # None
  BY <1>1, <1>frame, NoMessages DEF Taken, Copy, Open, Runs, v
<1>3. /\ Live' \subseteq Live
      /\ tab[t].pc = "get" => Live' = Live
      /\ ToSet(stored) \subseteq Live'
  <2>1. ToSet(stored) \cup Taken(t) \cup Copy(t) \subseteq Live
    BY DEF Live
  <2> QED BY <1>1, <1>2, <1>frame, <2>1
<1>4. /\ TypeOK' /\ GivenInv' /\ NotedInv'
      /\ crossed \subseteq crossed' /\ mixed \subseteq mixed'
  BY <1>1, <1>3, <1>v, QuietStep DEF TypeOK
<1>5. RequestInv'
  BY <1>1, <1>frame DEF RequestInv
<1>6. ToldInv'
  <2> SUFFICES ASSUME NEW m \in given' \ (crossed' \cup missed')
               PROVE  OnItsWay(m)'
    BY DEF ToldInv
  <2>1. OnItsWay(m) /\ m \notin crossed
    BY <1>1, <1>4 DEF ToldInv
  <2>2. CASE m \notin Live
    BY <2>1, <2>2, <1>1, <1>3 DEF OnItsWay
  <2>3. CASE m \in Live /\ tab[t].pc = "get"
    <3>1. \A u \in Tab : Open(u)' = Open(u)
      BY <2>3, <1>2, <1>frame
    <3> QED BY <2>1, <2>3, <3>1, <1>1, <1>3, <1>frame DEF OnItsWay, v
  <2>4. CASE m \in Live /\ tab[t].pc = "run"
    <3>1. Open(t) /\ tab[t].was = stored /\ shown[m] = 0
      BY <2>1, <2>4 DEF OnItsWay, Open, Runs
    <3>2. /\ \A u \in Tab \ {t} : ~Open(u)
          /\ m \in ToSet(stored) \cup Taken(t) \cup Copy(t) /\ saving[t] = None
      BY <2>1, <2>4, <3>1, OneCopy
    <3>3. m \in ToSet(stored)
      BY <3>1, <3>2, <1>1, NoMessages DEF Taken, Copy
    <3>4. m \in Live' /\ \A u \in Tab : ~Open(u)'
      BY <3>2, <3>3, <1>2, <1>3, <1>frame
    <3> QED BY <3>1, <3>4, <1>1 DEF OnItsWay, Open, Runs
  <2> QED BY <2>2, <2>3, <2>4, <1>1
<1>7. RedirectInv'
  <2> SUFFICES ASSUME NEW w \in Tab, NEW m \in Message \ (mixed' \cup missed')
               PROVE  Redirected(w, m)'
    BY DEF RedirectInv
  <2>1. First(m) => First(m)'
    BY <1>1, <1>frame DEF First, v
  <2>2. Redirected(w, m)
    BY <1>1, <1>4 DEF RedirectInv
  <2>3. CASE w = t
    BY <2>3, <1>1, <1>frame DEF Redirected
  <2>4. CASE w # t
    BY <2>1, <2>2, <2>4, <1>1, <1>frame DEF Redirected
  <2> QED BY <2>3, <2>4
<1> QED BY <1>4, <1>5, <1>6, <1>7

-----------------------------------------------------------------------------
\* Nobody has asked for anything, and there are no messages.
LEMMA ConsoleInitialState == Init => ConsoleInv
<1> SUFFICES ASSUME Init PROVE ConsoleInv
  OBVIOUS
<1>1. \A t \in Tab : tab[t] = Idle /\ tab[t].pc = "idle" /\ saving[t] = None
  BY DEF Init, Idle
<1>2. \A t \in Tab : ~Open(t) /\ Taken(t) = {} /\ Copy(t) = {}
  BY <1>1 DEF Open, Runs, Taken, Copy
<1>3. Live = {} /\ given = {} /\ ~Two /\ ~Behind
  BY <1>1, <1>2, NoMessages DEF Init, Live, Two, Behind
<1>4. TypeOK
  BY <1>1, NoMessages DEF Init, TypeOK
<1>5. RequestInv /\ RedirectInv
  BY <1>1 DEF RequestInv, RedirectInv, Redirected
<1>6. GivenInv /\ NotedInv /\ ToldInv
  BY <1>3 DEF Init, GivenInv, NotedInv, ToldInv
<1> QED BY <1>4, <1>5, <1>6 DEF ConsoleInv

\* Every step of the browser and of the server keeps the invariant.
LEMMA ConsoleInductiveStep == ConsoleInv /\ [Next]_vars => ConsoleInv'
<1> SUFFICES ASSUME ConsoleInv, [Next]_vars
             PROVE  ConsoleInv'
  OBVIOUS
<1>1. ASSUME Note, NEW t \in Tab, NEW at \in Controller, NEW ask \in {"page", "form", "data"},
             Send(t, at, ask)
      PROVE  ConsoleInv'
  BY <1>1, SendStep
<1>2. ASSUME Note, NEW t \in Tab, Handle(t)
      PROVE  ConsoleInv'
  <2>1. CASE \E x \in Fresh : Refused(t, x)
    BY <1>2, <2>1, RefusedStep
  <2>2. CASE ~\E x \in Fresh : Refused(t, x)
    BY <1>2, <2>2, HandleStep DEF Handle
  <2> QED BY <2>1, <2>2
<1>3. ASSUME Note, NEW t \in Tab,
             ViewLocals(t) \/ SetFind(t) \/ SetWrite(t) \/ SetFails(t) \/ Fail(t)
      PROVE  ConsoleInv'
  BY <1>3, ViewLocalsStep, SetFindStep, SetWriteStep, SetFailsStep, FailStep
<1>4. CASE UNCHANGED vars
  <2>1. UNCHANGED <<stored, tab, saving, given, shown, missed, crossed, mixed>>
    BY <1>4 DEF vars
  <2>2. /\ TypeOK' = TypeOK /\ RequestInv' = RequestInv
        /\ Live' = Live /\ Two' = Two /\ Behind' = Behind
    BY <2>1 DEF TypeOK, RequestInv, Live, Taken, Copy, Two, Behind, Open, Runs
  <2>3. GivenInv' /\ NotedInv'
    BY <2>1, <2>2 DEF ConsoleInv, GivenInv, NotedInv
  <2>4. ToldInv'
    BY <2>1, <2>2 DEF ConsoleInv, ToldInv, OnItsWay, Open, Runs
  <2>5. RedirectInv'
    BY <2>1 DEF ConsoleInv, RedirectInv, Redirected, First
  <2> QED BY <2>2, <2>3, <2>4, <2>5 DEF ConsoleInv
<1> QED BY <1>1, <1>2, <1>3, <1>4 DEF Next

\* The invariant holds in every state of the console, for any number of tabs and
\* messages.
THEOREM ConsoleInvariance == Spec => []ConsoleInv
<1>1. Init => ConsoleInv
  BY ConsoleInitialState
<1>2. ConsoleInv /\ [Next]_vars => ConsoleInv'
  BY ConsoleInductiveStep
<1> QED BY <1>1, <1>2, PTL DEF Spec

\* The requests in flight, the saves and the messages in the session are of the
\* kinds that the controllers and the session store handle.
THEOREM ConsoleTypeCorrect == Spec => []TypeOK
<1>1. ConsoleInv => TypeOK
  BY DEF ConsoleInv
<1> QED BY <1>1, ConsoleInvariance, PTL

\* A message is told once.  It is never shown twice, and while it has not been
\* shown it is in the session or on its way there: unless two copies of the
\* session that could have it were in memory at the same time, a request that does
\* not show it has taken it, or a save failed.
THEOREM ToldOnceAlways == Spec => []ToldOnce
<1>1. ConsoleInv => ToldOnce
  <2> SUFFICES ASSUME ConsoleInv, NEW m \in given \ (crossed \cup missed)
               PROVE  \/ shown[m] = 1
                      \/ shown[m] = 0 /\ m \in ToSet(stored) \cup UNION {Copy(t) : t \in Tab}
    BY DEF ToldOnce
  <2> USE DEF ConsoleInv
  <2>1. OnItsWay(m)
    BY DEF ToldInv
  <2>2. CASE m \notin Live
    BY <2>1, <2>2 DEF OnItsWay
  <2>3. CASE m \in Live /\ \A t \in Tab : ~Open(t)
    BY <2>1, <2>3, NoCopies DEF OnItsWay
  <2>4. ASSUME m \in Live, NEW t \in Tab, saving[t] # None
        PROVE  \/ shown[m] = 1
               \/ shown[m] = 0 /\ m \in UNION {Copy(u) : u \in Tab}
    BY <2>1, <2>4 DEF OnItsWay, Copy
  <2>5. ASSUME m \in Live, NEW t \in Tab, Open(t), saving[t] = None
        PROVE  shown[m] = 0 /\ m \in ToSet(stored)
    <3>1. tab[t].pc = "run" /\ tab[t].flash = <<>>
      BY <2>5 DEF Open, Runs, TypeOK, RequestInv
    <3>2. tab[t].was = stored /\ shown[m] = 0
      BY <2>1, <2>5, <3>1 DEF OnItsWay
    <3>3. m \in ToSet(stored) \cup Taken(t) \cup Copy(t)
      BY <2>5, OneCopy
    <3> QED BY <2>5, <3>1, <3>2, <3>3, NoMessages DEF Taken, Copy
  <2> QED BY <2>2, <2>3, <2>4, <2>5
<1> QED BY <1>1, ConsoleInvariance, PTL

\* The page a saved profile or setting redirects to shows its message, whatever
\* this tab did before, unless another tab has been in between.
THEOREM RedirectTellsAlways == Spec => []RedirectTells
<1>1. ConsoleInv => RedirectTells
  <2> SUFFICES ASSUME ConsoleInv, NEW t \in Tab, tab[t].pc = "run",
                      tab[t].after \in Message \ (mixed \cup missed)
               PROVE  shown[tab[t].after] > 0 \/ FlashMessage(tab[t].was) = {tab[t].after}
    BY DEF RedirectTells
  <2>1. Redirected(t, tab[t].after)
    BY DEF ConsoleInv, RedirectInv
  <2> QED BY <2>1 DEF Redirected, Leads, FlashMessage
<1> QED BY <1>1, ConsoleInvariance, PTL

=============================================================================
