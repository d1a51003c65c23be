------------------------------ MODULE Settings ------------------------------
(***************************************************************************)
(* The one row of table settings, which SettingService.update changes, and *)
(* the copy of it that SettingCacheService keeps in the memory of every    *)
(* instance for the pages (ViewLocalsMiddleware, FeTemplateService).       *)
(*                                                                         *)
(* The row is there from the migrations on (AddAdminUser) and nothing      *)
(* deletes it, so the branches that create it are left out.  Of the row a  *)
(* few columns are kept, each with a few values.  Time is the age of a     *)
(* cached copy; Tick lets all of them grow.                                *)
(***************************************************************************)
EXTENDS Naturals, TypeOrm

CONSTANTS
    Instance,     \* processes serving pages
    Reader,       \* calls of SettingCacheService.get waiting for the database
    Writer,       \* calls of SettingService.update in flight
    Field,        \* columns a request may set
    Value,        \* what a column may hold
    Ttl,          \* CACHE_TTL_MS, in ticks
    MaxUpdates,   \* bound on the calls of update
    Null          \* JavaScript's null, and history: nothing is promised

ASSUME SettingsAssumption ==
    Ttl \in Nat \ {0} /\ MaxUpdates \in Nat /\ Null \notin Value

VARIABLES
    row,       \* the row in the database
    cache,     \* per instance: this.cache
    age,       \* per instance: how long ago the cache was filled
    get,       \* calls of get that missed
    update,    \* calls of update
    started,   \* number of updates so far, for the bound
    (***********************************************************************)
    (* History.  The program does not have these variables.                *)
    (***********************************************************************)
    version,   \* number of updates committed; copies of the row carry it
    floor,     \* per instance: newest one whose invalidation met no older fill
    alone,     \* updates that have met no other one before their commit
    kept       \* per column: value of such an update, nobody set it since

promised == <<floor, alone, kept>>
vars == <<row, cache, age, get, update, started, version, promised>>

Row == [Field -> Value]
Copy == [cols: Row, ver: Nat]
Current == [cols |-> row, ver |-> version]

(***************************************************************************)
(* Where a call is.  get: "query" the database is asked, "fill" it has     *)
(* answered.  update: "found" the row is in memory, "loaded" save has read *)
(* it once more, "saved" the transaction is through.                       *)
(***************************************************************************)
Idle == [pc |-> "idle"]
Gets == [pc: {"query"}, at: Instance] \cup [pc: {"fill"}, at: Instance, copy: Copy]
Submitted == UNION {[F -> Value] : F \in SUBSET Field}
Updates == [pc: {"found"}, at: Instance, set: Submitted, want: Row]
             \cup [pc: {"loaded"}, at: Instance, set: Submitted, want: Row, have: Row]
             \cup [pc: {"saved"}, at: Instance, ver: Nat]

TypeOK ==
    /\ row \in Row
    /\ cache \in [Instance -> Copy \cup {Null}]
    /\ age \in [Instance -> 0..Ttl]
    /\ get \in [Reader -> Gets \cup {Idle}]
    /\ update \in [Writer -> Updates \cup {Idle}]
    /\ started \in 0..MaxUpdates
    /\ version \in Nat
    /\ floor \in [Instance -> 0..version]
    /\ alone \subseteq Writer
    /\ kept \in [Field -> Value \cup {Null}]

\* The first test of get: `this.cache && Date.now() < this.expiresAt`.
Fresh_Forever(i) == cache[i] # Null              \* mutant: expiresAt not looked at
Fresh(i) == cache[i] # Null /\ age[i] < Ttl

Writing(w) == update[w].pc \in {"found", "loaded"}

\* The row update starts from.
Found_Cached(i) == IF Fresh(i) THEN cache[i].cols ELSE row  \* mutant: asks the cache
Found(i) == row

\* The loop over the allowed columns: those the request has are set.
Merged_Cleared(cols, set) ==                     \* mutant: undefined is set, too
    [f \in Field |-> IF f \in DOMAIN set THEN set[f] ELSE Null]
Merged(cols, set) ==
    [f \in Field |-> IF f \in DOMAIN set THEN set[f] ELSE cols[f]]

-----------------------------------------------------------------------------
(***************************************************************************)
(* SettingCacheService.get.  A hit changes nothing.                        *)
(***************************************************************************)
Miss(g, i) ==
    /\ get[g] = Idle
    /\ ~Fresh(i)
    /\ get' = [get EXCEPT ![g] = [pc |-> "query", at |-> i]]
    /\ UNCHANGED <<row, cache, age, update, started, version, promised>>

\* The database reads the row.
Query(g) ==
    /\ get[g].pc = "query"
    /\ get' = [get EXCEPT ![g] = [pc |-> "fill", at |-> @.at, copy |-> Current]]
    /\ UNCHANGED <<row, cache, age, update, started, version, promised>>

\* The answer arrives; the 60 seconds start now.
Fill(g) ==
    /\ get[g].pc = "fill"
    /\ cache' = [cache EXCEPT ![get[g].at] = get[g].copy]
    /\ age' = [age EXCEPT ![get[g].at] = 0]
    /\ get' = [get EXCEPT ![g] = Idle]
    /\ UNCHANGED <<row, update, started, version, promised>>

\* The query fails: what is cached is returned, however old.
QueryFails(g) ==
    /\ get[g] # Idle
    /\ get' = [get EXCEPT ![g] = Idle]
    /\ UNCHANGED <<row, cache, age, update, started, version, promised>>

(***************************************************************************)
(* SettingService.update.                                                  *)
(***************************************************************************)
Find(w, i, set) ==
    /\ update[w] = Idle
    /\ started < MaxUpdates
    /\ started' = started + 1
    /\ update' = [update EXCEPT ![w] =
                     [pc |-> "found", at |-> i, set |-> set, want |-> Found(i)]]
    /\ alone' = IF \E x \in Writer : Writing(x) THEN {} ELSE {w}
    /\ kept' = [f \in Field |-> IF f \in DOMAIN set THEN Null ELSE kept[f]]
    /\ UNCHANGED <<row, cache, age, get, version, floor>>

\* The uploads are stored, the columns set, and save reads the row.
SaveLoad(w) ==
    /\ update[w].pc = "found"
    /\ update' = [update EXCEPT ![w] =
                     [pc |-> "loaded", at |-> @.at, set |-> @.set,
                      want |-> Merged(@.want, @.set), have |-> row]]
    /\ UNCHANGED <<row, cache, age, get, started, version, promised>>

\* The transaction of save.
SaveCommit(w) ==
    LET u == update[w]
    IN  /\ u.pc = "loaded"
        /\ row' = ColumnsAfterSave(row, u.have, u.want)
        /\ version' = version + 1
        /\ update' = [update EXCEPT ![w] =
                         [pc |-> "saved", at |-> u.at, ver |-> version + 1]]
        /\ kept' = [f \in Field |-> IF w \in alone /\ f \in DOMAIN u.set
                                    THEN u.set[f] ELSE kept[f]]
        /\ alone' = alone \ {w}
        /\ UNCHANGED <<cache, age, get, started, floor>>

\* History: the update of version v is answered at instance i.
Answer(i, v) ==
    LET late == {g \in Reader : get[g].pc = "fill" /\ get[g].at = i /\ get[g].copy.ver < v}
    IN  floor' = IF v > floor[i] /\ late = {} THEN [floor EXCEPT ![i] = v] ELSE floor

\* SettingCacheService.invalidate; the caller is answered.
Invalidate_ExpiresOnly(w) ==                     \* mutant: this.cache is kept
    LET i == update[w].at
        v == update[w].ver
    IN  /\ update[w].pc = "saved"
        /\ age' = [age EXCEPT ![i] = Ttl]
        /\ Answer(i, v)
        /\ update' = [update EXCEPT ![w] = Idle]
        /\ UNCHANGED <<row, cache, get, started, version, alone, kept>>
Invalidate(w) ==
    LET i == update[w].at
        v == update[w].ver
    IN  /\ update[w].pc = "saved"
        /\ cache' = [cache EXCEPT ![i] = Null]
        /\ age' = [age EXCEPT ![i] = Ttl]
        /\ Answer(i, v)
        /\ update' = [update EXCEPT ![w] = Idle]
        /\ UNCHANGED <<row, get, started, version, alone, kept>>

\* An upload or a query of update fails.
UpdateFails(w) ==
    /\ Writing(w)
    /\ update' = [update EXCEPT ![w] = Idle]
    /\ alone' = alone \ {w}
    /\ UNCHANGED <<row, cache, age, get, started, version, floor, kept>>

\* The process stops and starts: what it had in memory is gone.
Restart(i) ==
    /\ cache' = [cache EXCEPT ![i] = Null]
    /\ age' = [age EXCEPT ![i] = Ttl]
    /\ get' = [g \in Reader |-> IF get[g] # Idle /\ get[g].at = i THEN Idle ELSE get[g]]
    /\ update' = [w \in Writer |-> IF update[w] # Idle /\ update[w].at = i
                                   THEN Idle ELSE update[w]]
    /\ alone' = {w \in alone : update[w].at # i}
    /\ UNCHANGED <<row, started, version, floor, kept>>

Tick ==
    /\ \E i \in Instance : age[i] < Ttl
    /\ age' = [i \in Instance |-> IF age[i] < Ttl THEN age[i] + 1 ELSE Ttl]
    /\ UNCHANGED <<row, cache, get, update, started, version, promised>>

-----------------------------------------------------------------------------
Init ==
    /\ row \in Row
    /\ cache = [i \in Instance |-> Null]
    /\ age = [i \in Instance |-> Ttl]
    /\ get = [g \in Reader |-> Idle]
    /\ update = [w \in Writer |-> Idle]
    /\ started = 0 /\ version = 0
    /\ floor = [i \in Instance |-> 0]
    /\ alone = {} /\ kept = [f \in Field |-> Null]

Next ==
    \/ \E g \in Reader :
          (\E i \in Instance : Miss(g, i)) \/ Query(g) \/ Fill(g) \/ QueryFails(g)
    \/ \E w \in Writer :
          \/ \E i \in Instance, set \in Submitted : Find(w, i, set)
          \/ SaveLoad(w) \/ SaveCommit(w) \/ Invalidate(w) \/ UpdateFails(w)
    \/ \E i \in Instance : Restart(i)
    \/ Tick

Spec == Init /\ [][Next]_vars

\* Time passes, and the event loop runs the continuation of every answered query.
FairSpec == Spec /\ WF_vars(Tick) /\ \A g \in Reader : WF_vars(Fill(g))

-----------------------------------------------------------------------------
\* Once an update has invalidated the cache of its instance and no get held an
\* answer from before it, that instance never again serves the row from before
\* it, not even as the stale copy a failed query falls back on.
UpdateVisible == \A i \in Instance : cache[i] # Null => cache[i].ver >= floor[i]

\* What an update that met no other one before its commit has set stays in the
\* row until a request that sets the same column begins, whatever older copies
\* of the row other updates save.
UpdateSticks == \A f \in Field : kept[f] # Null => row[f] = kept[f]

\* After the last update every instance comes to show the row as it is, also
\* those no update invalidated and those a late fill put an older row into.
Heals == <>[](\A i \in Instance : Fresh(i) => cache[i].cols = row)

-----------------------------------------------------------------------------
(***************************************************************************)
(* The inductive invariant behind UpdateVisible and UpdateSticks: what the *)
(* answers and copies in flight may still write.                           *)
(***************************************************************************)
FloorInv ==
    /\ UpdateVisible
    /\ \A g \in Reader : get[g].pc = "fill" => get[g].copy.ver >= floor[get[g].at]
    /\ \A w \in Writer : update[w].pc = "saved" => update[w].ver <= version

AloneInv ==
    \A w \in alone :
        /\ Writing(w)
        /\ \A x \in Writer \ {w} : ~Writing(x)
        /\ update[w].pc = "loaded" =>
              /\ update[w].have = row
              /\ \A f \in DOMAIN update[w].set : update[w].want[f] = update[w].set[f]

KeptInv ==
    \A f \in Field : kept[f] # Null =>
        /\ row[f] = kept[f]
        /\ \A w \in Writer : Writing(w) =>
              /\ f \notin DOMAIN update[w].set
              /\ update[w].want[f] = kept[f]
              /\ update[w].pc = "loaded" => update[w].have[f] = kept[f]

IndInv == TypeOK /\ FloorInv /\ AloneInv /\ KeptInv

=============================================================================
