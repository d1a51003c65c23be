--------------------------- MODULE SettingsProofs ---------------------------
(***************************************************************************)
(* The settings cache and the settings row, for any number of instances,   *)
(* columns, values and calls in flight.                                    *)
(***************************************************************************)
EXTENDS Settings, TLAPS

LEMMA InitialState == Init => IndInv
  BY SettingsAssumption
  DEF Init, IndInv, TypeOK, FloorInv, UpdateVisible, AloneInv, KeptInv, Idle, Row, Writing

\* What a call in flight looks like at each place.
LEMMA GetShape ==
  ASSUME TypeOK, NEW g \in Reader
  PROVE  /\ get[g].pc \in {"idle", "query", "fill"}
         /\ get[g].pc = "idle" <=> get[g] = Idle
         /\ get[g] # Idle => get[g].at \in Instance
         /\ get[g].pc = "fill" =>
               /\ get[g].copy \in Copy
               /\ get[g].copy.ver \in Nat /\ get[g].copy.cols \in Row
  BY DEF TypeOK, Gets, Idle, Copy

LEMMA UpdateShape ==
  ASSUME TypeOK, NEW w \in Writer
  PROVE  /\ update[w].pc \in {"idle", "found", "loaded", "saved"}
         /\ update[w].pc = "idle" <=> update[w] = Idle
         /\ update[w] # Idle => update[w].at \in Instance
         /\ Writing(w) => update[w].set \in Submitted /\ update[w].want \in Row
         /\ update[w].pc = "loaded" => update[w].have \in Row
         /\ update[w].pc = "saved" => update[w].ver \in Nat
  BY DEF TypeOK, Updates, Idle, Writing

\* A request sets some of the columns.
LEMMA OfSubmitted ==
  ASSUME NEW set \in Submitted
  PROVE  DOMAIN set \in SUBSET Field /\ \A f \in DOMAIN set : set[f] \in Value
<1> PICK F \in SUBSET Field : set \in [F -> Value]
  BY DEF Submitted
<1> QED OBVIOUS

LEMMA MergedRow ==
  ASSUME NEW set \in Submitted, NEW cols \in Row
  PROVE  /\ Merged(cols, set) \in Row
         /\ \A f \in Field : Merged(cols, set)[f] = IF f \in DOMAIN set THEN set[f] ELSE cols[f]
  BY OfSubmitted DEF Merged, Row

-----------------------------------------------------------------------------
(***************************************************************************)
(* One lemma per group of actions.                                         *)
(***************************************************************************)

\* The steps of a get leave the row and the updates alone.
LEMMA GetSteps ==
  ASSUME IndInv, NEW g \in Reader,
         (\E i \in Instance : Miss(g, i)) \/ Query(g) \/ Fill(g) \/ QueryFails(g)
  PROVE  IndInv'
<1> USE SettingsAssumption DEF IndInv
<1>rest. /\ row' = row /\ update' = update /\ started' = started /\ version' = version
         /\ floor' = floor /\ alone' = alone /\ kept' = kept
  BY DEF Miss, Query, Fill, QueryFails, promised
<1>keep. AloneInv' /\ KeptInv'
  BY <1>rest DEF AloneInv, KeptInv, Writing, promised
<1>1. ASSUME NEW i \in Instance, Miss(g, i)
      PROVE  TypeOK' /\ FloorInv'
  BY <1>1 DEF Miss, TypeOK, Gets, FloorInv, UpdateVisible, promised
<1>2. CASE Query(g)
  <2>1. get[g].at \in Instance
    BY <1>2, GetShape DEF Query, Idle
  <2>2. Current \in Copy /\ Current.ver = version
    BY DEF Current, Copy, TypeOK
  <2>3. TypeOK'
    BY <1>2, <2>1, <2>2 DEF Query, TypeOK, Gets, promised
  <2>4. /\ get'[g].pc = "fill" /\ get'[g].at = get[g].at /\ get'[g].copy = Current
        /\ \A x \in Reader \ {g} : get'[x] = get[x]
    BY <1>2, <2>1 DEF Query, TypeOK
  <2>5. version >= floor[get[g].at]
    BY <2>1 DEF TypeOK
  <2>6. \A x \in Reader : get'[x].pc = "fill" => get'[x].copy.ver >= floor[get'[x].at]
    BY <2>2, <2>4, <2>5 DEF FloorInv
  <2>7. UpdateVisible'
    BY <1>2, <1>rest DEF Query, FloorInv, UpdateVisible, promised
  <2>8. FloorInv'
    BY <1>rest, <2>6, <2>7 DEF FloorInv
  <2> QED BY <1>keep, <2>3, <2>8
<1>3. CASE Fill(g)
  <2>1. get[g].at \in Instance /\ get[g].copy \in Copy /\ get[g].copy.ver >= floor[get[g].at]
    BY <1>3, GetShape DEF Fill, Idle, FloorInv
  <2>2. /\ cache' = [cache EXCEPT ![get[g].at] = get[g].copy]
        /\ age' = [age EXCEPT ![get[g].at] = 0]
        /\ get' = [get EXCEPT ![g] = Idle]
    BY <1>3 DEF Fill
  <2>3. TypeOK'
    <3>1. cache' \in [Instance -> Copy \cup {Null}] /\ age' \in [Instance -> 0..Ttl]
      BY <2>1, <2>2 DEF TypeOK
    <3>2. get' \in [Reader -> Gets \cup {Idle}]
      BY <2>2 DEF TypeOK
    <3> QED BY <1>rest, <3>1, <3>2 DEF TypeOK, promised
  <2>4. UpdateVisible'
    BY <1>rest, <2>1, <2>2 DEF FloorInv, UpdateVisible, TypeOK, promised
  <2>5. \A x \in Reader : get'[x].pc = "fill" => get'[x].copy.ver >= floor[get'[x].at]
    BY <2>2 DEF FloorInv, Idle, TypeOK
  <2>6. FloorInv'
    BY <1>rest, <2>4, <2>5 DEF FloorInv
  <2> QED BY <1>keep, <2>3, <2>6
<1>4. CASE QueryFails(g)
  <2>1. get' = [get EXCEPT ![g] = Idle] /\ UNCHANGED <<cache, age>>
    BY <1>4 DEF QueryFails
  <2>2. TypeOK'
    <3>1. get' \in [Reader -> Gets \cup {Idle}]
      BY <2>1 DEF TypeOK
    <3> QED BY <1>rest, <2>1, <3>1 DEF TypeOK, promised
  <2>3. \A x \in Reader : get'[x].pc = "fill" => get'[x].copy.ver >= floor[get'[x].at]
    BY <2>1 DEF FloorInv, Idle, TypeOK
  <2>4. FloorInv'
    BY <1>rest, <2>1, <2>3 DEF FloorInv, UpdateVisible
  <2> QED BY <1>keep, <2>2, <2>4
<1> QED BY <1>keep, <1>1, <1>2, <1>3, <1>4

\* An update begins: it reads the row, and it is alone or nobody is.
LEMMA FindStep ==
  ASSUME IndInv, NEW w \in Writer, NEW i \in Instance, NEW set \in Submitted, Find(w, i, set)
  PROVE  IndInv'
<1> USE SettingsAssumption DEF IndInv
<1> DEFINE new == [pc |-> "found", at |-> i, set |-> set, want |-> row]
<1>1. update' = [update EXCEPT ![w] = new] /\ update[w] = Idle
  BY DEF Find, Found
<1>2. new \in Updates
  BY DEF Updates, TypeOK
<1>3. TypeOK'
  BY <1>1, <1>2 DEF Find, TypeOK
<1>4. \A x \in Writer : update'[x] = IF x = w THEN new ELSE update[x]
  BY <1>1 DEF TypeOK
<1> HIDE DEF new
<1>5. new.pc = "found" /\ new.set = set /\ new.want = row
  BY DEF new
<1>6. FloorInv'
  BY <1>4, <1>5 DEF Find, FloorInv, UpdateVisible
<1>7. AloneInv'
  BY <1>4, <1>5 DEF Find, AloneInv, Writing
<1>8. KeptInv'
  BY <1>4, <1>5 DEF Find, KeptInv, Writing
<1> QED BY <1>3, <1>6, <1>7, <1>8

\* save reads the row: an update that is alone sees what it found.
LEMMA SaveLoadStep ==
  ASSUME IndInv, NEW w \in Writer, SaveLoad(w)
  PROVE  IndInv'
<1> USE SettingsAssumption DEF IndInv
<1> DEFINE u == update[w]
           new == [pc |-> "loaded", at |-> u.at, set |-> u.set,
                   want |-> Merged(u.want, u.set), have |-> row]
<1>0. u.pc = "found" /\ u.at \in Instance /\ u.set \in Submitted /\ u.want \in Row
  BY UpdateShape DEF SaveLoad, Writing, Idle
<1>1. update' = [update EXCEPT ![w] = new]
  BY DEF SaveLoad
<1>2. new \in Updates
  BY <1>0, MergedRow DEF Updates, TypeOK
<1>3. TypeOK'
  BY <1>1, <1>2 DEF SaveLoad, TypeOK, promised
<1>4. \A x \in Writer : update'[x] = IF x = w THEN new ELSE update[x]
  BY <1>1 DEF TypeOK
<1>5. /\ new.pc = "loaded" /\ new.set = u.set /\ new.have = row
      /\ \A f \in Field : new.want[f] = IF f \in DOMAIN u.set THEN u.set[f] ELSE u.want[f]
  BY <1>0, MergedRow
<1>dom. DOMAIN u.set \subseteq Field
  BY <1>0, OfSubmitted
<1> HIDE DEF new
<1>6. FloorInv'
  BY <1>4, <1>5 DEF SaveLoad, FloorInv, UpdateVisible, promised
<1>7. AloneInv'
  BY <1>0, <1>4, <1>5, <1>dom DEF SaveLoad, AloneInv, Writing, promised
<1>8. KeptInv'
  BY <1>0, <1>4, <1>5 DEF SaveLoad, KeptInv, Writing, promised
<1> QED BY <1>3, <1>6, <1>7, <1>8

\* The commit: what one column of the row becomes depends on that column alone.
LEMMA SaveCommitStep ==
  ASSUME IndInv, NEW w \in Writer, SaveCommit(w)
  PROVE  IndInv'
<1> USE SettingsAssumption DEF IndInv
<1> DEFINE u == update[w]
           new == [pc |-> "saved", at |-> u.at, ver |-> version + 1]
<1>0. /\ u.pc = "loaded" /\ u.at \in Instance /\ u.set \in Submitted
      /\ u.want \in Row /\ u.have \in Row
  BY UpdateShape DEF SaveCommit, Writing, Idle
<1>1. update' = [update EXCEPT ![w] = new] /\ version' = version + 1 /\ version \in Nat
  BY DEF SaveCommit, TypeOK
<1>2. row' \in Row /\ \A f \in Field : row'[f] = IF u.want[f] # u.have[f] THEN u.want[f] ELSE row[f]
  BY <1>0 DEF SaveCommit, ColumnsAfterSave, Row, TypeOK
<1>3. DOMAIN u.set \subseteq Field /\ \A f \in DOMAIN u.set : u.set[f] \in Value
  BY <1>0, OfSubmitted
<1>4. kept' = [f \in Field |-> IF w \in alone /\ f \in DOMAIN u.set THEN u.set[f] ELSE kept[f]]
  BY DEF SaveCommit
<1>5. TypeOK'
  <2>1. new \in Updates
    BY <1>0, <1>1 DEF Updates
  <2>2. kept' \in [Field -> Value \cup {Null}]
    BY <1>3, <1>4 DEF TypeOK
  <2> HIDE DEF new, u
  <2> QED BY <1>1, <1>2, <2>1, <2>2 DEF SaveCommit, TypeOK
<1>6. \A x \in Writer : update'[x] = IF x = w THEN new ELSE update[x]
  BY <1>1 DEF TypeOK
<1>7. new.pc = "saved" /\ new.ver = version + 1
  OBVIOUS
<1> HIDE DEF new
<1>8. FloorInv'
  <2>1. \A x \in Writer \ {w} : update[x].pc = "saved" => update[x].ver \in Nat
    BY UpdateShape
  <2>2. UNCHANGED <<cache, get, floor>>
    BY DEF SaveCommit
  <2>3. \A x \in Writer : update'[x].pc = "saved" => update'[x].ver <= version'
    BY <1>1, <1>6, <1>7, <2>1 DEF FloorInv
  <2> QED BY <2>2, <2>3 DEF FloorInv, UpdateVisible
<1>9. AloneInv'
  \* Only one update can be alone, and this one no longer is.
  BY <1>0, <1>6, <1>7 DEF SaveCommit, AloneInv, Writing
<1>10. KeptInv'
  <2> SUFFICES ASSUME NEW f \in Field, kept'[f] # Null
               PROVE  /\ row'[f] = kept'[f]
                      /\ \A x \in Writer : Writing(x)' =>
                            /\ f \notin DOMAIN update'[x].set
                            /\ update'[x].want[f] = kept'[f]
                            /\ update'[x].pc = "loaded" => update'[x].have[f] = kept'[f]
    BY DEF KeptInv
  <2>1. CASE w \in alone /\ f \in DOMAIN u.set
    <3>1. kept'[f] = u.set[f] /\ u.want[f] = u.set[f] /\ u.have[f] = row[f]
      BY <1>0, <1>4, <2>1 DEF AloneInv
    <3>2. \A x \in Writer : ~Writing(x)'
      BY <1>6, <1>7, <2>1 DEF AloneInv, Writing
    <3> QED BY <1>2, <3>1, <3>2
  <2>2. CASE ~(w \in alone /\ f \in DOMAIN u.set)
    <3>1. kept'[f] = kept[f]
      BY <1>4, <2>2
    <3>2. row[f] = kept[f] /\ u.want[f] = u.have[f]
      BY <1>0, <3>1 DEF KeptInv, Writing
    <3> QED BY <1>2, <1>6, <1>7, <3>1, <3>2 DEF KeptInv, Writing
  <2> QED BY <2>1, <2>2
<1> QED BY <1>5, <1>8, <1>9, <1>10

\* The invalidation raises the floor only when no older answer is on its way.
LEMMA InvalidateStep ==
  ASSUME IndInv, NEW w \in Writer, Invalidate(w)
  PROVE  IndInv'
<1> USE SettingsAssumption DEF IndInv
<1> DEFINE i == update[w].at
           v == update[w].ver
<1>0. i \in Instance /\ v \in Nat /\ v <= version /\ version \in Nat
  BY UpdateShape DEF Invalidate, FloorInv, Idle, TypeOK
<1>1. UNCHANGED <<row, get, started, version, alone, kept>>
  BY DEF Invalidate
<1>2. /\ cache' = [cache EXCEPT ![i] = Null]
      /\ age' = [age EXCEPT ![i] = Ttl]
      /\ update' = [update EXCEPT ![w] = Idle] /\ update[w].pc = "saved"
  BY DEF Invalidate
<1>3. \/ floor' = floor
      \/ /\ floor' = [floor EXCEPT ![i] = v]
         /\ \A g \in Reader : get[g].pc = "fill" /\ get[g].at = i => ~(get[g].copy.ver < v)
  BY DEF Invalidate, Answer
<1> HIDE DEF i, v
<1>4. TypeOK'
  <2>2. floor' \in [Instance -> 0..version]
    BY <1>0, <1>3 DEF TypeOK
  <2>3. cache' \in [Instance -> Copy \cup {Null}] /\ age' \in [Instance -> 0..Ttl]
    BY <1>0, <1>2 DEF TypeOK
  <2>4. update' \in [Writer -> Updates \cup {Idle}]
    BY <1>2 DEF TypeOK
  <2> QED BY <1>1, <2>2, <2>3, <2>4 DEF TypeOK
<1>5. FloorInv'
  <2>1. UpdateVisible'
    BY <1>0, <1>2, <1>3 DEF FloorInv, UpdateVisible, TypeOK
  <2>2. \A g \in Reader : get[g].pc = "fill" => get[g].copy.ver >= floor'[get[g].at]
    <3> TAKE g \in Reader
    <3> HAVE get[g].pc = "fill"
    <3>1. get[g].at \in Instance /\ get[g].copy.ver \in Nat
      BY GetShape DEF Idle
    <3>2. get[g].copy.ver >= floor[get[g].at]
      BY DEF FloorInv
    <3> QED BY <1>0, <1>3, <3>1, <3>2 DEF TypeOK
  <2>3. \A x \in Writer : update'[x].pc = "saved" => update'[x].ver <= version
    BY <1>2 DEF FloorInv, Idle, TypeOK
  <2> QED BY <1>1, <2>1, <2>2, <2>3 DEF FloorInv
<1>6. \A x \in Writer : Writing(x)' => Writing(x) /\ update'[x] = update[x]
  BY <1>2 DEF Writing, Idle, TypeOK
<1>7. AloneInv'
  BY <1>1, <1>2, <1>6 DEF AloneInv, Writing, TypeOK
<1>8. KeptInv'
  BY <1>1, <1>6 DEF KeptInv, Writing
<1> QED BY <1>4, <1>5, <1>7, <1>8

\* Failures, restarts and the clock only take calls and copies away.
LEMMA OtherSteps ==
  ASSUME IndInv,
         (\E w \in Writer : UpdateFails(w)) \/ (\E i \in Instance : Restart(i)) \/ Tick
            \/ UNCHANGED vars
  PROVE  IndInv'
<1> USE SettingsAssumption DEF IndInv
<1>1. ASSUME NEW w \in Writer, UpdateFails(w)
      PROVE  IndInv'
  <2>1. \A x \in Writer : update'[x] = IF x = w THEN Idle ELSE update[x]
    BY <1>1 DEF UpdateFails, TypeOK
  <2>2. TypeOK' /\ FloorInv'
    BY <1>1, <2>1 DEF UpdateFails, TypeOK, FloorInv, UpdateVisible, Idle
  <2>3. AloneInv' /\ KeptInv'
    BY <1>1, <2>1 DEF UpdateFails, AloneInv, KeptInv, Writing, Idle
  <2> QED BY <2>2, <2>3
<1>2. ASSUME NEW i \in Instance, Restart(i)
      PROVE  IndInv'
  <2>1. \A x \in Writer : update'[x] = Idle \/ update'[x] = update[x]
    BY <1>2 DEF Restart
  <2>2. \A g \in Reader : get'[g] = Idle \/ get'[g] = get[g]
    BY <1>2 DEF Restart
  <2>3. TypeOK'
    BY <1>2 DEF Restart, TypeOK
  <2>4. FloorInv'
    BY <1>2, <2>1, <2>2 DEF Restart, FloorInv, UpdateVisible, Idle, TypeOK
  <2>5. \A x \in alone' : x \in alone /\ update'[x] = update[x]
    BY <1>2 DEF Restart, TypeOK
  <2>6. AloneInv'
    BY <1>2, <2>1, <2>5 DEF Restart, AloneInv, Writing, Idle
  <2>7. KeptInv'
    BY <1>2, <2>1 DEF Restart, KeptInv, Writing, Idle
  <2> QED BY <2>3, <2>4, <2>6, <2>7
<1>3. CASE Tick
  <2>1. UNCHANGED <<row, cache, get, update, started, version, promised>>
    BY <1>3 DEF Tick
  <2>2. age' \in [Instance -> 0..Ttl]
    BY <1>3 DEF Tick, TypeOK
  <2>3. TypeOK'
    BY <2>1, <2>2 DEF TypeOK, promised
  <2> QED BY <2>1, <2>3 DEF FloorInv, UpdateVisible, AloneInv, KeptInv, Writing, promised
<1>4. CASE UNCHANGED vars
  BY <1>4 DEF vars, promised, TypeOK, FloorInv, UpdateVisible, AloneInv, KeptInv, Writing
<1> QED BY <1>1, <1>2, <1>3, <1>4

-----------------------------------------------------------------------------
\* The inductive invariant.
THEOREM Invariance == Spec => []IndInv
<1>1. IndInv /\ [Next]_vars => IndInv'
  <2> SUFFICES ASSUME IndInv, [Next]_vars
               PROVE  IndInv'
    OBVIOUS
  <2> QED
    BY GetSteps, FindStep, SaveLoadStep, SaveCommitStep, InvalidateStep, OtherSteps DEF Next
<1> QED BY <1>1, InitialState, PTL DEF Spec

\* The row, the caches and the updates in flight keep their types.
THEOREM TypeCorrect == Spec => []TypeOK
<1>1. IndInv => TypeOK
  BY DEF IndInv
<1> QED BY <1>1, Invariance, PTL

\* SettingService.update and SettingCacheService: an invalidation that met no
\* older answer is final at its instance.
THEOREM UpdateVisibleAlways == Spec => []UpdateVisible
<1>1. IndInv => UpdateVisible
  BY DEF IndInv, FloorInv
<1> QED BY <1>1, Invariance, PTL

\* SettingService.update: an update that met no other is not undone by an update
\* that was not asked to.
THEOREM UpdateSticksAlways == Spec => []UpdateSticks
<1>1. IndInv => UpdateSticks
  BY DEF IndInv, KeptInv, UpdateSticks
<1> QED BY <1>1, Invariance, PTL

=============================================================================
