----------------------------- MODULE AuthProofs -----------------------------
(***************************************************************************)
(* AuthService: the password and the one-time password of a user, for any  *)
(* number of requests in flight (module UserAccount), and the bearer       *)
(* tokens logged out at an instance, for any number of tokens and          *)
(* instances and any lifetime (module TokenBlacklist).                     *)
(***************************************************************************)
EXTENDS UserAccount, TokenBlacklist, TLAPS

-----------------------------------------------------------------------------
(***************************************************************************)
(* UserAccount.                                                            *)
(***************************************************************************)
LEMMA InitialState == Init => IndInv
  BY AccountAssumption
  DEF Init, IndInv, TypeOK, AloneInv, KeptInv, SpentInv, OtpOnce, Idle, HasCopy, Row

\* What a request in flight looks like at each place.
LEMMA RequestShape ==
  ASSUME TypeOK, NEW q \in Request
  PROVE  /\ req[q].pc \in {"idle", "draw", "verified", "found", "loaded"}
         /\ req[q].pc = "idle" <=> req[q] = Idle
         /\ req[q].pc = "verified" => req[q].otp \in Otp /\ req[q].password \in Password
         /\ HasCopy(q) => req[q].form \in Form /\ req[q].want \in Row
         /\ req[q].pc = "loaded" => req[q].have \in Row
  BY DEF TypeOK, Busy, Idle, HasCopy

\* The columns of a row and of a merged form.
LEMMA RowColumns ==
  ASSUME NEW r \in Row
  PROVE  /\ r \in [Column -> Password \cup Otp \cup Text \cup {None}]
         /\ r["password"] \in Password /\ r["otp"] \in Otp \cup {None} /\ r["profile"] \in Text
  BY DEF Row

LEMMA NewRow ==
  ASSUME NEW p \in Password, NEW o \in Otp \cup {None}, NEW t \in Text,
         NEW r, r \in [Column -> Password \cup Otp \cup Text \cup {None}],
         r["password"] = p, r["otp"] = o, r["profile"] = t
  PROVE  r \in Row
  BY DEF Row

LEMMA MergedColumns ==
  ASSUME NEW cols \in Row, NEW form \in Form
  PROVE  /\ Merged(cols, form) \in Row
         /\ Merged(cols, form)["otp"] = cols["otp"]
         /\ Merged(cols, form)["password"] =
               IF form.password = None THEN cols["password"] ELSE form.password
<1> DEFINE p == IF form.password = None THEN cols["password"] ELSE form.password
           m == [c \in Column |-> IF c = "password" THEN p
                                  ELSE IF c = "profile" THEN form.profile ELSE cols[c]]
<1>1. p \in Password /\ form.profile \in Text /\ cols["otp"] \in Otp \cup {None}
  BY RowColumns DEF Form
<1>2. Merged(cols, form) = m
  BY RowColumns DEF Merged, Column
<1> HIDE DEF p
<1>3. /\ m \in [Column -> Password \cup Otp \cup Text \cup {None}]
      /\ m["password"] = p /\ m["profile"] = form.profile /\ m["otp"] = cols["otp"]
  BY <1>1, RowColumns DEF Column
<1> HIDE DEF m
<1>4. m \in Row
  BY <1>1, <1>3 DEF Row
<1> QED BY <1>2, <1>3, <1>4 DEF p

LEMMA SavedColumns ==
  ASSUME NEW r \in Row, NEW have \in Row, NEW want \in Row
  PROVE  /\ ColumnsAfterSave(r, have, want) \in Row
         /\ \A c \in Column : ColumnsAfterSave(r, have, want)[c] =
               IF want[c] # have[c] THEN want[c] ELSE r[c]
<1> DEFINE s == ColumnsAfterSave(r, have, want)
<1>1. /\ DOMAIN r = Column
      /\ s = [c \in Column |-> IF want[c] # have[c] THEN want[c] ELSE r[c]]
  BY RowColumns DEF ColumnsAfterSave
<1>2. s \in [Column -> Password \cup Otp \cup Text \cup {None}]
  BY <1>1, RowColumns
<1>3. s["password"] \in Password /\ s["otp"] \in Otp \cup {None} /\ s["profile"] \in Text
  BY <1>1, RowColumns DEF Column
<1> QED BY <1>1, <1>2, <1>3 DEF Row

-----------------------------------------------------------------------------
(***************************************************************************)
(* One lemma per kind of step.                                             *)
(***************************************************************************)

\* A request that begins with a copy of the row as it is, or without one.
LEMMA BeginStep ==
  ASSUME IndInv, NEW q \in Request, NEW r \in Busy, NEW p \in Password \cup {None},
         Begin(q, r, p), UNCHANGED <<row, expired, drawn>>,
         r.pc \in {"draw", "verified", "found"},
         r.pc = "verified" => r.otp = row["otp"] /\ p = r.password,
         r.pc = "found" => r.want = row /\ p = r.form.password
  PROVE  IndInv'
<1> USE AccountAssumption DEF IndInv
<1>0. req[q] = Idle /\ \A x \in Request : req'[x] = IF x = q THEN r ELSE req[x]
  BY DEF Begin, TypeOK
<1>1. TypeOK'
  BY DEF Begin, TypeOK
<1>2. AloneInv'
  <2>1. r # Idle
    BY DEF Busy, Idle
  <2>2. \A x \in alone' : x = q /\ \A y \in Request : req[y] = Idle
    BY DEF Begin
  <2> QED BY <1>0, <2>1, <2>2 DEF AloneInv
<1>3. KeptInv'
  <2>1. kept' # None => kept' = kept /\ p = None
    BY DEF Begin
  <2>2. r.pc = "verified" => p # None
    BY DEF Busy
  <2> QED BY <1>0, <2>1, <2>2 DEF KeptInv, HasCopy
<1>4. SpentInv'
  <2>1. r.pc = "verified" => r.otp \in Otp
    BY DEF Busy
  <2> QED BY <1>0, <2>1 DEF Begin, SpentInv, OtpOnce, HasCopy
<1> QED BY <1>1, <1>2, <1>3, <1>4

\* The three places a request begins at.
LEMMA FindSteps ==
  ASSUME IndInv, NEW q \in Request,
         \/ RequestFind(q)
         \/ \E o \in Otp, p \in Password : ProcessFind(q, o, p)
         \/ \E form \in Form : UpdateFind(q, form)
  PROVE  IndInv'
<1>1. CASE RequestFind(q)
  <2>1. [pc |-> "draw"] \in Busy
    BY DEF Busy
  <2> QED BY <1>1, <2>1, BeginStep DEF RequestFind
<1>2. ASSUME NEW o \in Otp, NEW p \in Password, ProcessFind(q, o, p)
      PROVE  IndInv'
  <2> DEFINE r == [pc |-> "verified", otp |-> o, password |-> p]
  <2>1. r \in Busy /\ r.pc = "verified" /\ r.otp = row["otp"] /\ r.password = p
    BY <1>2 DEF Busy, ProcessFind
  <2>2. Begin(q, r, p) /\ UNCHANGED <<row, expired, drawn>>
    BY <1>2 DEF ProcessFind
  <2> HIDE DEF r
  <2> QED BY <2>1, <2>2, BeginStep
<1>3. ASSUME NEW form \in Form, UpdateFind(q, form)
      PROVE  IndInv'
  <2> DEFINE r == [pc |-> "found", form |-> form, want |-> row]
  <2>1. r \in Busy /\ r.pc = "found" /\ r.want = row /\ r.form.password = form.password
    BY DEF Busy, IndInv, TypeOK
  <2>2. Begin(q, r, form.password) /\ UNCHANGED <<row, expired, drawn>>
    BY <1>3 DEF UpdateFind
  <2>3. form.password \in Password \cup {None}
    BY DEF Form
  <2> HIDE DEF r
  <2> QED BY <2>1, <2>2, <2>3, BeginStep
<1> QED BY <1>1, <1>2, <1>3

\* requestOTP writes an OTP nobody has seen.
LEMMA RequestWriteStep ==
  ASSUME IndInv, NEW q \in Request, NEW o \in Otp, RequestWrite(q, o)
  PROVE  IndInv'
<1> USE AccountAssumption DEF IndInv
<1>0. /\ o \notin drawn /\ drawn' = drawn \cup {o}
      /\ row' = [row EXCEPT !["otp"] = o]
      /\ expired' = expired /\ spent' = spent
      /\ alone' = alone \ {q} /\ kept' = kept
      /\ req' = [req EXCEPT ![q] = Idle] /\ req[q].pc = "draw"
  BY DEF RequestWrite, End
<1>1. \A x \in Request : req'[x] = IF x = q THEN Idle ELSE req[x]
  BY <1>0 DEF TypeOK
<1>2. /\ row \in Row /\ row' \in Row
      /\ row'["password"] = row["password"] /\ row'["otp"] = o
  BY <1>0, RowColumns, NewRow DEF TypeOK, Column
<1>3. TypeOK'
  <2>1. req' \in [Request -> Busy \cup {Idle}]
    BY <1>0 DEF TypeOK
  <2> QED BY <1>0, <1>2, <2>1 DEF TypeOK
<1>4. AloneInv'
  BY <1>0, <1>1 DEF AloneInv, Idle
<1>5. KeptInv'
  BY <1>0, <1>1, <1>2 DEF KeptInv, HasCopy, Idle
<1>6. SpentInv'
  BY <1>0, <1>1, <1>2 DEF SpentInv, OtpOnce, HasCopy, Idle, TypeOK
<1> QED BY <1>3, <1>4, <1>5, <1>6

\* processOTP writes the password and takes the OTP away.
LEMMA ProcessWriteStep ==
  ASSUME IndInv, NEW q \in Request, ProcessWrite(q)
  PROVE  IndInv'
<1> USE AccountAssumption DEF IndInv
<1> DEFINE p == req[q].password
<1>0. p \in Password /\ req[q].otp \in drawn /\ req[q].pc = "verified"
  BY RequestShape DEF ProcessWrite, SpentInv
<1>1. /\ row' = [row EXCEPT !["password"] = p, !["otp"] = None]
      /\ expired' = expired /\ drawn' = drawn
      /\ req' = [req EXCEPT ![q] = Idle]
      /\ alone' = alone \ {q}
      /\ kept' = IF q \in alone THEN p ELSE kept
      /\ spent' = IF q \in alone THEN spent \cup {req[q].otp} ELSE spent
  BY <1>0 DEF ProcessWrite, End, AfterReset
<1>2. \A x \in Request : req'[x] = IF x = q THEN Idle ELSE req[x]
  BY <1>1 DEF TypeOK
<1> HIDE DEF p
<1>3. row' \in Row /\ row'["password"] = p /\ row'["otp"] = None
  <2>1. row \in Row
    BY DEF TypeOK
  <2>2. row' = [c \in Column |-> IF c = "password" THEN p ELSE IF c = "otp" THEN None ELSE row[c]]
    BY <1>1, <2>1, RowColumns DEF Column
  <2>3. row' \in [Column -> Password \cup Otp \cup Text \cup {None}]
    BY <1>0, <2>1, <2>2, RowColumns
  <2> QED BY <1>0, <2>1, <2>2, <2>3, RowColumns DEF Row, Column
<1>4. TypeOK'
  <2>1. req' \in [Request -> Busy \cup {Idle}]
    BY <1>1 DEF TypeOK
  <2> QED BY <1>0, <1>1, <1>3, <2>1 DEF TypeOK
<1>5. AloneInv'
  <2>1. alone' = {}
    BY <1>0, <1>1 DEF AloneInv, Idle
  <2> QED BY <2>1 DEF AloneInv
<1>6. KeptInv'
  <2>1. CASE q \in alone
    BY <1>1, <1>2, <1>3, <2>1 DEF AloneInv, KeptInv, HasCopy, Idle
  <2>2. CASE q \notin alone
    \* This request itself keeps `kept` from being promised.
    BY <1>0, <1>1, <2>2 DEF KeptInv
  <2> QED BY <2>1, <2>2
<1>7. SpentInv'
  <2>1. CASE q \in alone
    <3>1. \A x \in Request : req'[x] = Idle
      BY <1>2, <2>1 DEF AloneInv
    <3>2. None \notin spent'
      BY <1>0, <1>1 DEF TypeOK
    <3> QED BY <1>3, <3>1, <3>2 DEF SpentInv, OtpOnce, HasCopy, Idle
  <2>2. CASE q \notin alone
    <3>1. None \notin spent
      BY DEF TypeOK
    <3> QED BY <1>1, <1>2, <1>3, <2>2, <3>1 DEF SpentInv, OtpOnce, HasCopy, Idle
  <2> QED BY <2>1, <2>2
<1> QED BY <1>4, <1>5, <1>6, <1>7

\* save reads the row: the copy of a request that is alone agrees with it.
LEMMA SaveLoadStep ==
  ASSUME IndInv, NEW q \in Request, SaveLoad(q)
  PROVE  IndInv'
<1> USE AccountAssumption DEF IndInv
<1> DEFINE new == [pc |-> "loaded", form |-> req[q].form,
                   want |-> Merged(req[q].want, req[q].form), have |-> row]
<1>0. req[q].pc = "found" /\ req[q].form \in Form /\ req[q].want \in Row
  BY RequestShape DEF SaveLoad, HasCopy
<1>1. /\ req' = [req EXCEPT ![q] = new]
      /\ row' = row /\ expired' = expired /\ drawn' = drawn
      /\ alone' = alone /\ kept' = kept /\ spent' = spent
  BY DEF SaveLoad, promised
<1>2. /\ new \in Busy /\ new.pc = "loaded" /\ new.form = req[q].form /\ new.have = row
      /\ new.want["otp"] = req[q].want["otp"]
      /\ new.want["password"] = IF req[q].form.password = None
                                THEN req[q].want["password"] ELSE req[q].form.password
  BY <1>0, MergedColumns DEF Busy, TypeOK
<1> HIDE DEF new
<1>3. \A x \in Request : req'[x] = IF x = q THEN new ELSE req[x]
  BY <1>1 DEF TypeOK
<1>4. TypeOK'
  <2>1. req' \in [Request -> Busy \cup {Idle}]
    BY <1>1, <1>2 DEF TypeOK
  <2> QED BY <1>1, <2>1 DEF TypeOK
<1>5. AloneInv'
  <2>1. new # Idle
    BY <1>2 DEF Idle
  <2> QED BY <1>0, <1>1, <1>2, <1>3, <2>1 DEF AloneInv, Idle
<1>6. KeptInv'
  BY <1>0, <1>1, <1>2, <1>3 DEF KeptInv, HasCopy
<1>7. SpentInv'
  BY <1>0, <1>1, <1>2, <1>3 DEF SpentInv, OtpOnce, HasCopy
<1> QED BY <1>4, <1>5, <1>6, <1>7

\* The transaction of save.
LEMMA SaveCommitStep ==
  ASSUME IndInv, NEW q \in Request, SaveCommit(q)
  PROVE  IndInv'
<1> USE AccountAssumption DEF IndInv
<1> DEFINE want == req[q].want
           have == req[q].have
           p == req[q].form.password
<1>0. /\ req[q].pc = "loaded" /\ want \in Row /\ have \in Row /\ row \in Row
      /\ p \in Password \cup {None}
  BY RequestShape DEF SaveCommit, HasCopy, TypeOK, Form
<1>1. /\ expired' = expired /\ drawn' = drawn /\ spent' = spent
      /\ req' = [req EXCEPT ![q] = Idle] /\ alone' = alone \ {q}
      /\ kept' = IF q \in alone /\ p # None THEN p ELSE kept
  BY DEF SaveCommit, End
<1>2. /\ row' \in Row
      /\ row'["password"] = IF want["password"] # have["password"]
                            THEN want["password"] ELSE row["password"]
      /\ row'["otp"] = IF want["otp"] # have["otp"] THEN want["otp"] ELSE row["otp"]
  BY <1>0, SavedColumns DEF SaveCommit, Column
<1>3. \A x \in Request : req'[x] = IF x = q THEN Idle ELSE req[x]
  BY <1>1 DEF TypeOK
<1>4. TypeOK'
  <2>1. req' \in [Request -> Busy \cup {Idle}]
    BY <1>1 DEF TypeOK
  <2>2. kept' \in Password \cup {None}
    BY <1>0, <1>1 DEF TypeOK
  <2> HIDE DEF p
  <2> QED BY <1>1, <1>2, <2>1, <2>2 DEF TypeOK
<1>5. AloneInv'
  <2>1. alone' = {}
    BY <1>0, <1>1 DEF AloneInv, Idle
  <2> QED BY <2>1 DEF AloneInv
<1>6. KeptInv'
  <2>1. CASE q \in alone /\ p # None
    <3>1. want["password"] = p /\ have = row
      BY <1>0, <2>1 DEF AloneInv
    <3>2. \A x \in Request : req'[x] = Idle
      BY <1>3, <2>1 DEF AloneInv
    <3> QED BY <1>1, <1>2, <2>1, <3>1, <3>2 DEF KeptInv, HasCopy, Idle
  <2>2. CASE ~(q \in alone /\ p # None)
    <3>1. kept' = kept
      BY <1>1, <2>2
    <3>2. kept # None => row'["password"] = kept
      BY <1>0, <1>2 DEF KeptInv, HasCopy
    <3> QED BY <1>3, <3>1, <3>2 DEF KeptInv, HasCopy, Idle
  <2> QED BY <2>1, <2>2
<1>7. SpentInv'
  BY <1>0, <1>1, <1>2, <1>3 DEF SpentInv, OtpOnce, HasCopy, Idle
<1> QED BY <1>4, <1>5, <1>6, <1>7

LEMMA OtherSteps ==
  ASSUME IndInv, (\E q \in Request : Fail(q)) \/ (\E o \in Otp : Expire(o)) \/ UNCHANGED vars
  PROVE  IndInv'
<1> USE AccountAssumption DEF IndInv
<1>1. ASSUME NEW q \in Request, Fail(q)
      PROVE  IndInv'
  <2>1. /\ row' = row /\ expired' = expired /\ drawn' = drawn
        /\ spent' = spent /\ kept' = kept /\ alone' = alone \ {q}
        /\ req' = [req EXCEPT ![q] = Idle]
    BY <1>1 DEF Fail, End
  <2>2. \A x \in Request : req'[x] = IF x = q THEN Idle ELSE req[x]
    BY <2>1 DEF TypeOK
  <2>3. TypeOK'
    BY <2>1 DEF TypeOK
  <2>4. AloneInv' /\ KeptInv'
    BY <2>1, <2>2 DEF AloneInv, KeptInv, HasCopy, Idle
  <2>5. SpentInv'
    BY <2>1, <2>2 DEF SpentInv, OtpOnce, HasCopy, Idle
  <2> QED BY <2>3, <2>4, <2>5
<1>2. ASSUME NEW o \in Otp, Expire(o)
      PROVE  IndInv'
  BY <1>2 DEF Expire, promised, TypeOK, AloneInv, KeptInv, SpentInv, OtpOnce, HasCopy
<1>3. CASE UNCHANGED vars
  BY <1>3 DEF vars, promised, TypeOK, AloneInv, KeptInv, SpentInv, OtpOnce, HasCopy
<1> QED BY <1>1, <1>2, <1>3

-----------------------------------------------------------------------------
\* The inductive invariant.
THEOREM Invariance == Spec => []IndInv
<1>1. IndInv /\ [Next]_vars => IndInv'
  <2> SUFFICES ASSUME IndInv, [Next]_vars
               PROVE  IndInv'
    OBVIOUS
  <2> QED
    BY FindSteps, RequestWriteStep, ProcessWriteStep, SaveLoadStep, SaveCommitStep, OtherSteps
    DEF Next
<1> QED BY <1>1, InitialState, PTL DEF Spec

\* The row and the requests in flight keep their types, also between the read and
\* the write of a save.
THEOREM TypeCorrect == Spec => []TypeOK
<1>1. IndInv => TypeOK
  BY DEF IndInv
<1> QED BY <1>1, Invariance, PTL

\* AuthService.processOTP and the two updates: a password set by a request that
\* met no other one is undone by no later save.
THEOREM PasswordSticksAlways == Spec => []PasswordSticks
<1>1. IndInv => PasswordSticks
  BY DEF IndInv, KeptInv, PasswordSticks
<1> QED BY <1>1, Invariance, PTL

\* AuthService.processOTP: an OTP used by a request that met no other one never
\* comes back into the row.
THEOREM OtpOnceAlways == Spec => []OtpOnce
<1>1. IndInv => OtpOnce
  BY DEF IndInv, SpentInv
<1> QED BY <1>1, Invariance, PTL

-----------------------------------------------------------------------------
(***************************************************************************)
(* TokenBlacklist.                                                         *)
(***************************************************************************)
\* A Map is a function from some tokens to times and undefined.
LEMMA MapOf == ASSUME NEW J \in SUBSET Token, NEW f \in [J -> Time \cup {Undefined}]
               PROVE  f \in Maps
  BY DEF Maps

LEMMA OfMap == ASSUME NEW f \in Maps
               PROVE  /\ DOMAIN f \in SUBSET Token
                      /\ f \in [DOMAIN f -> Time \cup {Undefined}]
<1> PICK J \in SUBSET Token : f \in [J -> Time \cup {Undefined}]
  BY DEF Maps
<1> QED OBVIOUS

LEMMA TokenInitialState == TokenInit => TokenInv
<1> SUFFICES ASSUME TokenInit PROVE TokenInv
  OBVIOUS
<1>1. EmptyMap \in Maps /\ DOMAIN EmptyMap = {}
  <2>1. EmptyMap \in [{} -> Time \cup {Undefined}]
    BY DEF EmptyMap
  <2> QED BY <2>1, MapOf
<1> HIDE DEF EmptyMap
<1>2. TokenTypeOK
  BY <1>1, TimeAssumption DEF TokenInit, TokenTypeOK
<1>3. EntriesInv
  BY <1>1 DEF TokenInit, EntriesInv
<1> QED BY <1>2, <1>3 DEF TokenInv

\* The steps of the token's handlers, and the restart, keep the Map's shape.
LEMMA TokenInductiveStep == TokenInv /\ [TokenNext]_tokenVars => TokenInv'
<1> SUFFICES ASSUME TokenInv, [TokenNext]_tokenVars
             PROVE  TokenInv'
  OBVIOUS
<1> USE TimeAssumption DEF TokenInv, TokenTypeOK, Time
<1>maps. ASSUME NEW i \in Instance
         PROVE  /\ tokenBlacklist[i] \in Maps
                /\ DOMAIN tokenBlacklist[i] \in SUBSET Token
                /\ \A x \in DOMAIN tokenBlacklist[i] : tokenBlacklist[i][x] = Undefined
  BY OfMap DEF EntriesInv
<1>same. ASSUME NEW t \in Token, NEW i \in Instance
         PROVE  /\ Checked(i, t) \in Maps
                /\ DOMAIN Checked(i, t) = DOMAIN tokenBlacklist[i]
                /\ \A x \in DOMAIN tokenBlacklist[i] : Checked(i, t)[x] = Undefined
  <2>1. CASE t \in DOMAIN tokenBlacklist[i]
    <3>1. Checked(i, t) = tokenBlacklist[i]
      BY <1>maps, <2>1 DEF Checked, IsTokenBlacklisted, Passed
    <3> QED BY <3>1, <1>maps
  <2>2. CASE t \notin DOMAIN tokenBlacklist[i]
    <3> DEFINE D == DOMAIN tokenBlacklist[i] \ {t}
    <3>1. Checked(i, t) = [x \in D |-> tokenBlacklist[i][x]]
      BY <2>2 DEF Checked, IsTokenBlacklisted, Without
    <3>2. D = DOMAIN tokenBlacklist[i]
      BY <2>2
    <3>3. Checked(i, t) \in [D -> Time \cup {Undefined}]
      BY <3>1, <3>2, <1>maps
    <3> QED BY <3>1, <3>2, <3>3, <1>maps, MapOf
  <2> QED BY <2>1, <2>2
<1>1. ASSUME NEW t \in Token, LoginApi(t)
      PROVE  TokenInv'
  BY <1>1 DEF LoginApi, EntriesInv
<1>2. ASSUME NEW t \in Token, NEW i \in Instance, Use(i, t)
      PROVE  TokenInv'
  BY <1>2, <1>same DEF Use, EntriesInv
<1>3. ASSUME NEW t \in Token, NEW i \in Instance, Logout(i, t)
      PROVE  TokenInv'
  <2> DEFINE map == Checked(i, t)
             set == [x \in DOMAIN map \cup {t} |-> IF x = t THEN UserExp(t) ELSE map[x]]
  <2>1. \A x \in DOMAIN set : set[x] = Undefined
    BY <1>same DEF EntriesInv, UserExp
  <2>2. DOMAIN set \in SUBSET Token
    BY <1>same, OfMap
  <2>3. DOMAIN set \ {x \in DOMAIN set : Passed(set[x])} = DOMAIN set
    BY <2>1 DEF Passed
  <2>4. Swept(set) = [x \in DOMAIN set |-> set[x]]
    BY <2>3 DEF Swept, Without
  <2>5. Swept(set) \in Maps
    BY <2>1, <2>2, <2>4, MapOf
  <2>6. tokenBlacklist' = [tokenBlacklist EXCEPT ![i] = Swept(set)]
    BY <1>3 DEF Logout
  <2>7. DOMAIN Swept(set) = DOMAIN tokenBlacklist[i] \cup {t}
    BY <2>4, <1>same
  <2>8. \A x \in DOMAIN Swept(set) : Swept(set)[x] = Undefined
    BY <2>1, <2>4
  <2> QED
    <3> HIDE DEF set
    <3> QED BY <1>3, <2>5, <2>6, <2>7, <2>8 DEF Logout, EntriesInv
<1>4. ASSUME NEW i \in Instance, Restart(i)
      PROVE  TokenInv'
  <2>1. EmptyMap \in Maps /\ DOMAIN EmptyMap = {}
    <3>1. EmptyMap \in [{} -> Time \cup {Undefined}]
      BY DEF EmptyMap
    <3> QED BY <3>1, MapOf
  <2> QED
    <3> HIDE DEF EmptyMap
    <3> QED BY <1>4, <2>1 DEF Restart, EntriesInv
<1>5. CASE Tick
  BY <1>5 DEF Tick, EntriesInv
<1>6. CASE UNCHANGED tokenVars
  BY <1>6 DEF tokenVars, EntriesInv
<1> QED BY <1>1, <1>2, <1>3, <1>4, <1>5, <1>6 DEF TokenNext

\* The maps of the instances keep their type, also when they are swept.
THEOREM TokenTypeCorrect == TokenSpec => []TokenTypeOK
<1>1. TokenInv => TokenTypeOK
  BY DEF TokenInv
<1> QED BY <1>1, TokenInitialState, TokenInductiveStep, PTL DEF TokenSpec

\* An instance rejects every token whose logout it has handled since it
\* started, whatever later logouts sweep and whatever the clock says.
THEOREM RevokedWhileRunning == TokenSpec => []RevokedHere
<1>1. TokenInv => RevokedHere
  BY DEF TokenInv, EntriesInv, RevokedHere, Accepted, IsTokenBlacklisted, Passed
<1> QED BY <1>1, TokenInitialState, TokenInductiveStep, PTL DEF TokenSpec

=============================================================================
