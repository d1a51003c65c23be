---------------------------- MODULE UserAccount ----------------------------
(***************************************************************************)
(* The columns of one user's row, and the requests that write them:        *)
(* AuthService.requestOTP and processOTP (the password reset), and         *)
(* ProfileService.update and UserService.update, which save the whole      *)
(* entity.  Roles, and rows that come and go, are the business of          *)
(* AccessControl; the row stays here.                                      *)
(*                                                                         *)
(* A password stands for its bcrypt hash, an OTP for its hash together     *)
(* with password_otp_expires: the two columns are always written together. *)
(***************************************************************************)
EXTENDS TypeOrm

CONSTANTS
    Password,
    Otp,        \* one-time passwords, never drawn twice
    Text,       \* what the column "profile" may hold: name, phone, status, blocked
    Request,    \* requests about this user that can be in flight at a time
    None        \* null in a column, and history: nothing is promised

ASSUME AccountAssumption ==
    None \notin Password /\ None \notin Otp /\ Password \cap Otp = {}

VARIABLES
    row,        \* the user's row
    expired,    \* OTPs whose password_otp_expires has passed
    drawn,      \* OTPs generated
    req,        \* what each request in flight is doing
    (***********************************************************************)
    (* History.  The program does not have these variables.                *)
    (***********************************************************************)
    alone,      \* requests in flight that have met no other one
    kept,       \* password set by such a request, nobody sets another since
    spent       \* OTPs such a request has reset the password with

promised == <<alone, kept, spent>>
vars == <<row, expired, drawn, req, promised>>

Column == {"password", "otp", "profile"}
Row == {r \in [Column -> Password \cup Otp \cup Text \cup {None}] :
           /\ r["password"] \in Password
           /\ r["otp"] \in Otp \cup {None}
           /\ r["profile"] \in Text}

\* A form of a profile: the password it asks for, or None for an empty field.
Form == [password: Password \cup {None}, profile: Text]

(***************************************************************************)
(* Where a request is:                                                     *)
(*    "draw"    requestOTP has found the user, an OTP is being hashed      *)
(*    "verified" processOTP has accepted the OTP, the password is hashed   *)
(*    "found"   update has found the user, upload and hashing go on        *)
(*    "loaded"  the save of update has read the row once more              *)
(***************************************************************************)
Idle == [pc |-> "idle"]
Busy == [pc: {"draw"}]
          \cup [pc: {"verified"}, otp: Otp, password: Password]
          \cup [pc: {"found"}, form: Form, want: Row]
          \cup [pc: {"loaded"}, form: Form, want: Row, have: Row]

TypeOK ==
    /\ row \in Row
    /\ expired \subseteq drawn
    /\ drawn \subseteq Otp
    /\ req \in [Request -> Busy \cup {Idle}]
    /\ alone \subseteq Request
    /\ kept \in Password \cup {None}
    /\ spent \subseteq drawn

\* merge: the columns of the form, but no password when its field was empty.
Merged_Blank(cols, form) ==                      \* mutant: the empty field, too
    [cols EXCEPT !["profile"] = form.profile, !["password"] = form.password]
Merged(cols, form) ==
    [cols EXCEPT !["profile"] = form.profile,
                 !["password"] = IF form.password = None THEN @ ELSE form.password]

\* The UPDATE at the end of processOTP.
AfterReset_KeepsOtp(cols, password) ==           \* mutant: undefined in place of null
    [cols EXCEPT !["password"] = password]
AfterReset(cols, password) ==
    [cols EXCEPT !["password"] = password, !["otp"] = None]

\* Request q holds a copy of the row.
HasCopy(q) == req[q].pc \in {"found", "loaded"}

\* Request q starts as r and asks for `password`, or for None.
Begin(q, r, password) ==
    /\ req[q] = Idle
    /\ req' = [req EXCEPT ![q] = r]
    /\ alone' = IF \A x \in Request : req[x] = Idle THEN {q} ELSE {}
    /\ kept' = IF password = None THEN kept ELSE None
    /\ spent' = spent

\* Request q is answered after it has asked for `password`, or for None.
End(q, password) ==
    /\ req' = [req EXCEPT ![q] = Idle]
    /\ alone' = alone \ {q}
    /\ kept' = IF q \in alone /\ password # None THEN password ELSE kept

-----------------------------------------------------------------------------
\* AuthService.requestOTP: the user is found, an OTP drawn and hashed.
RequestFind(q) ==
    /\ Begin(q, [pc |-> "draw"], None)
    /\ UNCHANGED <<row, expired, drawn>>

\* requestOTP: an UPDATE of the two OTP columns.
RequestWrite(q, o) ==
    /\ req[q].pc = "draw"
    /\ o \in Otp \ drawn
    /\ drawn' = drawn \cup {o}
    /\ row' = [row EXCEPT !["otp"] = o]
    /\ End(q, None)
    /\ UNCHANGED <<expired, spent>>

\* AuthService.processOTP: the OTP is compared with the row as it is found.
ProcessFind(q, o, p) ==
    /\ row["otp"] = o
    /\ o \notin expired
    /\ Begin(q, [pc |-> "verified", otp |-> o, password |-> p], p)
    /\ UNCHANGED <<row, expired, drawn>>

\* processOTP: an UPDATE of the password and the OTP columns.
ProcessWrite(q) ==
    /\ req[q].pc = "verified"
    /\ row' = AfterReset(row, req[q].password)
    /\ End(q, req[q].password)
    /\ spent' = IF q \in alone THEN spent \cup {req[q].otp} ELSE spent
    /\ UNCHANGED <<expired, drawn>>

\* ProfileService.update and UserService.update: the user is found.
UpdateFind(q, form) ==
    /\ Begin(q, [pc |-> "found", form |-> form, want |-> row], form.password)
    /\ UNCHANGED <<row, expired, drawn>>

\* The file is stored, the password hashed and the form merged; save reads the row.
SaveLoad(q) ==
    /\ req[q].pc = "found"
    /\ req' = [req EXCEPT ![q] = [pc |-> "loaded", form |-> @.form,
                                  want |-> Merged(@.want, @.form), have |-> row]]
    /\ UNCHANGED <<row, expired, drawn, promised>>

\* The transaction of save: the columns in which copy and row differed.
SaveCommit(q) ==
    /\ req[q].pc = "loaded"
    /\ row' = ColumnsAfterSave(row, req[q].have, req[q].want)
    /\ End(q, req[q].form.password)
    /\ UNCHANGED <<expired, drawn, spent>>

\* The OTP's ten minutes are over.
Expire(o) ==
    /\ o \in drawn \ expired
    /\ expired' = expired \cup {o}
    /\ UNCHANGED <<row, drawn, req, promised>>

\* A query or an upload fails, or the process stops.
Fail(q) ==
    /\ req[q] # Idle
    /\ End(q, None)
    /\ UNCHANGED <<row, expired, drawn, spent>>

-----------------------------------------------------------------------------
Init ==
    /\ row \in {r \in Row : r["otp"] = None}
    /\ expired = {} /\ drawn = {} /\ spent = {}
    /\ req = [q \in Request |-> Idle]
    /\ alone = {} /\ kept = None

Next ==
    \/ \E q \in Request :
          \/ \E o \in Otp, p \in Password : ProcessFind(q, o, p)
          \/ \E o \in Otp : RequestWrite(q, o)
          \/ \E form \in Form : UpdateFind(q, form)
          \/ RequestFind(q) \/ ProcessWrite(q)
          \/ SaveLoad(q) \/ SaveCommit(q) \/ Fail(q)
    \/ \E o \in Otp : Expire(o)

Spec == Init /\ [][Next]_vars

-----------------------------------------------------------------------------
\* A password set by a request that met no other one, be it a reset or an
\* update, is the user's password until another request for a password begins,
\* whatever the profile saves after it carry along.
PasswordSticks == kept # None => row["password"] = kept

\* An OTP that has reset the password in a request that met no other one is
\* never in the row again: no save brings it back, so it resets nothing twice.
OtpOnce == row["otp"] \notin spent

-----------------------------------------------------------------------------
(***************************************************************************)
(* The inductive invariant behind PasswordSticks and OtpOnce: what the     *)
(* copies in flight may still write.                                       *)
(***************************************************************************)
AloneInv ==
    \A q \in alone :
        /\ req[q] # Idle
        /\ \A x \in Request \ {q} : req[x] = Idle
        /\ req[q].pc = "loaded" =>
              /\ req[q].have = row
              /\ req[q].form.password # None
                    => req[q].want["password"] = req[q].form.password

KeptInv ==
    kept # None =>
        /\ row["password"] = kept
        /\ \A q \in Request : req[q].pc # "verified"
        /\ \A q \in Request : HasCopy(q) =>
              /\ req[q].form.password = None
              /\ req[q].want["password"] = kept
              /\ req[q].pc = "loaded" => req[q].have["password"] = kept

\* No copy holds a spent OTP that the row does not hold when save compares them.
SpentInv ==
    /\ OtpOnce
    /\ \A q \in Request :
          /\ HasCopy(q) => req[q].want["otp"] \notin spent
          /\ req[q].pc = "verified" => req[q].otp \in drawn
    /\ row["otp"] # None => row["otp"] \in drawn
    /\ \A q \in Request : HasCopy(q) /\ req[q].want["otp"] # None => req[q].want["otp"] \in drawn

IndInv == TypeOK /\ AloneInv /\ KeptInv /\ SpentInv

=============================================================================
