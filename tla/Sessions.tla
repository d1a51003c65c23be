------------------------------ MODULE Sessions ------------------------------
(***************************************************************************)
(* Web sessions: TypeOrmSessionStore over the table sessions, the          *)
(* express-session middleware main.ts installs in front of every route,    *)
(* and the handlers that change a session (login, logout, the updates of   *)
(* profile and setting).                                                   *)
(*                                                                         *)
(* A request holds a COPY of its session from the get at its start to the  *)
(* set at its end; the copies of two requests of one browser know nothing  *)
(* of each other.  Of the session's data the signed-in user is modelled;   *)
(* flash messages, validation errors and the CSRF secret only matter in    *)
(* that they make a request write its session.                             *)
(***************************************************************************)
EXTENDS TypeOrm

CONSTANTS
    Sid,          \* session ids, never generated twice
    User,
    Request,      \* requests that can be in flight at a time
    Anonymous,    \* the user of a session nobody has signed in to
    Unknown       \* history only: nobody was promised who is signed in

ASSUME UserAssumption == Anonymous \notin User /\ Unknown \notin User /\ Anonymous # Unknown

VARIABLES
    rows,        \* session ids that have a row in sessions
    expired,     \* those whose expiresAt has passed
    data,        \* the user in the data column of the row
    used,        \* session ids that have been generated
    req,         \* what each request in flight is doing
    (***********************************************************************)
    (* History.  The program does not have these variables.                *)
    (***********************************************************************)
    closed,      \* ids whose logout met no request that had read the session
    owner,       \* user whose login met no such request, while nobody else logs in
    sole,        \* requests in a set that have held the only copy since it read
    answered,    \* ids whose logout has been answered
    late         \* requests that arrived with such an id

promised == <<closed, owner>>
answers == <<answered, late>>
vars == <<rows, expired, data, used, req, closed, owner, sole, answered, late>>

SessionUser == User \cup {Anonymous}

(***************************************************************************)
(* Where a request is:                                                     *)
(*    "get"     its cookie names session sid, the store is asked for it    *)
(*    "run"     the handler runs with its copy of the session              *)
(*    "save"    store.set is called with the copy                          *)
(*    "insert", "update"  set has looked for the row                       *)
(*    "touch"   the response ends with an unchanged session                *)
(*    "destroy" store.destroy is called                                    *)
(* `user` is the user in the copy, `have` the one in the row set has read; *)
(* `then` is what follows the set: a touch when the handler saved, nothing *)
(* when the middleware did at the end of the response.                     *)
(***************************************************************************)
Idle == [pc |-> "idle"]
Slot(pc, sid, user, then) ==
    [pc |-> pc, sid |-> sid, user |-> user, have |-> Anonymous, then |-> then]

Busy == [pc: {"get", "run", "save", "insert", "update", "touch", "destroy"},
         sid: Sid, user: SessionUser, have: SessionUser, then: {"touch", "idle"}]

TypeOK ==
    /\ rows \subseteq used
    /\ expired \subseteq rows
    /\ data \in [Sid -> SessionUser]
    /\ used \subseteq Sid
    /\ req \in [Request -> Busy \cup {Idle}]
    /\ closed \subseteq Sid
    /\ owner \in [Sid -> User \cup {Unknown}]
    /\ sole \subseteq Request
    /\ answered \subseteq Sid
    /\ late \subseteq Request

\* Request q may still write the copy of session s it has read.
HasCopy(q, s) == req[q].pc \in {"run", "save", "insert", "update"} /\ req[q].sid = s

NoOtherCopy(q) == \A x \in Request \ {q} : ~HasCopy(x, req[q].sid)

\* Slot q gets pc, and a user where the session in memory changes.
Goto(q, pc) == req' = [req EXCEPT ![q].pc = pc]
End(q) == req' = [req EXCEPT ![q] = Idle] /\ late' = late \ {q} /\ sole' = sole \ {q}

-----------------------------------------------------------------------------
(***************************************************************************)
(* The middleware at the start of a request.                               *)
(***************************************************************************)

\* A request with a cookie: any id ever handed to a browser.
Arrive(q, s) ==
    /\ req[q] = Idle
    /\ s \in used
    /\ req' = [req EXCEPT ![q] = Slot("get", s, Anonymous, "idle")]
    /\ late' = IF s \in answered THEN late \cup {q} ELSE late
    /\ UNCHANGED <<rows, expired, data, used, promised, sole, answered>>

\* A request without a cookie: the middleware generates a session.
ArriveNew(q, s) ==
    /\ req[q] = Idle
    /\ s \in Sid \ used
    /\ used' = used \cup {s}
    /\ req' = [req EXCEPT ![q] = Slot("run", s, Anonymous, "idle")]
    /\ UNCHANGED <<rows, expired, data, promised, sole, answers>>

\* store.get: the row, unless it is missing or has expired.
Get(s) == s \in rows \ expired

\* The session is in the store.
Resume(q) ==
    /\ req[q].pc = "get"
    /\ Get(req[q].sid)
    /\ req' = [req EXCEPT ![q].pc = "run", ![q].user = data[req[q].sid]]
    /\ sole' = {x \in sole : req[x].sid # req[q].sid}
    /\ UNCHANGED <<rows, expired, data, used, promised, answers>>

\* It is not: the middleware generates another one, under a new id.
Regenerate(q, s) ==
    /\ req[q].pc = "get"
    /\ ~Get(req[q].sid)
    /\ s \in Sid \ used
    /\ used' = used \cup {s}
    /\ req' = [req EXCEPT ![q].pc = "run", ![q].sid = s]
    /\ UNCHANGED <<rows, expired, data, promised, sole, answers>>

(***************************************************************************)
(* The handlers.                                                           *)
(***************************************************************************)

\* AuthWebController.loginPost, after LocalStrategy has validated user u.
Login(q, u) ==
    /\ req[q].pc = "run"
    /\ req' = [req EXCEPT ![q].pc = "save", ![q].user = u, ![q].then = "touch"]
    /\ owner' = [owner EXCEPT ![req[q].sid] = Unknown]
    /\ UNCHANGED <<rows, expired, data, used, closed, sole, answers>>

\* ProfileWebController.update and SettingWebController.update: the guard wants
\* a signed-in user; the copy keeps its user and is saved by the handler.
SaveSession_Drops(q) ==                          \* mutant: the spread is left out
    /\ req[q].pc = "run"
    /\ req[q].user # Anonymous
    /\ req' = [req EXCEPT ![q].pc = "save", ![q].user = Anonymous, ![q].then = "touch"]
    /\ UNCHANGED <<rows, expired, data, used, promised, sole, answers>>
SaveSession(q) ==
    /\ req[q].pc = "run"
    /\ req[q].user # Anonymous
    /\ req' = [req EXCEPT ![q].pc = "save", ![q].then = "touch"]
    /\ UNCHANGED <<rows, expired, data, used, promised, sole, answers>>

\* Any other handler: the middleware sets the session when its copy changed (a
\* flash message, the CSRF secret) and touches it otherwise.
Respond(q) ==
    /\ req[q].pc = "run"
    /\ Goto(q, "save") \/ Goto(q, "touch")
    /\ UNCHANGED <<rows, expired, data, used, promised, sole, answers>>

\* AuthWebController.logout: the redirect does not wait for the store.
Logout(q) ==
    /\ req[q].pc = "run"
    /\ Goto(q, "destroy")
    /\ answered' = answered \cup {req[q].sid}
    /\ UNCHANGED <<rows, expired, data, used, promised, sole, late>>

(***************************************************************************)
(* TypeOrmSessionStore.                                                    *)
(***************************************************************************)

\* set: the row is looked for (by set itself, then by the save it calls).
SetFind(q) ==
    /\ req[q].pc = "save"
    /\ req' = [req EXCEPT ![q].pc = IF req[q].sid \in rows THEN "update" ELSE "insert",
                          ![q].have = data[req[q].sid]]
    /\ sole' = IF NoOtherCopy(q) THEN sole \cup {q} ELSE sole
    /\ UNCHANGED <<rows, expired, data, used, promised, answers>>

\* set: the row is written.  A row found and gone by then is not (UPDATE of no
\* row), one inserted by another request meanwhile makes the INSERT fail.  The
\* column data is left out of the UPDATE when the copy equals what set has read:
\* the same user, and the same messages and secrets.
SetWrite(q) ==
    LET s == req[q].sid
        found == IF req[q].pc = "update" THEN {s} ELSE {}
        written == IF req[q].pc = "update" THEN {s} \cap rows ELSE {s}
    IN  /\ req[q].pc \in {"insert", "update"}
        /\ ~DuplicateRow(rows, found, {s})
        /\ rows' = RowsAfterSave(rows, found, {s})
        /\ expired' = expired \ written
        /\ \/ data' = [x \in Sid |-> IF x \in written THEN req[q].user ELSE data[x]]
           \/ req[q].pc = "update" /\ req[q].user = req[q].have /\ data' = data
        /\ owner' = IF s \in rows' /\ req[q].user \in User /\ q \in sole
                    THEN [owner EXCEPT ![s] = req[q].user] ELSE owner
        /\ IF req[q].then = "touch"
           THEN Goto(q, "touch") /\ late' = late /\ sole' = sole \ {q}
           ELSE End(q)
        /\ UNCHANGED <<used, closed, answered>>

\* touch: an UPDATE of expiresAt alone.
Touch_Saves(q) ==                                \* mutant: touch as a save
    /\ req[q].pc = "touch"
    /\ rows' = rows \cup {req[q].sid}
    /\ expired' = expired \ {req[q].sid}
    /\ End(q)
    /\ UNCHANGED <<data, used, promised, answered>>
Touch(q) ==
    /\ req[q].pc = "touch"
    /\ expired' = expired \ {req[q].sid}
    /\ End(q)
    /\ UNCHANGED <<rows, data, used, promised, answered>>

\* destroy.
Destroy_Expires(q) ==                            \* mutant: the row is left to expire
    /\ req[q].pc = "destroy"
    /\ expired' = expired \cup {req[q].sid}
    /\ closed' = IF NoOtherCopy(q) THEN closed \cup {req[q].sid} ELSE closed
    /\ End(q)
    /\ UNCHANGED <<rows, data, used, owner, answered>>
Destroy(q) ==
    /\ req[q].pc = "destroy"
    /\ rows' = rows \ {req[q].sid}
    /\ expired' = expired \ {req[q].sid}
    /\ closed' = IF NoOtherCopy(q) THEN closed \cup {req[q].sid} ELSE closed
    /\ End(q)
    /\ UNCHANGED <<data, used, owner, answered>>

\* A query fails (the callbacks of login and logout do not look at the error),
\* the handler throws or the process stops.
Fail(q) ==
    /\ req[q] # Idle
    /\ End(q)
    /\ UNCHANGED <<rows, expired, data, used, promised, answered>>

\* SESSION_TTL_HOURS pass without a request for session s.
Expire(s) ==
    /\ s \in rows \ expired
    /\ expired' = expired \cup {s}
    /\ UNCHANGED <<rows, data, used, req, promised, sole, answers>>

-----------------------------------------------------------------------------
Init ==
    /\ rows = {} /\ expired = {} /\ used = {}
    /\ data = [s \in Sid |-> Anonymous]
    /\ req = [q \in Request |-> Idle]
    /\ closed = {} /\ owner = [s \in Sid |-> Unknown]
    /\ sole = {} /\ answered = {} /\ late = {}

Next ==
    \/ \E q \in Request :
          \/ \E s \in Sid : Arrive(q, s) \/ ArriveNew(q, s) \/ Regenerate(q, s)
          \/ \E u \in User : Login(q, u)
          \/ Resume(q) \/ SaveSession(q) \/ Respond(q) \/ Logout(q)
          \/ SetFind(q) \/ SetWrite(q) \/ Touch(q) \/ Destroy(q) \/ Fail(q)
    \/ \E s \in Sid : Expire(s)

Spec == Init /\ [][Next]_vars

-----------------------------------------------------------------------------
(***************************************************************************)
(* Properties.                                                             *)
(***************************************************************************)

\* A session destroyed while no other request had a copy of it never comes back:
\* neither a set nor a touch of a later request gives its id a row again.
ClosedStaysClosed == closed \cap rows = {}

\* After a login whose set met no other copy of the session the row belongs to that
\* user until the next login: no request of the same browser, however its get
\* and set overlap with others, puts another user or nobody into it.
OwnerKept == \A s \in rows : owner[s] \in User => data[s] = owner[s]

\* Once a logout is answered, a request that arrives with the session's cookie
\* is nobody's.
LogoutInvalidates == \A q \in late : req[q].pc = "run" => req[q].user = Anonymous

-----------------------------------------------------------------------------
(***************************************************************************)
(* The inductive invariant behind ClosedStaysClosed and OwnerKept: what    *)
(* the copies in flight may still write.                                   *)
(***************************************************************************)
ClosedInv ==
    \A s \in closed : s \in used \ rows /\ \A q \in Request : ~HasCopy(q, s)

OwnerInv ==
    \A s \in Sid : owner[s] \in User =>
        /\ s \in used
        /\ s \in rows => data[s] = owner[s]
        /\ \A q \in Request : HasCopy(q, s) => req[q].user = owner[s]

SidsUsed == \A q \in Request : req[q].pc # "idle" => req[q].sid \in used

\* What the set of a request without other copies has read is still so.
SoleInv ==
    \A q \in sole :
        /\ req[q].pc \in {"insert", "update"}
        /\ NoOtherCopy(q)
        /\ req[q].pc = "update" => data[req[q].sid] = req[q].have

IndInv == TypeOK /\ SidsUsed /\ SoleInv /\ ClosedInv /\ OwnerInv

=============================================================================
