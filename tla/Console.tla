------------------------------ MODULE Console ------------------------------
(***************************************************************************)
(* What a browser is told: the flash messages of the web controllers.      *)
(*                                                                         *)
(* A message is put into the request's copy of the session (connect-flash) *)
(* and travels with it through TypeOrmSessionStore to the page the browser *)
(* is redirected to.  ViewLocalsMiddleware takes every message out of the  *)
(* copy of every request, whatever the request is for; most handlers       *)
(* redirect without waiting for their session to be saved.                 *)
(*                                                                         *)
(* One session, in several tabs.  Its row is there all the time and        *)
(* whether somebody is signed in is left open at each request: both are    *)
(* the subject of Sessions.                                                *)
(***************************************************************************)
EXTENDS Naturals, Sequences, SequencesExt

CONSTANTS
    Tab,        \* tabs of the browser
    Message,    \* messages, each given once
    None        \* no message, no save

VARIABLES
    stored,     \* session.flash in the row, in the order given
    tab,        \* the request each tab waits for
    saving,     \* the save that goes on while or after it is answered
    (***********************************************************************)
    (* History.  The program does not have these variables.                *)
    (***********************************************************************)
    given,      \* messages given so far
    shown,      \* how often each was shown (to 2)
    missed,     \* taken by a request that does not show it, or lost in a failure
    crossed,    \* in the session while two of its copies were in memory
    mixed       \* ... the copies of two tabs

vars == <<stored, tab, saving, given, shown, missed, crossed, mixed>>

(***************************************************************************)
(* A request is for a page, the target of a form, or data (fetch, an       *)
(* image).  "get": the middleware reads the session; "run": the handler    *)
(* has a copy with the messages `flash`, those it `was` read with have     *)
(* been taken; "await": the handler waits for its save.  `after` is the    *)
(* message that the request answered by this redirect has saved.           *)
(***************************************************************************)
Controller ==
    {"role", "user", "permission", "setting", "profile", "auth", "dashboard", "media"}
Messages == Seq(Message)

Idle == [pc |-> "idle"]
Get(at, ask, after) ==
    [pc |-> "get", at |-> at, ask |-> ask, after |-> after, was |-> <<>>, flash |-> <<>>]
Requests ==
    [pc: {"get", "run", "await"}, at: Controller, ask: {"page", "form", "data"},
     after: Message \cup {None}, was: Messages, flash: Messages]
Saves == [pc: {"find", "write"}, flash: Messages, have: Messages]

ASSUME NoneAssumption == None \notin Message \cup Saves

TypeOK ==
    /\ stored \in Messages
    /\ tab \in [Tab -> {Idle} \cup Requests]
    /\ saving \in [Tab -> {None} \cup Saves]
    /\ given \subseteq Message
    /\ \A t \in Tab : tab[t].pc = "await" => saving[t] # None
    /\ shown \in [Message -> 0..2]
    /\ missed \subseteq given /\ mixed \subseteq crossed /\ crossed \subseteq given

\* The messages tab t has in memory.
Taken(t) == IF tab[t] = Idle THEN {} ELSE ToSet(tab[t].was)
Copy(t) == (IF tab[t] = Idle THEN {} ELSE ToSet(tab[t].flash))
             \cup (IF saving[t] = None THEN {} ELSE ToSet(saving[t].flash))
Runs(t) == tab[t].pc \in {"run", "await"}
Open(t) == Runs(t) \/ saving[t] # None

\* The message the request of tab t has given.
GivenBy(t) == IF tab[t].flash = <<>> THEN None ELSE Last(tab[t].flash)

\* The messages in the session, in its row or in any copy of it.
Live == ToSet(stored) \cup UNION {Taken(t) \cup Copy(t) : t \in Tab}

\* Copies of the session in memory: of two tabs, of two requests of one tab.
Two == \E t, u \in Tab : t # u /\ Open(t) /\ Open(u)
Behind == \E t \in Tab : tab[t].pc = "run" /\ saving[t] # None

\* History of a step, besides the messages it gives, shows and misses.
Note ==
    /\ crossed' = crossed \cup (IF Two' \/ Behind' THEN Live' ELSE {})
    /\ mixed' = mixed \cup (IF Two' THEN Live' ELSE {})

Give(M) == given' = given \cup M
Miss(M) == missed' = missed \cup M
Show(M) == shown' = [m \in Message |-> IF m \in M /\ shown[m] < 2 THEN shown[m] + 1 ELSE shown[m]]

-----------------------------------------------------------------------------
(***************************************************************************)
(* The way in and out of a handler.                                        *)
(***************************************************************************)

\* What a request may be for: media stands for all that a page fetches, the
\* pictures and paths that are not there included.
Asks(at) ==
    CASE at = "media"     -> {"data"}
      [] at = "dashboard" -> {"page"}
      [] at = "setting"   -> {"page", "form", "data"}
      [] OTHER            -> {"page", "form"}

\* The user opens a page or sends a form; a page fetches.
Send(t, at, ask) ==
    /\ tab[t] = Idle
    /\ ask \in Asks(at)
    /\ tab' = [tab EXCEPT ![t] = Get(at, ask, None)]
    /\ UNCHANGED <<stored, saving, given, shown, missed>>

\* store.get and ViewLocalsMiddleware: the copy is without messages from here.
ViewLocals_Keeps(t) ==                           \* mutant: flash(key) of a missing key takes none
    /\ tab[t].pc = "get"
    /\ tab' = [tab EXCEPT ![t].pc = "run", ![t].was = stored, ![t].flash = stored]
    /\ UNCHANGED <<stored, saving, given, shown, missed>>
ViewLocals(t) ==
    /\ tab[t].pc = "get"
    /\ tab' = [tab EXCEPT ![t].pc = "run", ![t].was = stored]
    /\ UNCHANGED <<stored, saving, given, shown, missed>>

\* flashMessage: the first message of the first key, which is the first given.
FlashMessage(M) == IF M = <<>> THEN {} ELSE {Head(M)}

\* The end of the response: a copy that differs from what was read is saved,
\* and the browser has the answer before that is done.  One save at a time for
\* each tab is a bound.
Respond(t, was, flash, next) ==
    /\ saving[t] = None
    /\ saving' = IF flash = was THEN saving
                 ELSE [saving EXCEPT ![t] = [pc |-> "find", flash |-> flash, have |-> <<>>]]
    /\ tab' = [tab EXCEPT ![t] = next]
    /\ UNCHANGED stored

\* res.redirect: what a fetch or an image is redirected to is not shown.
Redirect(t, at) == Get(at, IF tab[t].ask = "data" THEN "data" ELSE "page", None)

\* res.render of a page with the toast of main.ejs.
RenderPage(t) ==
    LET M == IF tab[t].ask = "data" THEN {} ELSE FlashMessage(tab[t].was)
    IN  /\ Respond(t, tab[t].was, tab[t].flash, Idle)
        /\ Show(M) /\ Miss(Taken(t) \ M) /\ Give({})

\* res.json, res.send, or a page whose own flash() finds no message left.
RenderBare(t) ==
    /\ Respond(t, tab[t].was, tab[t].flash, Idle)
    /\ Miss(Taken(t)) /\ Show({}) /\ Give({})

\* flash('success', m); res.redirect(...).
AnswerForm(t, m, at) ==
    /\ Respond(t, tab[t].was, Append(tab[t].flash, m), Redirect(t, at))
    /\ Give({m}) /\ Miss(Taken(t)) /\ Show({})

\* flash('success', m); req.session.save(() => res.redirect(...)).
AwaitSave_Redirects(t, m) ==                     \* mutant: res.redirect(BASE) as elsewhere
    /\ Respond(t, tab[t].was, Append(tab[t].flash, m), Get(tab[t].at, "page", m))
    /\ Give({m}) /\ Miss(Taken(t)) /\ Show({})
AwaitSave(t, m) ==
    /\ saving[t] = None
    /\ saving' = [saving EXCEPT ![t] =
                    [pc |-> "find", flash |-> Append(tab[t].flash, m), have |-> <<>>]]
    /\ tab' = [tab EXCEPT ![t].pc = "await", ![t].flash = Append(@, m)]
    /\ Give({m}) /\ Miss(Taken(t)) /\ Show({}) /\ UNCHANGED stored

\* loginPost: req.session.user is set, and session.save awaited, without a message.
\* What else a login and a logout do to the session is in Sessions.
AwaitLogin(t) ==
    /\ saving[t] = None
    /\ saving' = [saving EXCEPT ![t] = [pc |-> "find", flash |-> tab[t].flash, have |-> <<>>]]
    /\ tab' = [tab EXCEPT ![t].pc = "await", ![t].at = "dashboard"]
    /\ Give({}) /\ Miss(Taken(t)) /\ Show({}) /\ UNCHANGED stored

\* SessionAuthGuard finds nobody signed in; AppExceptionFilter sends the browser
\* to the login page without a message.
Unauthorized(t) ==
    /\ tab[t].pc = "run" /\ tab[t].at # "auth"
    /\ Respond(t, tab[t].was, tab[t].flash, Redirect(t, "auth"))
    /\ Miss(Taken(t)) /\ Show({}) /\ Give({})

\* AppExceptionFilter, of anything else a handler throws or a path without one:
\* a message, and the page the request came from or, without a Referrer, the
\* dashboard.
Thrown(t, m) ==
    /\ tab[t].pc = "run"
    /\ \E at \in {tab[t].at, "dashboard"} : AnswerForm(t, m, at)

\* The same for csurf, which comes before ViewLocalsMiddleware: the messages
\* there are stay.
Refused(t, m) ==
    /\ tab[t].pc = "get" /\ tab[t].ask # "page"
    /\ Respond(t, stored, Append(stored, m), Redirect(t, "dashboard"))
    /\ Give({m}) /\ Miss({}) /\ Show({})

-----------------------------------------------------------------------------
(***************************************************************************)
(* The controllers; what their services do is in the other modules.        *)
(***************************************************************************)
Serves(t, at) == tab[t].pc = "run" /\ tab[t].at = at
Fresh == Message \ given

\* RoleWebController: index, create, edit and permission are pages; assign and
\* unassign of one permission are links.
RoleWeb(t) ==
    /\ Serves(t, "role")
    /\ \/ tab[t].ask # "form" /\ RenderPage(t)
       \/ tab[t].ask # "data" /\ \E m \in Fresh : AnswerForm(t, m, "role")

\* UserWebController.
UserWeb(t) ==
    /\ Serves(t, "user")
    /\ \/ tab[t].ask # "form" /\ RenderPage(t)
       \/ tab[t].ask = "form" /\ \E m \in Fresh : AnswerForm(t, m, "user")

\* PermissionWebController; its index syncs the permissions, sync is a form.
PermissionWeb(t) ==
    /\ Serves(t, "permission")
    /\ \/ tab[t].ask # "form" /\ RenderPage(t)
       \/ tab[t].ask = "form" /\ \E m \in Fresh : AnswerForm(t, m, "permission")

\* SettingWebController; fePreview sends a template as it is.
SettingWeb(t) ==
    /\ Serves(t, "setting")
    /\ \/ tab[t].ask = "page" /\ RenderPage(t)
       \/ tab[t].ask = "data" /\ RenderBare(t)
       \/ tab[t].ask = "form" /\ \E m \in Fresh : AwaitSave(t, m)

\* ProfileWebController.
ProfileWeb(t) ==
    /\ Serves(t, "profile")
    /\ \/ tab[t].ask # "form" /\ RenderPage(t)
       \/ tab[t].ask = "form" /\ \E m \in Fresh : AwaitSave(t, m)

\* AuthWebController: the pages hand the view what flash() returns once
\* ViewLocalsMiddleware has taken everything; loginPage sends a signed-in user
\* to the dashboard; login, register, request and process of a reset are forms.
AuthWeb(t) ==
    /\ Serves(t, "auth")
    /\ \/ tab[t].ask # "form" /\ RenderBare(t)
       \/ /\ tab[t].ask # "form"
          /\ Respond(t, tab[t].was, tab[t].flash, Redirect(t, "dashboard"))
          /\ Miss(Taken(t)) /\ Show({}) /\ Give({})
       \/ tab[t].ask = "form" /\ (AwaitLogin(t) \/ \E m \in Fresh : AnswerForm(t, m, "auth"))

\* DashboardWebController and ComponentsWebController have a page each.
DashboardWeb(t) == Serves(t, "dashboard") /\ tab[t].ask # "form" /\ RenderPage(t)

\* MediaController answers with JSON, its own errors too.
MediaWeb(t) == Serves(t, "media") /\ RenderBare(t)

-----------------------------------------------------------------------------
(***************************************************************************)
(* The save: TypeOrmSessionStore.set.                                      *)
(***************************************************************************)

\* The row is read.
SetFind(t) ==
    /\ saving[t] # None /\ saving[t].pc = "find"
    /\ saving' = [saving EXCEPT ![t].pc = "write", ![t].have = stored]
    /\ UNCHANGED <<stored, tab, given, shown, missed>>

\* It is written; when the copy says what has been read already (its dates
\* included) the UPDATE leaves data out.  A handler that waits redirects to the
\* page its form is for.
SetWrite(t) ==
    /\ saving[t] # None /\ saving[t].pc = "write"
    /\ \/ stored' = saving[t].flash
       \/ saving[t].flash = saving[t].have /\ stored' = stored
    /\ saving' = [saving EXCEPT ![t] = None]
    /\ tab' = IF tab[t].pc # "await" THEN tab
              ELSE [tab EXCEPT ![t] = Get(tab[t].at, "page", GivenBy(t))]
    /\ UNCHANGED <<given, shown, missed>>

\* A query of set fails: the callbacks do not look at the error.
SetFails_Waits(t) ==                             \* mutant: done is not called with an error
    /\ saving[t] # None
    /\ saving' = [saving EXCEPT ![t] = None]
    /\ Miss(ToSet(saving[t].flash) \cup ToSet(stored))
    /\ UNCHANGED <<stored, tab, given, shown>>
SetFails(t) ==
    /\ saving[t] # None
    /\ saving' = [saving EXCEPT ![t] = None]
    /\ tab' = IF tab[t].pc # "await" THEN tab
              ELSE [tab EXCEPT ![t] = Get(tab[t].at, "page", None)]
    /\ Miss(ToSet(saving[t].flash) \cup ToSet(stored))
    /\ UNCHANGED <<stored, given, shown>>

\* The session cannot be read, or the process stops before the answer.
Fail(t) ==
    /\ tab[t].pc \in {"get", "run"}
    /\ tab' = [tab EXCEPT ![t] = Idle]
    /\ UNCHANGED <<stored, saving, given, shown, missed>>

-----------------------------------------------------------------------------
Init ==
    /\ stored = <<>>
    /\ tab = [t \in Tab |-> Idle]
    /\ saving = [t \in Tab |-> None]
    /\ given = {} /\ missed = {} /\ crossed = {} /\ mixed = {}
    /\ shown = [m \in Message |-> 0]

Handle(t) ==
    \/ RoleWeb(t) \/ UserWeb(t) \/ PermissionWeb(t) \/ SettingWeb(t)
    \/ ProfileWeb(t) \/ AuthWeb(t) \/ DashboardWeb(t) \/ MediaWeb(t)
    \/ Unauthorized(t)
    \/ \E m \in Fresh : Thrown(t, m) \/ Refused(t, m)

Next ==
    /\ \E t \in Tab :
          \/ \E at \in Controller, ask \in {"page", "form", "data"} : Send(t, at, ask)
          \/ ViewLocals(t) \/ Handle(t)
          \/ SetFind(t) \/ SetWrite(t) \/ SetFails(t) \/ Fail(t)
    /\ Note

Spec == Init /\ [][Next]_vars

-----------------------------------------------------------------------------
(***************************************************************************)
(* Properties.                                                             *)
(***************************************************************************)

\* A message is told once.  It is never shown twice, and while it has not been
\* shown it is in the session or on its way there: unless two copies of the
\* session that could have it were in memory at the same time, a request that does
\* not show it has taken it, or a save failed.
ToldOnce ==
    \A m \in given \ (crossed \cup missed) :
        \/ shown[m] = 1
        \/ shown[m] = 0 /\ m \in ToSet(stored) \cup UNION {Copy(t) : t \in Tab}

\* The page a saved profile or setting redirects to shows its message, whatever
\* this tab did before, unless another tab has been in between.
RedirectTells ==
    \A t \in Tab :
        tab[t].pc = "run" /\ tab[t].after \in Message \ (mixed \cup missed) =>
            shown[tab[t].after] > 0 \/ FlashMessage(tab[t].was) = {tab[t].after}

-----------------------------------------------------------------------------
(***************************************************************************)
(* The inductive invariant behind ToldOnce and RedirectTells.              *)
(***************************************************************************)

\* A request in flight: ViewLocalsMiddleware has emptied the copy, a handler that
\* waits has given at most one message since.
RequestInv ==
    \A t \in Tab :
        /\ tab[t].pc = "get" => tab[t].was = <<>> /\ tab[t].flash = <<>>
        /\ tab[t].pc = "run" => tab[t].flash = <<>>
        /\ tab[t].pc = "await" =>
              /\ saving[t].flash = tab[t].flash
              /\ tab[t].flash = <<>> \/ \E m \in Message : tab[t].flash = <<m>>

\* Messages are given before they are anywhere.
GivenInv == Live \subseteq given /\ \A m \in Message \ given : shown[m] = 0

\* What is in the session while two copies are in memory has been noted.
NotedInv ==
    /\ Two \/ Behind => Live \subseteq crossed
    /\ Two => Live \subseteq mixed

\* Message m goes from the row into one copy, from there onto the page, and out of
\* the row with the save behind it.
OnItsWay(m) ==
    /\ m \notin Live => shown[m] = 1
    /\ m \in Live /\ (\A t \in Tab : ~Open(t)) => shown[m] = 0
    /\ \A t \in Tab : m \in Live /\ tab[t].pc = "run" => tab[t].was = stored /\ shown[m] = 0
    /\ \A t \in Tab : m \in Live /\ saving[t] # None =>
          /\ shown[m] = IF m \in ToSet(saving[t].flash) THEN 0 ELSE 1
          /\ saving[t].pc = "write" => saving[t].have = stored
ToldInv == \A m \in given \ (crossed \cup missed) : OnItsWay(m)

\* Message m is the first in the row and in every copy.
Leads(m, s) == s # <<>> /\ Head(s) = m
First(m) ==
    /\ Leads(m, stored)
    /\ \A t \in Tab : tab[t].pc = "run" => Leads(m, tab[t].was)
    /\ \A t \in Tab : saving[t] # None => Leads(m, saving[t].flash)

\* The message of a redirect that waited for its save: being saved, there for the
\* page to come, then taken by it.
Redirected(t, m) ==
    /\ tab[t].pc = "await" /\ tab[t].flash = <<m>> /\ saving[t].pc = "write"
          => saving[t].have = stored
    /\ tab[t].pc = "get" /\ tab[t].after = m => shown[m] > 0 \/ First(m)
    /\ tab[t].pc = "run" /\ tab[t].after = m => shown[m] > 0 \/ Leads(m, tab[t].was)
RedirectInv == \A t \in Tab, m \in Message \ (mixed \cup missed) : Redirected(t, m)

ConsoleInv == TypeOK /\ RequestInv /\ GivenInv /\ NotedInv /\ ToldInv /\ RedirectInv

=============================================================================
