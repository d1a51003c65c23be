--------------------------- MODULE SessionsProofs ---------------------------
(***************************************************************************)
(* Proofs about Sessions for any number of sessions, users and requests in *)
(* flight: a session closed without a copy of it about stays closed, and   *)
(* a login that met no copy is kept.                                       *)
(***************************************************************************)
EXTENDS Sessions, TLAPS

LEMMA BusyFields ==
    ASSUME NEW r \in Busy
    PROVE  /\ r.sid \in Sid /\ r.user \in SessionUser /\ r.then \in {"touch", "idle"}
           /\ r.pc # "idle" /\ r # Idle
  BY DEF Busy, Idle

\* A slot whose request has a program counter other than idle is busy.
LEMMA BusySlot ==
    ASSUME TypeOK, NEW q \in Request,
           req[q].pc \in {"get", "run", "save", "insert", "update", "touch", "destroy"}
    PROVE  req[q] \in Busy
  BY DEF TypeOK, Idle

\* What the steps do to the slots.
LEMMA GotoSlot ==
    ASSUME TypeOK, NEW q \in Request, req[q] \in Busy,
           NEW pc \in {"get", "run", "save", "insert", "update", "touch", "destroy"}, Goto(q, pc)
    PROVE  /\ req' \in [Request -> Busy \cup {Idle}]
           /\ req'[q].pc = pc /\ req'[q].sid = req[q].sid /\ req'[q].user = req[q].user
           /\ \A x \in Request \ {q} : req'[x] = req[x]
  BY DEF TypeOK, Goto, Busy

LEMMA EndSlot ==
    ASSUME TypeOK, NEW q \in Request, End(q)
    PROVE  /\ req' \in [Request -> Busy \cup {Idle}]
           /\ req'[q].pc = "idle"
           /\ \A x \in Request \ {q} : req'[x] = req[x]
           /\ late' \subseteq Request /\ sole' \subseteq sole \ {q}
  BY DEF TypeOK, End, Idle

LEMMA ArriveSlot ==
    ASSUME TypeOK, NEW q \in Request, NEW pc \in {"get", "run"}, NEW s \in Sid,
           req' = [req EXCEPT ![q] = Slot(pc, s, Anonymous, "idle")]
    PROVE  /\ req' \in [Request -> Busy \cup {Idle}]
           /\ req'[q].pc = pc /\ req'[q].sid = s /\ req'[q].user = Anonymous
           /\ \A x \in Request \ {q} : req'[x] = req[x]
<1>1. /\ Slot(pc, s, Anonymous, "idle") \in Busy
      /\ Slot(pc, s, Anonymous, "idle").pc = pc
      /\ Slot(pc, s, Anonymous, "idle").sid = s
      /\ Slot(pc, s, Anonymous, "idle").user = Anonymous
  BY DEF Slot, Busy, SessionUser
<1> QED BY <1>1 DEF TypeOK

\* Requests that hold a copy after a step that only moves slot q.
LEMMA CopiesAfter ==
    ASSUME NEW q \in Request, \A x \in Request \ {q} : req'[x] = req[x]
    PROVE  \A x \in Request \ {q}, s \in Sid : HasCopy(x, s)' <=> HasCopy(x, s)
  BY DEF HasCopy

\* A request that is not in the middle of a set is not in sole.
LEMMA NotSole ==
    ASSUME IndInv, NEW q \in Request, req[q].pc \notin {"insert", "update"}
    PROVE  q \notin sole
  BY DEF IndInv, SoleInv

\* Steps of slot q that give it no copy of a session in the middle of a lone set.
LEMMA SoleKept ==
    ASSUME IndInv, NEW q \in Request, sole' \subseteq sole \ {q},
           \A x \in Request \ {q} : req'[x] = req[x],
           \A x \in sole' : data'[req[x].sid] = data[req[x].sid],
           \A x \in sole', s \in Sid : s = req[x].sid /\ HasCopy(q, s)' => HasCopy(q, s)
    PROVE  SoleInv' /\ sole' \subseteq Request
<1>1. sole' \subseteq Request \ {q}
  BY DEF IndInv, TypeOK
<1>2. ASSUME NEW x \in sole'
      PROVE  /\ req'[x].pc \in {"insert", "update"}
             /\ NoOtherCopy(x)'
             /\ req'[x].pc = "update" => data'[req'[x].sid] = req'[x].have
  <2>1. /\ req[x].pc \in {"insert", "update"} /\ req'[x] = req[x]
        /\ NoOtherCopy(x)
        /\ req[x].pc = "update" => data[req[x].sid] = req[x].have
    BY <1>1 DEF IndInv, SoleInv
  <2>2. PICK s \in Sid : s = req[x].sid /\ s = req'[x].sid
    BY <1>1, <2>1, BusySlot, BusyFields DEF IndInv
  <2>3. ASSUME NEW y \in Request \ {x} PROVE ~HasCopy(y, s)'
    <3>1. ~HasCopy(y, s)
      BY <2>1, <2>2 DEF NoOtherCopy
    <3>2. CASE y = q
      BY <2>2, <3>1, <3>2
    <3>3. CASE y # q
      BY <3>1, <3>3, CopiesAfter
    <3> QED BY <3>2, <3>3
  <2>4. NoOtherCopy(x)'
    BY <2>2, <2>3 DEF NoOtherCopy
  <2> QED BY <2>1, <2>4
<1> QED BY <1>1, <1>2 DEF SoleInv

\* Steps in which slot q keeps its copy, or gives it up, and the table and
\* the history stay as they are.
LEMMA QuietStep ==
    ASSUME IndInv, NEW q \in Request,
           req' \in [Request -> Busy \cup {Idle}], late' \subseteq Request,
           answered' \subseteq Sid,
           \A x \in Request \ {q} : req'[x] = req[x],
           \A s \in Sid : HasCopy(q, s)' => HasCopy(q, s) /\ req'[q].user = req[q].user,
           req'[q].pc # "idle" => req'[q].sid \in used,
           sole' \subseteq sole \ {q},
           UNCHANGED <<rows, expired, data, used, promised>>
    PROVE  IndInv'
<1>1. \A x \in Request, s \in Sid :
         HasCopy(x, s)' => HasCopy(x, s) /\ req'[x].user = req[x].user
  BY CopiesAfter
<1>0. SoleInv' /\ sole' \subseteq Request
  <2>1. data' = data
    OBVIOUS
  <2> QED BY <2>1, SoleKept
<1>2. TypeOK'
  BY <1>0 DEF IndInv, TypeOK, promised
<1>3. SidsUsed'
  BY DEF IndInv, SidsUsed, promised
<1>4. ClosedInv'
  BY <1>1 DEF IndInv, TypeOK, ClosedInv, promised
<1>5. OwnerInv'
  BY <1>1 DEF IndInv, OwnerInv, promised
<1> QED BY <1>0, <1>2, <1>3, <1>4, <1>5 DEF IndInv

LEMMA Step == IndInv /\ [Next]_vars => IndInv'
<1> SUFFICES ASSUME IndInv, [Next]_vars PROVE IndInv'
  OBVIOUS
<1>0. TypeOK /\ SidsUsed /\ SoleInv /\ ClosedInv /\ OwnerInv
  BY DEF IndInv
<1>a. \A q \in Request : req[q].pc \notin {"insert", "update"} => sole = sole \ {q}
  BY NotSole
<1>b. \A x \in sole : req[x].sid \in used
  BY <1>0, NotSole DEF SoleInv, SidsUsed, TypeOK
<1>arrive. ASSUME NEW q \in Request, NEW s \in Sid, Arrive(q, s) PROVE IndInv'
  <2>1. /\ req' \in [Request -> Busy \cup {Idle}] /\ req'[q].pc = "get" /\ req'[q].sid = s
        /\ \A x \in Request \ {q} : req'[x] = req[x]
    BY <1>0, <1>arrive, ArriveSlot DEF Arrive
  <2>2. late' \subseteq Request
    BY <1>0, <1>arrive DEF Arrive, TypeOK
  <2>3. sole' \subseteq sole \ {q}
    BY <1>a, <1>arrive DEF Arrive, Idle
  <2> QED BY <1>0, <1>arrive, <2>1, <2>2, <2>3, QuietStep DEF Arrive, HasCopy, TypeOK, promised
<1>new. ASSUME NEW q \in Request, NEW s \in Sid, ArriveNew(q, s) PROVE IndInv'
  <2>1. /\ req' \in [Request -> Busy \cup {Idle}]
        /\ req'[q].pc = "run" /\ req'[q].sid = s /\ req'[q].user = Anonymous
        /\ \A x \in Request \ {q} : req'[x] = req[x]
    BY <1>0, <1>new, ArriveSlot DEF ArriveNew
  <2>2. \A x \in Request, t \in Sid : HasCopy(x, t)' => (HasCopy(x, t) /\ x # q) \/ t = s
    BY <2>1, CopiesAfter DEF HasCopy
  <2>3. s \notin used /\ used' = used \cup {s}
        /\ UNCHANGED <<rows, expired, data, closed, owner, sole, answered, late>>
    BY <1>new DEF ArriveNew, promised, answers
  <2>8. SoleInv' /\ sole' \subseteq Request
    <3>1. sole' \subseteq sole \ {q}
      BY <1>a, <1>new, <2>3 DEF ArriveNew, Idle
    <3>2. \A x \in sole', y \in Sid : y = req[x].sid /\ HasCopy(q, y)' => HasCopy(q, y)
      BY <1>b, <2>1, <2>3 DEF HasCopy
    <3> QED BY <2>1, <2>3, <3>1, <3>2, SoleKept
  <2>4. TypeOK'
    BY <1>0, <2>1, <2>3, <2>8 DEF TypeOK
  <2>5. SidsUsed'
    BY <1>0, <2>1, <2>3 DEF SidsUsed
  <2>6. ClosedInv'
    BY <1>0, <2>2, <2>3 DEF ClosedInv, TypeOK
  <2>7. OwnerInv'
    BY <1>0, <2>1, <2>2, <2>3 DEF OwnerInv
  <2> QED BY <2>4, <2>5, <2>6, <2>7, <2>8 DEF IndInv
<1>resume. ASSUME NEW q \in Request, Resume(q) PROVE IndInv'
  <2>0. PICK t \in Sid : t = req[q].sid
    BY <1>0, <1>resume, BusySlot, BusyFields DEF Resume
  <2>1. req[q] \in Busy /\ t = req[q].sid /\ t \in rows /\ req[q].pc = "get"
    BY <1>0, <1>resume, <2>0, BusySlot, BusyFields DEF Resume, Get
  <2>2. /\ req' = [req EXCEPT ![q].pc = "run", ![q].user = data[t]]
        /\ UNCHANGED <<rows, expired, data, used, closed, owner, answered, late>>
    BY <1>resume, <2>0 DEF Resume, promised, answers
  <2>3. data[t] \in SessionUser
    BY <1>0, <2>1 DEF TypeOK
  <2>4. /\ req' \in [Request -> Busy \cup {Idle}]
        /\ req'[q].sid = t /\ req'[q].user = data[t]
        /\ \A x \in Request \ {q} : req'[x] = req[x]
    BY <1>0, <2>1, <2>2, <2>3 DEF TypeOK, Busy
  <2>5. \A x \in Request, s \in Sid : HasCopy(x, s)' => (HasCopy(x, s) /\ x # q) \/ (x = q /\ s = t)
    BY <2>4, CopiesAfter DEF HasCopy
  <2>10. SoleInv' /\ sole' \subseteq Request
    <3>1. sole' = {x \in sole : req[x].sid # t}
      BY <1>resume, <2>0 DEF Resume
    <3>2. sole' \subseteq sole \ {q}
      BY <1>a, <2>1, <3>1
    <3>3. \A x \in sole', y \in Sid : y = req[x].sid /\ HasCopy(q, y)' => HasCopy(q, y)
      BY <2>4, <3>1 DEF HasCopy
    <3> QED BY <2>2, <2>4, <3>2, <3>3, SoleKept
  <2>6. TypeOK'
    BY <1>0, <2>2, <2>4, <2>10 DEF TypeOK
  <2>7. SidsUsed'
    BY <1>0, <2>1, <2>2, <2>4 DEF SidsUsed, TypeOK
  <2>8. ClosedInv'
    BY <1>0, <2>1, <2>2, <2>5 DEF ClosedInv, TypeOK
  <2>9. OwnerInv'
    BY <1>0, <2>1, <2>2, <2>4, <2>5 DEF OwnerInv
  <2> QED BY <2>6, <2>7, <2>8, <2>9, <2>10 DEF IndInv
<1>regenerate. ASSUME NEW q \in Request, NEW s \in Sid, Regenerate(q, s) PROVE IndInv'
  <2>1. req[q] \in Busy
    BY <1>0, <1>regenerate, BusySlot DEF Regenerate
  <2>2. /\ req' = [req EXCEPT ![q].pc = "run", ![q].sid = s]
        /\ s \notin used /\ used' = used \cup {s}
        /\ UNCHANGED <<rows, expired, data, closed, owner, sole, answered, late>>
    BY <1>regenerate DEF Regenerate, promised, answers
  <2>3. /\ req' \in [Request -> Busy \cup {Idle}] /\ req'[q].sid = s
        /\ \A x \in Request \ {q} : req'[x] = req[x]
    BY <1>0, <2>1, <2>2 DEF TypeOK, Busy
  <2>4. \A x \in Request, t \in Sid : HasCopy(x, t)' => (HasCopy(x, t) /\ x # q) \/ t = s
    BY <2>3, CopiesAfter DEF HasCopy
  <2>9. SoleInv' /\ sole' \subseteq Request
    <3>1. sole' \subseteq sole \ {q}
      BY <1>a, <1>regenerate, <2>2 DEF Regenerate
    <3>2. \A x \in sole', y \in Sid : y = req[x].sid /\ HasCopy(q, y)' => HasCopy(q, y)
      BY <1>b, <2>2, <2>3 DEF HasCopy
    <3> QED BY <2>2, <2>3, <3>1, <3>2, SoleKept
  <2>5. TypeOK'
    BY <1>0, <2>2, <2>3, <2>9 DEF TypeOK
  <2>6. SidsUsed'
    BY <1>0, <2>2, <2>3 DEF SidsUsed
  <2>7. ClosedInv'
    BY <1>0, <2>2, <2>4 DEF ClosedInv, TypeOK
  <2>8. OwnerInv'
    BY <1>0, <2>2, <2>3, <2>4 DEF OwnerInv
  <2> QED BY <2>5, <2>6, <2>7, <2>8, <2>9 DEF IndInv
<1>login. ASSUME NEW q \in Request, NEW u \in User, Login(q, u) PROVE IndInv'
  <2>0. PICK t \in Sid : t = req[q].sid
    BY <1>0, <1>login, BusySlot, BusyFields DEF Login
  <2>1. req[q] \in Busy /\ t = req[q].sid /\ req[q].pc = "run" /\ HasCopy(q, t)
    BY <1>0, <1>login, <2>0, BusySlot, BusyFields DEF Login, HasCopy
  <2>2. /\ req' = [req EXCEPT ![q].pc = "save", ![q].user = u, ![q].then = "touch"]
        /\ owner' = [owner EXCEPT ![t] = Unknown]
        /\ UNCHANGED <<rows, expired, data, used, closed, sole, answered, late>>
    BY <1>login, <2>0 DEF Login, answers
  <2>3. /\ req' \in [Request -> Busy \cup {Idle}] /\ req'[q].sid = t
        /\ \A x \in Request \ {q} : req'[x] = req[x]
    BY <1>0, <2>1, <2>2 DEF TypeOK, Busy, SessionUser
  <2>4. owner' \in [Sid -> User \cup {Unknown}]
    BY <1>0, <2>2 DEF TypeOK
  <2>5. owner'[t] = Unknown /\ \A s \in Sid \ {t} : owner'[s] = owner[s]
    BY <1>0, <2>1, <2>2 DEF TypeOK
  <2>6. \A x \in Request, s \in Sid : HasCopy(x, s)' => HasCopy(x, s) /\ (x # q \/ s = t)
    BY <2>1, <2>3, CopiesAfter DEF HasCopy
  <2>11. SoleInv' /\ sole' \subseteq Request
    <3>1. sole' \subseteq sole \ {q}
      BY <1>a, <2>1, <2>2
    <3>2. \A x \in sole', y \in Sid : y = req[x].sid /\ HasCopy(q, y)' => HasCopy(q, y)
      BY <2>1, <2>3 DEF HasCopy
    <3> QED BY <2>2, <2>3, <3>1, <3>2, SoleKept
  <2>7. TypeOK'
    BY <1>0, <2>2, <2>3, <2>4, <2>11 DEF TypeOK
  <2>8. SidsUsed'
    BY <1>0, <2>1, <2>2, <2>3 DEF SidsUsed
  <2>10. ClosedInv'
    BY <1>0, <2>2, <2>6 DEF ClosedInv, TypeOK
  <2>9. OwnerInv'
    BY <1>0, <2>2, <2>3, <2>5, <2>6, UserAssumption DEF OwnerInv
  <2> QED BY <2>7, <2>8, <2>9, <2>10, <2>11 DEF IndInv
<1>save. ASSUME NEW q \in Request, SaveSession(q) PROVE IndInv'
  <2>1. req[q] \in Busy /\ req[q].pc = "run"
    BY <1>0, <1>save, BusySlot DEF SaveSession
  <2>2. req' = [req EXCEPT ![q].pc = "save", ![q].then = "touch"]
    BY <1>save DEF SaveSession
  <2>3. /\ req' \in [Request -> Busy \cup {Idle}]
        /\ req'[q].sid = req[q].sid /\ req'[q].user = req[q].user
        /\ \A x \in Request \ {q} : req'[x] = req[x]
    BY <1>0, <2>1, <2>2 DEF TypeOK, Busy
  <2>4. sole' \subseteq sole \ {q}
    BY <1>a, <1>save, <2>1 DEF SaveSession
  <2> QED BY <1>0, <1>save, <2>1, <2>3, <2>4, QuietStep DEF SaveSession, HasCopy, SidsUsed, TypeOK, answers
<1>respond. ASSUME NEW q \in Request, Respond(q) PROVE IndInv'
  <2>1. req[q] \in Busy /\ req[q].pc = "run"
    BY <1>0, <1>respond, BusySlot DEF Respond
  <2>2. /\ req' \in [Request -> Busy \cup {Idle}]
        /\ req'[q].sid = req[q].sid /\ req'[q].user = req[q].user
        /\ \A x \in Request \ {q} : req'[x] = req[x]
    BY <1>0, <1>respond, <2>1, GotoSlot DEF Respond
  <2>4. sole' \subseteq sole \ {q}
    BY <1>a, <1>respond, <2>1 DEF Respond
  <2> QED BY <1>0, <1>respond, <2>1, <2>2, <2>4, QuietStep DEF Respond, HasCopy, SidsUsed, TypeOK, answers
<1>logout. ASSUME NEW q \in Request, Logout(q) PROVE IndInv'
  <2>1. req[q] \in Busy /\ req[q].sid \in Sid /\ req[q].pc = "run"
    BY <1>0, <1>logout, BusySlot, BusyFields DEF Logout
  <2>2. /\ req' \in [Request -> Busy \cup {Idle}] /\ req'[q].pc = "destroy"
        /\ req'[q].sid = req[q].sid
        /\ \A x \in Request \ {q} : req'[x] = req[x]
    BY <1>0, <1>logout, <2>1, GotoSlot DEF Logout
  <2>4. sole' \subseteq sole \ {q}
    BY <1>a, <1>logout, <2>1 DEF Logout
  <2> QED BY <1>0, <1>logout, <2>1, <2>2, <2>4, QuietStep DEF Logout, HasCopy, SidsUsed, TypeOK
<1>find. ASSUME NEW q \in Request, SetFind(q) PROVE IndInv'
  <2>0. PICK t \in Sid : t = req[q].sid
    BY <1>0, <1>find, BusySlot, BusyFields DEF SetFind
  <2>1. req[q] \in Busy /\ req[q].pc = "save" /\ HasCopy(q, t) /\ data[t] \in SessionUser
    BY <1>0, <1>find, <2>0, BusySlot DEF SetFind, HasCopy, TypeOK
  <2>2. PICK pc \in {"insert", "update"} :
          req' = [req EXCEPT ![q].pc = pc, ![q].have = data[t]]
    BY <1>find, <2>0 DEF SetFind
  <2>3. /\ req' \in [Request -> Busy \cup {Idle}]
        /\ req'[q].pc = pc /\ req'[q].have = data[t]
        /\ req'[q].sid = t /\ req'[q].user = req[q].user
        /\ \A x \in Request \ {q} : req'[x] = req[x]
    BY <1>0, <2>0, <2>1, <2>2 DEF TypeOK, Busy
  <2>4. /\ UNCHANGED <<rows, expired, data, used, closed, owner, answered, late>>
        /\ sole' = IF NoOtherCopy(q) THEN sole \cup {q} ELSE sole
    BY <1>find DEF SetFind, promised, answers
  <2>5. \A x \in Request, s \in Sid : HasCopy(x, s)' => HasCopy(x, s)
    BY <2>0, <2>1, <2>3, CopiesAfter DEF HasCopy
  <2>6. \A x \in sole : req[x].sid \in Sid
    BY <1>0, BusySlot, BusyFields DEF SoleInv, TypeOK
  <2>7. ASSUME NEW x \in sole'
        PROVE  /\ req'[x].pc \in {"insert", "update"}
               /\ NoOtherCopy(x)'
               /\ req'[x].pc = "update" => data'[req'[x].sid] = req'[x].have
    <3>1. CASE x = q
      <4>1. NoOtherCopy(q)
        BY <1>a, <2>1, <2>4, <2>7, <3>1
      <4>2. \A y \in Request \ {q} : ~HasCopy(y, t)'
        BY <2>0, <2>5, <4>1 DEF NoOtherCopy
      <4>3. NoOtherCopy(q)'
        BY <2>3, <4>2 DEF NoOtherCopy
      <4> QED BY <2>3, <2>4, <3>1, <4>3
    <3>2. CASE x # q
      <4>1. x \in sole /\ x \in Request /\ req'[x] = req[x]
        BY <1>0, <2>3, <2>4, <2>7, <3>2 DEF TypeOK
      <4>2. PICK s \in Sid : s = req[x].sid /\ s = req'[x].sid
        BY <2>6, <4>1
      <4>3. \A y \in Request \ {x} : ~HasCopy(y, s)'
        BY <1>0, <2>5, <4>1, <4>2 DEF SoleInv, NoOtherCopy
      <4>4. NoOtherCopy(x)'
        BY <4>2, <4>3 DEF NoOtherCopy
      <4> QED BY <1>0, <2>4, <4>1, <4>4 DEF SoleInv
    <3> QED BY <3>1, <3>2
  <2>8. SoleInv'
    BY <2>7 DEF SoleInv
  <2>9. TypeOK'
    BY <1>0, <2>3, <2>4 DEF TypeOK
  <2>10. SidsUsed'
    BY <1>0, <2>0, <2>1, <2>3, <2>4 DEF SidsUsed
  <2>11. ClosedInv'
    BY <1>0, <2>4, <2>5 DEF ClosedInv, TypeOK
  <2>12. OwnerInv'
    BY <1>0, <2>3, <2>4, <2>5 DEF OwnerInv
  <2> QED BY <2>8, <2>9, <2>10, <2>11, <2>12 DEF IndInv
<1>write. ASSUME NEW q \in Request, SetWrite(q) PROVE IndInv'
  <2>0. PICK t \in Sid : t = req[q].sid
    BY <1>0, <1>write, BusySlot, BusyFields DEF SetWrite
  <2> DEFINE found == IF req[q].pc = "update" THEN {t} ELSE {}
             written == IF req[q].pc = "update" THEN {t} \cap rows ELSE {t}
  <2>1. /\ req[q] \in Busy /\ t = req[q].sid /\ req[q].user \in SessionUser
        /\ HasCopy(q, t) /\ req[q].then \in {"touch", "idle"}
    BY <1>0, <1>write, <2>0, BusySlot, BusyFields DEF SetWrite, HasCopy
  <2>2. /\ rows' = rows \cup ({t} \ found)
        /\ expired' = expired \ written
        /\ owner' = IF t \in rows' /\ req[q].user \in User /\ q \in sole
                    THEN [owner EXCEPT ![t] = req[q].user] ELSE owner
        /\ UNCHANGED <<used, closed, answered>>
    BY <1>write, <2>0 DEF SetWrite, RowsAfterSave
  <2>13. \/ data' = [x \in Sid |-> IF x \in written THEN req[q].user ELSE data[x]]
         \/ req[q].pc = "update" /\ req[q].user = req[q].have /\ data' = data
    BY <1>write, <2>0 DEF SetWrite
  <2>14. /\ data' \in [Sid -> SessionUser]
         /\ \A s \in Sid \ {t} : data'[s] = data[s]
         /\ data'[t] = req[q].user \/ (data'[t] = data[t] /\ t \in rows)
            \/ t \notin rows'
    <3>1. CASE data' = [x \in Sid |-> IF x \in written THEN req[q].user ELSE data[x]]
      BY <1>0, <2>1, <2>2, <3>1 DEF TypeOK
    <3>2. CASE req[q].pc = "update" /\ req[q].user = req[q].have /\ data' = data
      <4>1. rows' = rows
        BY <2>2, <3>2
      <4> QED BY <1>0, <3>2, <4>1 DEF TypeOK
    <3> QED BY <2>13, <3>1, <3>2
  <2>15. q \in sole /\ t \in rows' => data'[t] = req[q].user
    <3>1. CASE data' = [x \in Sid |-> IF x \in written THEN req[q].user ELSE data[x]]
      BY <2>2, <3>1
    <3>2. CASE req[q].pc = "update" /\ req[q].user = req[q].have /\ data' = data
      BY <1>0, <2>0, <3>2 DEF SoleInv
    <3> QED BY <2>13, <3>1, <3>2
  <2>3. /\ req' \in [Request -> Busy \cup {Idle}] /\ late' \subseteq Request
        /\ req'[q].pc = "idle" \/ (req'[q].pc = "touch" /\ req'[q].sid = t)
        /\ \A x \in Request \ {q} : req'[x] = req[x]
        /\ sole' \subseteq sole \ {q}
    BY <1>0, <1>write, <2>1, GotoSlot, EndSlot DEF SetWrite, TypeOK
  <2>16. SoleInv' /\ sole' \subseteq Request
    <3>1. \A x \in sole' : req[x].sid \in Sid \ {t}
      <4> SUFFICES ASSUME NEW x \in sole' PROVE req[x].sid \in Sid \ {t}
        OBVIOUS
      <4>1. /\ x \in sole /\ x # q /\ x \in Request
            /\ req[x].pc \in {"insert", "update"} /\ ~HasCopy(q, req[x].sid)
        BY <1>0, <2>3 DEF SoleInv, NoOtherCopy, TypeOK
      <4> QED BY <1>0, <2>1, <4>1, BusySlot, BusyFields
    <3>2. \A s \in Sid : ~HasCopy(q, s)'
      BY <2>3 DEF HasCopy
    <3> QED BY <2>3, <2>14, <3>1, <3>2, SoleKept
  <2>4. \A x \in Request, s \in Sid : HasCopy(x, s)' => HasCopy(x, s) /\ x # q /\ req'[x] = req[x]
    BY <2>3, CopiesAfter DEF HasCopy
  <2>5. t \in used /\ t \notin closed
    BY <1>0, <2>1 DEF SidsUsed, ClosedInv, HasCopy
  <2>6. t \in rows' => t \in written
    BY <2>2
  <2>7. owner' \in [Sid -> User \cup {Unknown}]
    BY <1>0, <2>1, <2>2 DEF TypeOK
  <2>8. rows' \subseteq used' /\ expired' \subseteq rows'
    BY <1>0, <2>2, <2>5 DEF TypeOK
  <2>9. TypeOK'
    BY <1>0, <2>2, <2>3, <2>7, <2>8, <2>14, <2>16 DEF TypeOK
  <2>10. SidsUsed'
    BY <1>0, <2>2, <2>3, <2>5 DEF SidsUsed
  <2>11. ClosedInv'
    BY <1>0, <2>2, <2>4, <2>5 DEF ClosedInv, TypeOK
  <2>12. ASSUME NEW s \in Sid, owner'[s] \in User
         PROVE  /\ s \in used'
                /\ s \in rows' => data'[s] = owner'[s]
                /\ \A x \in Request : HasCopy(x, s)' => req'[x].user = owner'[s]
    <3>1. CASE s = t /\ t \in rows' /\ req[q].user \in User /\ q \in sole
      <4>1. owner'[s] = req[q].user /\ data'[s] = req[q].user
        BY <1>0, <2>1, <2>2, <2>15, <3>1 DEF TypeOK
      <4>2. \A x \in Request : ~HasCopy(x, s)'
        BY <1>0, <2>1, <2>4, <3>1 DEF SoleInv, NoOtherCopy
      <4> QED BY <2>2, <2>5, <3>1, <4>1, <4>2
    <3>2. CASE ~(s = t /\ t \in rows' /\ req[q].user \in User /\ q \in sole)
      <4>1. owner'[s] = owner[s]
        <5>1. CASE s = t
          BY <2>2, <3>2, <5>1
        <5>2. CASE s # t
          BY <1>0, <2>2, <5>2 DEF TypeOK
        <5> QED BY <5>1, <5>2
      <4>2. /\ s \in used
            /\ s \in rows => data[s] = owner[s]
            /\ \A x \in Request : HasCopy(x, s) => req[x].user = owner[s]
        BY <1>0, <2>12, <4>1 DEF OwnerInv
      <4>3. s \in rows' => data'[s] = owner'[s]
        <5>1. CASE s = t
          <6>1. req[q].user = owner[s]
            BY <2>1, <4>2, <5>1
          <6> QED BY <2>14, <4>1, <4>2, <5>1, <6>1
        <5>2. CASE s # t
          <6>1. data'[s] = data[s]
            BY <2>14, <5>2
          <6>2. s \in rows' => s \in rows
            BY <2>2, <5>2
          <6> QED BY <4>1, <4>2, <6>1, <6>2
        <5> QED BY <5>1, <5>2
      <4>4. \A x \in Request : HasCopy(x, s)' => req'[x].user = owner'[s]
        BY <2>4, <4>1, <4>2
      <4> QED BY <2>2, <4>2, <4>3, <4>4
    <3> QED BY <3>1, <3>2
  <2> QED BY <2>9, <2>10, <2>11, <2>12, <2>16 DEF IndInv, OwnerInv
<1>touch. ASSUME NEW q \in Request, Touch(q) PROVE IndInv'
  <2>1. /\ req' \in [Request -> Busy \cup {Idle}] /\ late' \subseteq Request
        /\ req'[q].pc = "idle" /\ \A x \in Request \ {q} : req'[x] = req[x]
        /\ sole' \subseteq sole \ {q}
    BY <1>0, <1>touch, EndSlot DEF Touch
  <2>2. /\ expired' \subseteq expired
        /\ UNCHANGED <<rows, data, used, closed, owner, answered>>
    BY <1>touch DEF Touch, promised
  <2>3. \A x \in Request, s \in Sid : HasCopy(x, s)' => HasCopy(x, s) /\ req'[x] = req[x]
    BY <2>1, CopiesAfter DEF HasCopy
  <2>6. SoleInv' /\ sole' \subseteq Request
    <3>1. \A s \in Sid : ~HasCopy(q, s)'
      BY <2>1 DEF HasCopy
    <3> QED BY <2>1, <2>2, <3>1, SoleKept
  <2>4. TypeOK'
    BY <1>0, <2>1, <2>2, <2>6 DEF TypeOK
  <2>5. SidsUsed' /\ ClosedInv' /\ OwnerInv'
    BY <1>0, <2>1, <2>2, <2>3 DEF SidsUsed, ClosedInv, OwnerInv, TypeOK
  <2> QED BY <2>4, <2>5, <2>6 DEF IndInv
<1>destroy. ASSUME NEW q \in Request, Destroy(q) PROVE IndInv'
  <2>0. PICK t \in Sid : t = req[q].sid
    BY <1>0, <1>destroy, BusySlot, BusyFields DEF Destroy
  <2>1. req[q] \in Busy /\ t = req[q].sid /\ req[q].pc = "destroy"
    BY <1>0, <1>destroy, <2>0, BusySlot DEF Destroy
  <2>2. /\ req' \in [Request -> Busy \cup {Idle}] /\ late' \subseteq Request
        /\ req'[q].pc = "idle" /\ \A x \in Request \ {q} : req'[x] = req[x]
        /\ sole' \subseteq sole \ {q}
    BY <1>0, <1>destroy, EndSlot DEF Destroy
  <2>3. /\ rows' = rows \ {t} /\ expired' = expired \ {t}
        /\ closed' = IF NoOtherCopy(q) THEN closed \cup {t} ELSE closed
        /\ UNCHANGED <<data, used, owner, answered>>
    BY <1>destroy, <2>0 DEF Destroy
  <2>4. \A x \in Request, s \in Sid : HasCopy(x, s)' => HasCopy(x, s) /\ x # q /\ req'[x] = req[x]
    BY <2>2, CopiesAfter DEF HasCopy
  <2>8. SoleInv' /\ sole' \subseteq Request
    <3>1. \A s \in Sid : ~HasCopy(q, s)'
      BY <2>2 DEF HasCopy
    <3> QED BY <2>2, <2>3, <3>1, SoleKept
  <2>5. TypeOK'
    BY <1>0, <2>1, <2>2, <2>3, <2>8 DEF TypeOK
  <2>6. SidsUsed' /\ OwnerInv'
    BY <1>0, <2>2, <2>3, <2>4 DEF SidsUsed, OwnerInv
  <2>7. ClosedInv'
    <3>1. \A s \in closed : s \in used' \ rows' /\ \A x \in Request : ~HasCopy(x, s)'
      BY <1>0, <2>3, <2>4 DEF ClosedInv, TypeOK
    <3>2. ASSUME NoOtherCopy(q) PROVE t \in used' \ rows' /\ \A x \in Request : ~HasCopy(x, t)'
      BY <1>0, <2>1, <2>3, <2>4, <3>2 DEF NoOtherCopy, SidsUsed
    <3> QED BY <2>3, <3>1, <3>2 DEF ClosedInv
  <2> QED BY <2>5, <2>6, <2>7, <2>8 DEF IndInv
<1>fail. ASSUME NEW q \in Request, Fail(q) PROVE IndInv'
  <2>1. /\ req' \in [Request -> Busy \cup {Idle}] /\ late' \subseteq Request
        /\ req'[q].pc = "idle" /\ \A x \in Request \ {q} : req'[x] = req[x]
        /\ sole' \subseteq sole \ {q}
    BY <1>0, <1>fail, EndSlot DEF Fail
  <2> QED BY <1>0, <1>fail, <2>1, QuietStep DEF Fail, HasCopy, TypeOK
<1>expire. ASSUME NEW s \in Sid, Expire(s) PROVE IndInv'
  BY <1>0, <1>expire
  DEF Expire, IndInv, TypeOK, SidsUsed, SoleInv, NoOtherCopy, ClosedInv, OwnerInv, HasCopy, promised, answers
<1>stutter. CASE UNCHANGED vars
  BY <1>0, <1>stutter DEF vars, IndInv, TypeOK, SidsUsed, SoleInv, NoOtherCopy, ClosedInv, OwnerInv, HasCopy
<1> QED
  BY <1>arrive, <1>new, <1>resume, <1>regenerate, <1>login, <1>save, <1>respond, <1>logout,
     <1>find, <1>write, <1>touch, <1>destroy, <1>fail, <1>expire, <1>stutter DEF Next

LEMMA Start == Init => IndInv
<1> SUFFICES ASSUME Init PROVE IndInv
  OBVIOUS
<1>1. TypeOK
  BY DEF Init, TypeOK, SessionUser
<1>2. \A q \in Request : req[q].pc = "idle"
  BY DEF Init, Idle
<1>3. SidsUsed /\ ClosedInv /\ SoleInv
  BY <1>2 DEF Init, SidsUsed, ClosedInv, SoleInv
<1>4. OwnerInv
  BY UserAssumption DEF Init, OwnerInv
<1> QED BY <1>1, <1>3, <1>4 DEF IndInv

\* The inductive invariant: the copies of sessions that requests may still write
\* agree with what logins and logouts have promised.
THEOREM Invariance == Spec => []IndInv
  BY Start, Step, PTL DEF Spec

\* Requests in flight and stored sessions keep their types, for any number of each.
THEOREM TypeCorrect == Spec => []TypeOK
<1>1. IndInv => TypeOK
  BY DEF IndInv
<1> QED BY <1>1, Invariance, PTL

\* A session whose logout met no copy of it has no row ever after.
THEOREM ClosedForGood == Spec => []ClosedStaysClosed
<1>1. IndInv => ClosedStaysClosed
  BY DEF IndInv, ClosedInv, ClosedStaysClosed
<1> QED BY <1>1, Invariance, PTL

\* A login whose set met no other copy of its session is kept until the next login.
THEOREM OwnerForGood == Spec => []OwnerKept
<1>1. IndInv => OwnerKept
  BY DEF IndInv, TypeOK, OwnerInv, OwnerKept
<1> QED BY <1>1, Invariance, PTL

=============================================================================
