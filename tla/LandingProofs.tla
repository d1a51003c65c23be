--------------------------- MODULE LandingProofs ----------------------------
(***************************************************************************)
(* What the landing page and the previews answer, and that downloads which *)
(* succeeded are kept, for any templates and any number of requests.       *)
(***************************************************************************)
EXTENDS Landing, TLAPS

LEMMA InitialState == Init => IndInv
<1> SUFFICES ASSUME Init PROVE IndInv
  OBVIOUS
<1> USE LandingAssumption DEF Init
<1>1. TypeOK
  BY DEF TypeOK, Written
<1>2. SteadyInv
  BY DEF SteadyInv
<1>3. LandingServed /\ PreviewServed
  BY DEF LandingServed, PreviewServed
<1> QED BY <1>1, <1>2, <1>3 DEF IndInv

LEMMA TypeStep == TypeOK /\ [Next]_vars => TypeOK'
<1> SUFFICES ASSUME TypeOK, [Next]_vars PROVE TypeOK'
  OBVIOUS
<1> USE LandingAssumption DEF TypeOK, Written, Idle, catalogue
<1>slug. ActiveSlug \in Slug
  BY DEF ActiveSlug
<1>reqs. \A pc \in {"ensure", "html", "tree", "preview"}, s \in Slug :
            [pc |-> pc, slug |-> s] \in Requests
  BY DEF Requests
<1>slugs. \A q \in Request : req[q] # Idle => req[q].slug \in Slug
  BY DEF Requests
<1>goto. ASSUME NEW q \in Request, NEW pc \in {"ensure", "html", "tree", "preview"},
                NEW s \in Slug, Goto(q, pc, s)
         PROVE  req' \in [Request -> Requests \cup {Idle}]
  BY <1>goto, <1>reqs DEF Goto
<1>answer. ASSUME NEW q \in Request, NEW to \in {"landing", "preview"}, NEW a \in Slug,
                  NEW p \in Pages, NEW s \in Slug, NEW due \in BOOLEAN,
                  Answer(q, to, a, p, s, due)
           PROVE  /\ req' \in [Request -> Requests \cup {Idle}]
                  /\ answer' \in Answers \cup {Null}
  BY <1>answer DEF Answer, Answers
<1>memo. \A data \in {Slug, Curated} : Memo(data) \in Memos
  BY DEF Memo, Memos
<1>settled. \A s \in Slug : Settled(s) \in BOOLEAN
  BY DEF Settled
<1>pages. \A s \in Slug : file[s] \in Pages
  BY DEF Pages
<1>listed. ASSUME NEW q \in Request, NEW s \in Slug, NEW data \in {Slug, Curated},
                  Listed(q, s, data)
           PROVE  /\ req' \in [Request -> Requests \cup {Idle}]
                  /\ answer' \in Answers \cup {Null}
  <2> DEFINE due == s \in Curated /\ Settled(s)
  <2>due. due \in BOOLEAN
    OBVIOUS
  <2>p. "400" \in Pages
    BY DEF Pages
  <2> HIDE DEF due
  <2>1. CASE Answer(q, "preview", s, "400", s, due)
    BY <2>1, <2>due, <2>p, <1>answer
  <2>2. CASE Answer(q, "preview", s, file[s], s, due)
    BY <2>2, <2>due, <1>pages, <1>answer
  <2>3. CASE Goto(q, "preview", s) /\ answer' = Null
    BY <2>3, <1>goto
  <2> QED BY <2>1, <2>2, <2>3, <1>listed DEF Listed, due
<1>next. CASE Next
  <2>1. ASSUME NEW q \in Request, LandingStep(q) PROVE TypeOK'
    <3>1. CASE RenderDefault(q)
      <4>1. "ejs" \in Pages
        BY DEF Pages
      <4> QED BY <3>1, <4>1, <1>answer DEF RenderDefault
    <3>2. CASE Render(q)
      BY <3>2, <1>goto, <1>slug DEF Render
    <3>3. CASE Download(q)
      BY <3>3, <1>goto, <1>slugs DEF Download
    <3>4. CASE DownloadFails(q)
      BY <3>4, <1>goto, <1>slugs DEF DownloadFails
    <3>5. CASE GetActiveHtml(q)
      <4> DEFINE due == q \in steady /\ Settled(req[q].slug)
      <4>1. Target \in Slug /\ due \in BOOLEAN /\ req[q].slug \in Slug
        BY <3>5, <1>slug, <1>slugs DEF Target, GetActiveHtml
      <4>2. Answer(q, "landing", req[q].slug, file[Target], Target, due)
        BY <3>5 DEF GetActiveHtml
      <4> HIDE DEF due
      <4>3. req' \in [Request -> Requests \cup {Idle}] /\ answer' \in Answers \cup {Null}
        BY <4>1, <4>2, <1>pages, <1>answer
      <4> QED BY <3>5, <4>3 DEF GetActiveHtml
    <3> QED BY <2>1, <3>1, <3>2, <3>3, <3>4, <3>5 DEF LandingStep
  <2>2. ASSUME NEW q \in Request, PreviewStep(q) PROVE TypeOK'
    <3>1. CASE TreeArrives(q)
      BY <3>1, <1>listed, <1>memo, <1>slugs DEF TreeArrives
    <3>2. CASE TreeFails(q)
      BY <3>2, <1>listed, <1>memo, <1>slugs DEF TreeFails
    <3>3. CASE PreviewArrives(q)
      <4>1. "whole" \in Pages /\ req[q].slug \in Slug
        BY <3>3, <1>slugs DEF Pages, PreviewArrives
      <4> QED BY <3>3, <4>1, <1>answer DEF PreviewArrives
    <3>4. CASE PreviewFails(q)
      <4> DEFINE s == req[q].slug
                 due == s \in Curated /\ Settled(s)
                 p == IF ReadLocalHtml(s) THEN file[s] ELSE "502"
      <4>1. s \in Slug /\ due \in BOOLEAN
        BY <3>4, <1>slugs DEF PreviewFails
      <4>2. p \in Pages
        BY <4>1, <1>pages DEF Pages
      <4>3. Answer(q, "preview", s, p, s, due)
        BY <3>4 DEF PreviewFails
      <4>4. UNCHANGED <<active, file, disk, memo, steady>>
        BY <3>4 DEF PreviewFails
      <4> HIDE DEF s, due, p
      <4> QED BY <4>1, <4>2, <4>3, <4>4, <1>answer
    <3>5. ASSUME NEW s \in Slug, PreviewFromMemo(q, s) PROVE TypeOK'
      <4>1. memo.data \in {Slug, Curated}
        BY <3>5 DEF PreviewFromMemo, Fresh, Memos
      <4> QED BY <3>5, <4>1, <1>listed DEF PreviewFromMemo
    <3>6. ASSUME NEW s \in Slug, PreviewFromDisk(q, s) PROVE TypeOK'
      BY <3>6, <1>listed, <1>memo DEF PreviewFromDisk
    <3>7. ASSUME NEW s \in Slug, PreviewFetches(q, s) PROVE TypeOK'
      BY <3>7, <1>goto DEF PreviewFetches
    <3> QED BY <2>2, <3>1, <3>2, <3>3, <3>4, <3>5, <3>6, <3>7 DEF PreviewStep
  <2>3. ASSUME NEW s \in Slug \cup {Null}, SettingChanges(s) PROVE TypeOK'
    BY <2>3 DEF SettingChanges
  <2>4. CASE Expire
    BY <2>4 DEF Expire, Fresh, Memos
  <2>5. CASE Restart
    BY <2>5 DEF Restart
  <2> QED BY <1>next, <2>1, <2>2, <2>3, <2>4, <2>5 DEF Next
<1>same. CASE UNCHANGED vars
  BY <1>same DEF vars
<1> QED BY <1>next, <1>same

\* Requests leave steady when they are answered, and all of them when the
\* setting changes.
LEMMA SteadyStep == TypeOK /\ SteadyInv /\ [Next]_vars => SteadyInv'
<1> SUFFICES ASSUME TypeOK, SteadyInv, [Next]_vars,
                    NEW x \in steady'
             PROVE  /\ req'[x] \in Requests
                    /\ req'[x].pc \in {"ensure", "html"}
                    /\ req'[x].slug = ActiveSlug'
                    /\ ActiveSlug' # Default
  BY DEF SteadyInv
<1> USE LandingAssumption DEF TypeOK, SteadyInv, Idle, catalogue
<1>slug. ActiveSlug \in Slug
  BY DEF ActiveSlug
<1>reqs. \A pc \in {"ensure", "html", "tree", "preview"}, s \in Slug :
            [pc |-> pc, slug |-> s] \in Requests
  BY DEF Requests
<1>same. active' = active => ActiveSlug' = ActiveSlug
  BY DEF ActiveSlug
<1>1. ASSUME NEW q \in Request, LandingStep(q)
      PROVE  req'[x] \in Requests /\ req'[x].pc \in {"ensure", "html"}
             /\ req'[x].slug = ActiveSlug' /\ ActiveSlug' # Default
  <2>1. CASE RenderDefault(q)
    BY <2>1, <1>same DEF RenderDefault, Answer
  <2>2. CASE Render(q)
    <3>1. CASE x = q
      BY <2>2, <3>1, <1>same, <1>slug, <1>reqs DEF Render, Goto
    <3>2. CASE x # q
      BY <2>2, <3>2, <1>same DEF Render, Goto
    <3> QED BY <3>1, <3>2
  <2>3. CASE Download(q) \/ DownloadFails(q)
    <3>1. /\ Goto(q, "html", req[q].slug)
          /\ UNCHANGED <<active, steady>>
      BY <2>3 DEF Download, DownloadFails
    <3>2. CASE x = q
      <4>1. req[q].slug \in Slug
        BY <3>1, <3>2 DEF Requests
      <4> QED BY <3>1, <3>2, <4>1, <1>same, <1>reqs DEF Goto
    <3>3. CASE x # q
      BY <3>1, <3>3, <1>same DEF Goto
    <3> QED BY <3>2, <3>3
  <2>4. CASE GetActiveHtml(q)
    BY <2>4, <1>same DEF GetActiveHtml, Answer
  <2> QED BY <1>1, <2>1, <2>2, <2>3, <2>4 DEF LandingStep
<1>2. ASSUME NEW q \in Request, PreviewStep(q)
      PROVE  req'[x] \in Requests /\ req'[x].pc \in {"ensure", "html"}
             /\ req'[x].slug = ActiveSlug' /\ ActiveSlug' # Default
  <2>1. UNCHANGED <<active, steady>>
    BY <1>2 DEF PreviewStep, TreeArrives, TreeFails, PreviewArrives, PreviewFails,
                PreviewFromMemo, PreviewFromDisk, PreviewFetches
  <2>2. \E r : req' = [req EXCEPT ![q] = r]
    BY <1>2 DEF PreviewStep, TreeArrives, TreeFails, PreviewArrives, PreviewFails,
                PreviewFromMemo, PreviewFromDisk, PreviewFetches, Listed, Answer, Goto
  <2>3. req[q] = Idle \/ req[q].pc \in {"tree", "preview"}
    BY <1>2 DEF PreviewStep, TreeArrives, TreeFails, PreviewArrives, PreviewFails,
                PreviewFromMemo, PreviewFromDisk, PreviewFetches
  <2>4. x # q
    BY <2>1, <2>3
  <2> QED BY <2>1, <2>2, <2>4, <1>same
<1>3. ASSUME NEW s \in Slug \cup {Null}, SettingChanges(s) PROVE FALSE
  BY <1>3 DEF SettingChanges
<1>4. CASE Expire
  BY <1>4, <1>same DEF Expire
<1>5. CASE Restart
  BY <1>5 DEF Restart
<1>6. CASE UNCHANGED vars
  BY <1>6, <1>same DEF vars
<1> QED BY <1>1, <1>2, <1>3, <1>4, <1>5, <1>6 DEF Next

\* Steps that answer nothing.
LEMMA Silent == answer' = Null => LandingServed' /\ PreviewServed'
  BY DEF LandingServed, PreviewServed

\* An answer whose parts are these satisfies both promises.
LEMMA AnswerServes ==
  ASSUME NEW q, NEW to \in {"landing", "preview"}, NEW a, NEW p, NEW s, NEW due,
         Answer(q, to, a, p, s, due),
         to = "landing" /\ due => s = a /\ p = IF a = Default THEN "ejs" ELSE "whole",
         to = "preview" => p \in {"whole", "400", "502"} /\ (due => p = "whole")
  PROVE  LandingServed' /\ PreviewServed'
<1>1. answer' = [to |-> to, asked |-> a, page |-> p, of |-> s, due |-> due]
  BY DEF Answer
<1>2. /\ answer'.to = to /\ answer'.asked = a /\ answer'.page = p
      /\ answer'.of = s /\ answer'.due = due
  BY <1>1
<1>3. LandingServed'
  BY <1>2 DEF LandingServed
<1>4. PreviewServed'
  BY <1>2 DEF PreviewServed
<1> QED BY <1>3, <1>4

LEMMA ListedServes ==
  ASSUME TypeOK, NEW q \in Request, NEW s \in Slug, NEW data \in {Slug, Curated},
         Listed(q, s, data)
  PROVE  LandingServed' /\ PreviewServed'
<1> DEFINE due == s \in Curated /\ Settled(s)
<1>1. CASE s \notin data /\ Answer(q, "preview", s, "400", s, due)
  <2>1. ~due
    BY <1>1, LandingAssumption
  <2> HIDE DEF due
  <2> QED BY <1>1, <2>1, AnswerServes
<1>2. CASE ReadLocalHtml(s) /\ Answer(q, "preview", s, file[s], s, due)
  <2>1. file[s] = "whole"
    BY <1>2 DEF ReadLocalHtml
  <2> HIDE DEF due
  <2> QED BY <1>2, <2>1, AnswerServes
<1>3. CASE answer' = Null
  BY <1>3, Silent
<1> QED BY <1>1, <1>2, <1>3 DEF Listed

LEMMA ServedStep ==
  IndInv /\ [Next]_vars => LandingServed' /\ PreviewServed'
<1> SUFFICES ASSUME IndInv, [Next]_vars PROVE LandingServed' /\ PreviewServed'
  OBVIOUS
<1> USE LandingAssumption DEF IndInv
<1>slugs. \A q \in Request : req[q] # Idle => req[q].slug \in Slug
  BY DEF TypeOK, Requests
<1>1. ASSUME NEW q \in Request, LandingStep(q) PROVE LandingServed' /\ PreviewServed'
  <2>1. CASE RenderDefault(q)
    BY <2>1, AnswerServes DEF RenderDefault
  <2>2. CASE Render(q) \/ Download(q) \/ DownloadFails(q)
    BY <2>2, Silent DEF Render, Download, DownloadFails
  <2>3. CASE GetActiveHtml(q)
    <3> DEFINE a == req[q].slug
               due == q \in steady /\ Settled(a)
    <3>1. Answer(q, "landing", a, file[Target], Target, due)
      BY <2>3 DEF GetActiveHtml
    <3>2. due => Target = a /\ file[Target] = "whole" /\ a # Default
      BY DEF SteadyInv, Settled, Target, IsCached
    <3> HIDE DEF a, due
    <3> QED BY <3>1, <3>2, AnswerServes
  <2> QED BY <1>1, <2>1, <2>2, <2>3 DEF LandingStep
<1>2. ASSUME NEW q \in Request, PreviewStep(q) PROVE LandingServed' /\ PreviewServed'
  <2>1. CASE TreeArrives(q)
    BY <2>1, <1>slugs, ListedServes DEF TreeArrives, Idle
  <2>2. CASE TreeFails(q)
    BY <2>2, <1>slugs, ListedServes DEF TreeFails, Idle
  <2>3. CASE PreviewArrives(q)
    BY <2>3, AnswerServes DEF PreviewArrives
  <2>4. CASE PreviewFails(q)
    <3> DEFINE s == req[q].slug
               due == s \in Curated /\ Settled(s)
               p == IF ReadLocalHtml(s) THEN file[s] ELSE "502"
    <3>1. Answer(q, "preview", s, p, s, due)
      BY <2>4 DEF PreviewFails
    <3>2. p \in {"whole", "502"} /\ (due => p = "whole")
      BY DEF ReadLocalHtml, Settled
    <3> HIDE DEF s, due, p
    <3> QED BY <3>1, <3>2, AnswerServes
  <2>5. ASSUME NEW s \in Slug, PreviewFromMemo(q, s) PROVE LandingServed' /\ PreviewServed'
    <3>1. memo.data \in {Slug, Curated}
      BY <2>5 DEF PreviewFromMemo, Fresh, Memos, TypeOK
    <3> QED BY <2>5, <3>1, ListedServes DEF PreviewFromMemo
  <2>6. ASSUME NEW s \in Slug, PreviewFromDisk(q, s) PROVE LandingServed' /\ PreviewServed'
    BY <2>6, ListedServes DEF PreviewFromDisk
  <2>7. ASSUME NEW s \in Slug, PreviewFetches(q, s) PROVE LandingServed' /\ PreviewServed'
    BY <2>7, Silent DEF PreviewFetches
  <2> QED BY <1>2, <2>1, <2>2, <2>3, <2>4, <2>5, <2>6, <2>7 DEF PreviewStep
<1>3. ASSUME NEW s \in Slug \cup {Null}, SettingChanges(s)
      PROVE  LandingServed' /\ PreviewServed'
  BY <1>3, Silent DEF SettingChanges
<1>4. CASE Expire \/ Restart
  BY <1>4, Silent DEF Expire, Restart
<1>5. CASE UNCHANGED vars
  BY <1>5 DEF vars, LandingServed, PreviewServed
<1> QED BY <1>1, <1>2, <1>3, <1>4, <1>5 DEF Next

LEMMA InductiveStep == IndInv /\ [Next]_vars => IndInv'
  BY TypeStep, SteadyStep, ServedStep DEF IndInv

\* The inductive invariant holds whatever requests come and downloads do.
THEOREM Inductive == Spec => []IndInv
  BY InitialState, InductiveStep, PTL DEF Spec

\* Templates, catalogue and requests in flight keep their types, whatever a
\* download that was cut short has left on the disk.
THEOREM TypeCorrect == Spec => []TypeOK
<1>1. IndInv => TypeOK
  BY DEF IndInv
<1> QED BY <1>1, Inductive, PTL

\* A landing request that met no change of the setting shows its template.
THEOREM LandingServedAlways == Spec => []LandingServed
<1>1. IndInv => LandingServed
  BY DEF IndInv
<1> QED BY <1>1, Inductive, PTL

\* A preview is complete or an error, and complete for a built-in template that
\* is settled.
THEOREM PreviewServedAlways == Spec => []PreviewServed
<1>1. IndInv => PreviewServed
  BY DEF IndInv
<1> QED BY <1>1, Inductive, PTL

\* What a request that is not waiting for a download does not touch.
LEMMA SettledStep ==
  ASSUME TypeOK, [Next]_vars, NEW s \in Slug, Settled(s)
  PROVE  Settled(s)'
<1> USE DEF TypeOK, Idle, catalogue
<1> DEFINE W == [pc |-> "ensure", slug |-> s]
<1>0. file[s] = "whole" /\ \A q \in Request : req[q] # W
  BY DEF Settled, Waiting
<1> SUFFICES file'[s] = "whole" /\ \A q \in Request : req'[q] # W
  BY DEF Settled, Waiting
<1>1. ASSUME NEW q \in Request, LandingStep(q)
      PROVE  file'[s] = "whole" /\ \A r \in Request : req'[r] # W
  <2>1. CASE RenderDefault(q)
    BY <2>1, <1>0 DEF RenderDefault, Answer
  <2>2. CASE Render(q)
    BY <2>2, <1>0 DEF Render, Goto, IsCached
  <2>3. CASE Download(q)
    <3>1. req[q] \in Requests
      BY <2>3 DEF Download
    <3>2. req[q].slug # s
      BY <2>3, <3>1, <1>0 DEF Download, Requests
    <3> QED BY <2>3, <3>2, <1>0 DEF Download, Goto
  <2>4. CASE DownloadFails(q)
    BY <2>4, <1>0 DEF DownloadFails, Goto
  <2>5. CASE GetActiveHtml(q)
    BY <2>5, <1>0 DEF GetActiveHtml, Answer
  <2> QED BY <1>1, <2>1, <2>2, <2>3, <2>4, <2>5 DEF LandingStep
<1>2. ASSUME NEW q \in Request, PreviewStep(q)
      PROVE  file'[s] = "whole" /\ \A r \in Request : req'[r] # W
  <2>1. UNCHANGED file
    BY <1>2 DEF PreviewStep, TreeArrives, TreeFails, PreviewArrives, PreviewFails,
                PreviewFromMemo, PreviewFromDisk, PreviewFetches
  <2>2. \E r : req' = [req EXCEPT ![q] = r] /\ r # W
    BY <1>2 DEF PreviewStep, TreeArrives, TreeFails, PreviewArrives, PreviewFails,
                PreviewFromMemo, PreviewFromDisk, PreviewFetches, Listed, Answer, Goto
  <2> QED BY <2>1, <2>2, <1>0
<1>3. ASSUME NEW t \in Slug \cup {Null}, SettingChanges(t)
      PROVE  file'[s] = "whole" /\ \A r \in Request : req'[r] # W
  BY <1>3, <1>0 DEF SettingChanges
<1>4. CASE Expire
  BY <1>4, <1>0 DEF Expire
<1>5. CASE Restart
  BY <1>5, <1>0 DEF Restart
<1>6. CASE UNCHANGED vars
  BY <1>6, <1>0 DEF vars
<1> QED BY <1>1, <1>2, <1>3, <1>4, <1>5, <1>6 DEF Next

\* Neither a failing fetch nor a restart brings the built-in catalogue back.
LEMMA CatalogueStep ==
  ASSUME TypeOK, [Next]_vars, CatalogueStored, Served = Slug
  PROVE  CatalogueStored' /\ Served' = Slug
<1> USE DEF TypeOK, Idle, catalogue
<1>0. disk = "whole" /\ \A q \in Request, s \in Slug : req[q] # [pc |-> "tree", slug |-> s]
  BY DEF CatalogueStored, Waiting
<1>tree. \A q \in Request : req[q].pc # "tree"
  <2> SUFFICES ASSUME NEW q \in Request, req[q].pc = "tree" PROVE FALSE
    OBVIOUS
  <2>1. req[q] \in Requests
    OBVIOUS
  <2> QED BY <2>1, <1>0 DEF Requests
<1>data. Fresh => memo.data = Slug
  BY DEF Served
<1> SUFFICES /\ disk' = "whole"
             /\ \A q \in Request, s \in Slug : req'[q] # [pc |-> "tree", slug |-> s]
             /\ Fresh' => memo'.data = Slug
  BY DEF CatalogueStored, Waiting, Served, ReadDiskCache
<1>1. ASSUME NEW q \in Request, LandingStep(q)
      PROVE  /\ disk' = "whole"
             /\ \A r \in Request, s \in Slug : req'[r] # [pc |-> "tree", slug |-> s]
             /\ Fresh' => memo'.data = Slug
  <2>1. UNCHANGED <<disk, memo>>
    BY <1>1 DEF LandingStep, RenderDefault, Render, Download, DownloadFails, GetActiveHtml
  <2>2. \E r : req' = [req EXCEPT ![q] = r] /\ r.pc # "tree"
    BY <1>1 DEF LandingStep, RenderDefault, Render, Download, DownloadFails,
                GetActiveHtml, Answer, Goto
  <2> QED BY <2>1, <2>2, <1>0, <1>data DEF Fresh
<1>2. ASSUME NEW q \in Request, PreviewStep(q)
      PROVE  /\ disk' = "whole"
             /\ \A r \in Request, s \in Slug : req'[r] # [pc |-> "tree", slug |-> s]
             /\ Fresh' => memo'.data = Slug
  <2>1. UNCHANGED disk
    BY <1>2, <1>tree DEF PreviewStep, TreeArrives, TreeFails, PreviewArrives, PreviewFails,
                PreviewFromMemo, PreviewFromDisk, PreviewFetches
  <2>2. memo' = memo \/ memo' = Memo(Slug)
    BY <1>2, <1>tree DEF PreviewStep, TreeArrives, TreeFails, PreviewArrives, PreviewFails,
                PreviewFromMemo, PreviewFromDisk, PreviewFetches
  <2>3. \E r : req' = [req EXCEPT ![q] = r] /\ r.pc # "tree"
    BY <1>2, <1>tree, <1>0 DEF PreviewStep, TreeArrives, TreeFails, PreviewArrives,
                PreviewFails, PreviewFromMemo, PreviewFromDisk, PreviewFetches,
                ReadDiskCache, Listed, Answer, Goto
  <2> QED BY <2>1, <2>2, <2>3, <1>0, <1>data DEF Fresh, Memo
<1>3. ASSUME NEW t \in Slug \cup {Null}, SettingChanges(t)
      PROVE  /\ disk' = "whole"
             /\ \A r \in Request, s \in Slug : req'[r] # [pc |-> "tree", slug |-> s]
             /\ Fresh' => memo'.data = Slug
  BY <1>3, <1>0, <1>data DEF SettingChanges, Fresh
<1>4. CASE Expire
  BY <1>4, <1>0, <1>data DEF Expire, Fresh, Memos
<1>5. CASE Restart
  BY <1>5, <1>0 DEF Restart, Fresh
<1>6. CASE UNCHANGED vars
  BY <1>6, <1>0, <1>data DEF vars, Fresh
<1> QED BY <1>1, <1>2, <1>3, <1>4, <1>5, <1>6 DEF Next

\* A settled template stays settled, and the whole catalogue, once stored and
\* served, stays stored and served.
THEOREM StoredStaysAlways == Spec => StoredStays
<1> DEFINE Kept == /\ \A s \in Slug : Settled(s) => Settled(s)'
                   /\ CatalogueStored /\ Served = Slug => (CatalogueStored /\ Served = Slug)'
<1>1. IndInv /\ [Next]_vars => [Kept]_vars
  BY SettledStep, CatalogueStep DEF IndInv
<1> QED BY <1>1, Inductive, PTL DEF Spec, StoredStays

=============================================================================
