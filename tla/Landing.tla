------------------------------ MODULE Landing ------------------------------
(***************************************************************************)
(* The public landing page (HomeController, FeTemplateService) and the     *)
(* catalogue of its templates with their preview (FeCatalogService), which *)
(* keep what they download in one directory and, for the catalogue, in     *)
(* memory.                                                                 *)
(*                                                                         *)
(* One process owns the directory.  It is single-threaded, so a file is    *)
(* written in one step, but a write that fails, or a process that stops in *)
(* the middle of one, leaves a part of the file.  Which template is active *)
(* is what SettingCacheService.get answers; here it changes at any time.   *)
(***************************************************************************)

CONSTANTS
    Slug,       \* the templates: names isValidSlug accepts
    Default,    \* DEFAULT_FE_TEMPLATE, rendered by EJS
    Curated,    \* FE_TEMPLATES, the catalogue built in
    Request,    \* requests in flight
    Null        \* JavaScript's null; a setting that is no slug; no answer

ASSUME LandingAssumption ==
    Default \in Curated /\ Curated \subseteq Slug /\ Null \notin Slug

VARIABLES
    active,     \* setting.fe_template as settingCache.get answers it
    file,       \* per slug: what its file in FE_TEMPLATE_DIR holds
    disk,       \* what FE_TEMPLATE_CATALOG_FILE holds
    memo,       \* FeCatalogService.memo: a catalogue, and whether in its TTL
    req,        \* requests in flight
    answer,     \* what the last step answered, if anything
    steady      \* history: requests that met no change of the active template

catalogue == <<disk, memo>>
vars == <<active, file, catalogue, req, answer, steady>>

Written == {"none", "part", "whole"}
Memos == [data: {Slug, Curated}, fresh: BOOLEAN]
Idle == [pc |-> "idle"]
(***************************************************************************)
(* Where a request waits.  Landing: "ensure" for the download of its       *)
(* template, "html" for the second look at the setting.  Preview: "tree"   *)
(* for the catalogue, "preview" for the template.                          *)
(***************************************************************************)
Requests == [pc: {"ensure", "html", "tree", "preview"}, slug: Slug]
Pages == Written \cup {"ejs", "400", "502"}
Answers == [to: {"landing", "preview"}, asked: Slug, page: Pages, of: Slug, due: BOOLEAN]

TypeOK ==
    /\ active \in Slug \cup {Null}
    /\ file \in [Slug -> Written]
    /\ disk \in Written
    /\ memo \in Memos \cup {Null}
    /\ req \in [Request -> Requests \cup {Idle}]
    /\ answer \in Answers \cup {Null}
    /\ steady \subseteq Request

-----------------------------------------------------------------------------
\* Waiting(pc, s): somebody waits at pc for s.
Waiting(pc, s) == \E q \in Request : req[q] = [pc |-> pc, slug |-> s]

\* A template that is all there and that nobody is downloading.
Settled(s) == file[s] = "whole" /\ ~Waiting("ensure", s)

Goto(q, pc, s) == req' = [req EXCEPT ![q] = [pc |-> pc, slug |-> s]]

\* The response goes out: page, of template s, to a request about `asked`.
Answer(q, to, asked, page, s, due) ==
    /\ req' = [req EXCEPT ![q] = Idle]
    /\ answer' = [to |-> to, asked |-> asked, page |-> page, of |-> s, due |-> due]

\* FeTemplateService.getActiveSlug, once the setting is there.
ActiveSlug == IF active \in Slug THEN active ELSE Default

\* FeTemplateService.isCached: existsSync, whatever is in the file.
IsCached_Never(s) == FALSE                       \* mutant: ensure always downloads
IsCached(s) == file[s] # "none"

\* FeCatalogService.readLocalHtml: a file that ends as HTML does.
ReadLocalHtml_Unchecked(s) == file[s] # "none"   \* mutant: the test for </html> left out
ReadLocalHtml(s) == file[s] = "whole"

\* The memo within CATALOG_TTL_MS.
Fresh_Forever == memo # Null                     \* mutant: memo.at not looked at
Fresh == memo # Null /\ memo.fresh

\* readDiskCache has something to answer: a file cut short does not parse.
ReadDiskCache == disk = "whole"

\* What list puts in the memo.
Memo_Undated(data) == [data |-> data]            \* mutant: memo.at not set
Memo(data) == [data |-> data, fresh |-> TRUE]

-----------------------------------------------------------------------------
(***************************************************************************)
(* HomeController.renderLanding.                                           *)
(***************************************************************************)
RenderDefault(q) ==
    /\ req[q] = Idle
    /\ ActiveSlug = Default
    /\ Answer(q, "landing", Default, "ejs", Default, TRUE)
    /\ UNCHANGED <<active, file, catalogue, steady>>

\* Any other template: ensure returns at once if its file is there.
Render(q) ==
    /\ req[q] = Idle
    /\ ActiveSlug # Default
    /\ Goto(q, IF IsCached(ActiveSlug) THEN "html" ELSE "ensure", ActiveSlug)
    /\ steady' = steady \cup {q}
    /\ answer' = Null
    /\ UNCHANGED <<active, file, catalogue>>

\* The download is valid; writeFileSync writes all of it, or fails on the way.
Download(q) ==
    /\ req[q].pc = "ensure"
    /\ \E w \in {"part", "whole"} : file' = [file EXCEPT ![req[q].slug] = w]
    /\ Goto(q, "html", req[q].slug)
    /\ answer' = Null
    /\ UNCHANGED <<active, catalogue, steady>>

\* ensure throws before it writes; renderLanding catches it.
DownloadFails(q) ==
    /\ req[q].pc = "ensure"
    /\ Goto(q, "html", req[q].slug)
    /\ answer' = Null
    /\ UNCHANGED <<active, file, catalogue, steady>>

\* FeTemplateService.getActiveHtml: the setting is read anew.  Without a file
\* (page "none") it is a placeholder that is no template at all.
Target_Curated == IF ActiveSlug \in Curated THEN ActiveSlug ELSE Default  \* mutant: asks FE_TEMPLATES
Target == IF IsCached(ActiveSlug) THEN ActiveSlug ELSE Default
GetActiveHtml(q) ==
    /\ req[q].pc = "html"
    /\ Answer(q, "landing", req[q].slug, file[Target], Target,
              q \in steady /\ Settled(req[q].slug))
    /\ steady' = steady \ {q}
    /\ UNCHANGED <<active, file, catalogue>>

-----------------------------------------------------------------------------
(***************************************************************************)
(* FeCatalogService.previewHtml.  Its first half, list, is also what       *)
(* paginate, categories and has wait for.                                  *)
(***************************************************************************)

\* list has answered with the catalogue `data`.
Listed(q, s, data) ==
    LET due == s \in Curated /\ Settled(s) IN
    \/ s \notin data /\ Answer(q, "preview", s, "400", s, due)
    \/ s \in data /\ ReadLocalHtml(s) /\ Answer(q, "preview", s, file[s], s, due)
    \/ s \in data /\ ~ReadLocalHtml(s) /\ Goto(q, "preview", s) /\ answer' = Null

PreviewFromMemo(q, s) ==
    /\ req[q] = Idle
    /\ Fresh
    /\ Listed(q, s, memo.data)
    /\ UNCHANGED <<active, file, catalogue, steady>>

\* The copy on disk is taken for as good as new.
PreviewFromDisk(q, s) ==
    /\ req[q] = Idle
    /\ ~Fresh
    /\ ReadDiskCache
    /\ memo' = Memo(Slug)
    /\ Listed(q, s, Slug)
    /\ UNCHANGED <<active, file, disk, steady>>

PreviewFetches(q, s) ==
    /\ req[q] = Idle
    /\ ~Fresh
    /\ ~ReadDiskCache
    /\ Goto(q, "tree", s)
    /\ answer' = Null
    /\ UNCHANGED <<active, file, catalogue, steady>>

\* The tree arrives and is kept, in memory and, if the write succeeds, on disk.
TreeArrives(q) ==
    /\ req[q].pc = "tree"
    /\ memo' = Memo(Slug)
    /\ disk' \in {"part", "whole", disk}
    /\ Listed(q, req[q].slug, Slug)
    /\ UNCHANGED <<active, file, steady>>

\* No answer in time, or none with a landing in it: the built-in catalogue.
TreeFails(q) ==
    /\ req[q].pc = "tree"
    /\ memo' = Memo(Curated)
    /\ Listed(q, req[q].slug, Curated)
    /\ UNCHANGED <<active, file, disk, steady>>

PreviewArrives(q) ==
    /\ req[q].pc = "preview"
    /\ Answer(q, "preview", req[q].slug, "whole", req[q].slug, FALSE)
    /\ UNCHANGED <<active, file, catalogue, steady>>

\* The local file once more: a landing request may have stored it meanwhile.
PreviewFails(q) ==
    LET s == req[q].slug IN
    /\ req[q].pc = "preview"
    /\ Answer(q, "preview", s, IF ReadLocalHtml(s) THEN file[s] ELSE "502", s,
              s \in Curated /\ Settled(s))
    /\ UNCHANGED <<active, file, catalogue, steady>>

-----------------------------------------------------------------------------
\* Another setting reaches this process (see Settings).
SettingChanges(s) ==
    /\ active # s
    /\ active' = s
    /\ steady' = {}
    /\ answer' = Null
    /\ UNCHANGED <<file, catalogue, req>>

\* Six hours pass.
Expire ==
    /\ Fresh
    /\ memo' = [memo EXCEPT !.fresh = FALSE]
    /\ answer' = Null
    /\ UNCHANGED <<active, file, disk, req, steady>>

\* The process stops and starts again; the directory stays.
Restart ==
    /\ req' = [q \in Request |-> Idle]
    /\ memo' = Null
    /\ steady' = {}
    /\ answer' = Null
    /\ UNCHANGED <<active, file, disk>>

\* A fresh installation: the directory is empty but for .gitkeep.
Init ==
    /\ active = Default
    /\ file = [s \in Slug |-> "none"]
    /\ disk = "none"
    /\ memo = Null
    /\ req = [q \in Request |-> Idle]
    /\ answer = Null
    /\ steady = {}

LandingStep(q) ==
    RenderDefault(q) \/ Render(q) \/ Download(q) \/ DownloadFails(q) \/ GetActiveHtml(q)

PreviewStep(q) ==
    \/ TreeArrives(q) \/ TreeFails(q) \/ PreviewArrives(q) \/ PreviewFails(q)
    \/ \E s \in Slug : PreviewFromMemo(q, s) \/ PreviewFromDisk(q, s) \/ PreviewFetches(q, s)

Next ==
    \/ \E q \in Request : LandingStep(q) \/ PreviewStep(q)
    \/ \E s \in Slug \cup {Null} : SettingChanges(s)
    \/ Expire \/ Restart

Spec == Init /\ [][Next]_vars

\* Time passes.
FairSpec == Spec /\ WF_vars(Expire)

-----------------------------------------------------------------------------
\* What list answers when it need not fetch.
Served == IF Fresh THEN memo.data ELSE IF ReadDiskCache THEN Slug ELSE {}

\* The whole catalogue is on disk and nobody fetches it.
CatalogueStored == disk = "whole" /\ \A s \in Slug : ~Waiting("tree", s)

\* A landing request whose template was settled and during which the setting did
\* not change is answered with that template, all of it, although renderLanding
\* and getActiveHtml read the setting separately.
LandingServed ==
    answer # Null /\ answer.to = "landing" /\ answer.due =>
        /\ answer.of = answer.asked
        /\ answer.page = IF answer.asked = Default THEN "ejs" ELSE "whole"

\* A preview is never a part of a template, and for a built-in template that is
\* settled it is there whatever the network does and whichever catalogue is used.
PreviewServed ==
    answer # Null /\ answer.to = "preview" =>
        /\ answer.page \in {"whole", "400", "502"}
        /\ answer.due => answer.page = "whole"

\* What is on disk whole stays that way and in use: a template with no other
\* download of it under way, whatever later requests, failed writes and restarts
\* do; the catalogue once it is served, although fetches of it may fail.
StoredStays ==
    [][/\ \A s \in Slug : Settled(s) => Settled(s)'
       /\ CatalogueStored /\ Served = Slug => (CatalogueStored /\ Served = Slug)']_vars

\* When the whole catalogue is stored, a built-in one that a failed fetch left in
\* memory gives way to it: within the time to live.
CatalogueRecovers == CatalogueStored ~> Served = Slug

-----------------------------------------------------------------------------
\* The inductive invariant behind LandingServed: a landing request that met no
\* change of the setting is about what is still the active template.
SteadyInv ==
    \A q \in steady :
        /\ req[q] \in Requests
        /\ req[q].pc \in {"ensure", "html"}
        /\ req[q].slug = ActiveSlug
        /\ ActiveSlug # Default

IndInv == TypeOK /\ SteadyInv /\ LandingServed /\ PreviewServed

=============================================================================
