------------------------------ MODULE Branding ------------------------------
(***************************************************************************)
(* The watermark of one account: the API's branding service, its table and *)
(* the branding page of the dashboard.                                     *)
(*                                                                         *)
(* A request reads the active watermark, puts what it does not change of   *)
(* it into a new one, and writes it in a transaction that deactivates the  *)
(* active rows and inserts its own.  Reading and writing are not one step, *)
(* and nothing in the table keeps two rows from being active: the UPDATE   *)
(* of a transaction sees the rows committed when it began, waits for those *)
(* another transaction holds, and then skips the ones that one has         *)
(* deactivated.  An UPDATE locks its rows in one step here.                *)
(*                                                                         *)
(* The page saves position and opacity, which are one value here.  Its     *)
(* upload of an asset is sent without a token or a body and is refused;    *)
(* assets are uploaded by other clients of the API.                        *)
(*                                                                         *)
(* Bound: MaxRequests requests that write.                                 *)
(***************************************************************************)
EXTENDS Naturals

CONSTANTS Slots,        \* requests that may run at once
          Configs,      \* positions and opacities a user chooses
          Offered,      \* the one the form begins with
          Standard,     \* the one UploadAsset gives a new watermark
          Blank,        \* no position: a row that could not be read
          MaxRequests,  \* bound on the requests
          None          \* no value

ASSUME ConfigsAssumption == /\ {Offered, Standard} \subseteq Configs
                            /\ Blank \notin Configs /\ None \notin Configs \cup {Blank}
ASSUME BoundsAssumption == MaxRequests \in Nat

Row == [id : 1..MaxRequests, cfg : Configs \cup {Blank}, asset : BOOLEAN]
Request == [id : 1..MaxRequests, kind : {"config", "asset"}, fromPage : BOOLEAN,
            at : {"asked", "ready", "begin", "wait", "held"},
            cfg : Configs \cup {Blank}, asset : BOOLEAN, rows : SUBSET Row]

ASSUME NoneAssumption == None \notin Request

VARIABLES
  active,      \* the active rows of watermark_metadata
  stored,      \* the object watermarks/<account>/logo exists
  req,         \* per slot: a request that writes, or None
  asked,       \* requests so far
  form,        \* the page: position and opacity of the form
  isPro,       \* the page: whether the plan is pro, as far as a load said
  load,        \* the page: where loadData is, and the configuration answered
  isSaving,    \* the page: a save is on its way
  preview,     \* the page shows an asset as uploaded
  wanted,      \* history: the watermark if each request were one step
  overlapped,  \* history: two requests have run at once
  misread      \* history: an upload has taken a failed read for a row

table == <<active, stored, asked, wanted, overlapped, misread>>
page == <<form, isPro, load, isSaving, preview>>
vars == <<table, req, page>>

TypeOK ==
  /\ active \in SUBSET Row /\ stored \in BOOLEAN
  /\ req \in [Slots -> Request \cup {None}] /\ asked \in 0..MaxRequests
  /\ form \in Configs /\ isPro \in {"unknown", "yes", "no"}
  /\ load \in [at : {"asked", "locked", "row", "over"}, cfg : Configs \cup {Blank}]
  /\ isSaving \in BOOLEAN /\ preview \in BOOLEAN
  /\ wanted \in [cfg : Configs \cup {Blank, None}, asset : BOOLEAN]
  /\ overlapped \in BOOLEAN /\ misread \in BOOLEAN
-----------------------------------------------------------------------------
Running(s) == req[s] # None
At(s, where) == Running(s) /\ req[s].at = where

(* A request reaches the API in a free slot.                               *)
Ask(kind, at, cfg, fromPage) ==
  /\ asked < MaxRequests /\ asked' = asked + 1
  /\ \E s \in Slots :
       /\ ~Running(s)
       /\ req' = [req EXCEPT ![s] =
            [id |-> asked + 1, kind |-> kind, fromPage |-> fromPage, at |-> at,
             cfg |-> cfg, asset |-> kind = "asset", rows |-> {}]]
  /\ overlapped' = (overlapped \/ \E s \in Slots : Running(s))
  /\ UNCHANGED <<active, stored, wanted, misread>>

(* handleSave, up to its request: the button is disabled while one runs.   *)
HandleSave ==
  /\ isPro # "no" /\ ~isSaving
  /\ Ask("config", "ready", form, TRUE)
  /\ isSaving' = TRUE
  /\ UNCHANGED <<form, isPro, load, preview>>

(* Other clients of the account.                                           *)
Update == /\ \E c \in Configs : Ask("config", "ready", c, FALSE)
          /\ UNCHANGED page

\* Mutant: the row is written before the object.
UploadAssetRowFirst == Ask("asset", "ready", Standard, FALSE) /\ UNCHANGED page

UploadAsset == Ask("asset", "asked", Standard, FALSE) /\ UNCHANGED page

(* UploadAsset stores the object first.                                    *)
PutObject(s) ==
  /\ At(s, "asked")
  /\ stored' = TRUE
  /\ req' = [req EXCEPT ![s].at = "ready"]
  /\ UNCHANGED <<active, asked, wanted, overlapped, misread, page>>

\* Mutant: a configuration is saved without the asset of the row it replaces.
GetActiveForgets(s) ==
  /\ At(s, "ready")
  /\ \/ active = {} /\ req' = [req EXCEPT ![s] = [@ EXCEPT !.at = "begin"]]
     \/ \E r \in active :
          req' = [req EXCEPT ![s] =
            IF req[s].kind = "asset" THEN [@ EXCEPT !.at = "begin", !.cfg = r.cfg]
                                     ELSE [@ EXCEPT !.at = "begin"]]
  /\ UNCHANGED <<table, page>>

(* GetActiveWatermark: any of the active rows, or none.                    *)
GetActiveWatermark(s) ==
  /\ At(s, "ready")
  /\ \/ active = {} /\ req' = [req EXCEPT ![s] = [@ EXCEPT !.at = "begin"]]
     \/ \E r \in active :
          req' = [req EXCEPT ![s] =
            IF req[s].kind = "asset" THEN [@ EXCEPT !.at = "begin", !.cfg = r.cfg]
                                     ELSE [@ EXCEPT !.at = "begin", !.asset = r.asset]]
  /\ UNCHANGED <<table, page>>

(* It fails with an empty row beside the error, which UploadAsset drops.   *)
GetActiveFails(s) ==
  /\ At(s, "ready") /\ req[s].kind = "asset"
  /\ req' = [req EXCEPT ![s] = [@ EXCEPT !.at = "begin", !.cfg = Blank]]
  /\ misread' = TRUE
  /\ UNCHANGED <<active, stored, asked, wanted, overlapped, page>>

(* Upsert begins: its UPDATE looks at the rows committed by now.           *)
UpsertBegins(s) ==
  /\ At(s, "begin")
  /\ req' = [req EXCEPT ![s] = [@ EXCEPT !.at = "wait", !.rows = active]]
  /\ UNCHANGED <<table, page>>

(* It waits for the transactions that hold some of them, and locks those   *)
(* that are still active.                                                  *)
Deactivate(s) ==
  /\ At(s, "wait")
  /\ \A t \in Slots \ {s} : At(t, "held") => req[t].rows \cap req[s].rows = {}
  /\ req' = [req EXCEPT ![s] = [@ EXCEPT !.at = "held", !.rows = req[s].rows \cap active]]
  /\ UNCHANGED <<table, page>>

(* A request ends; if the page sent it, the page's save ends with it.      *)
Ends(s) ==
  /\ req' = [req EXCEPT ![s] = None]
  /\ isSaving' = (isSaving /\ ~req[s].fromPage)
  /\ UNCHANGED <<form, isPro, load, preview>>

(* What a request makes of the watermark when it is one step: it changes   *)
(* its own part and keeps the other.                                       *)
Applied(q) ==
  IF q.kind = "config" THEN [cfg |-> q.cfg, asset |-> wanted.asset]
  ELSE [cfg |-> IF wanted.cfg = None THEN Standard ELSE wanted.cfg, asset |-> TRUE]

(* The row is inserted and the transaction commits.                        *)
Commit(s) ==
  /\ At(s, "held")
  /\ active' = (active \ req[s].rows) \cup
               {[id |-> req[s].id, cfg |-> req[s].cfg, asset |-> req[s].asset]}
  /\ wanted' = Applied(req[s])
  /\ Ends(s)
  /\ UNCHANGED <<stored, asked, overlapped, misread>>

\* Mutant: only a successful save enables the button again.
FailKeepsSaving(s) ==
  /\ Running(s)
  /\ req' = [req EXCEPT ![s] = None]
  /\ UNCHANGED <<table, page>>

(* The plan is not pro, a statement fails, or the process dies: the        *)
(* transaction is rolled back.                                             *)
Fail(s) ==
  /\ Running(s)
  /\ Ends(s)
  /\ UNCHANGED table

(* The page's connection breaks; the request may go on without it.         *)
GiveUp(s) ==
  /\ Running(s) /\ req[s].fromPage
  /\ req' = [req EXCEPT ![s] = [@ EXCEPT !.fromPage = FALSE]]
  /\ isSaving' = FALSE
  /\ UNCHANGED <<table, form, isPro, load, preview>>
-----------------------------------------------------------------------------
(* The page is mounted again, with a form of its own and a new load.       *)
Mount ==
  /\ form' = Offered /\ isPro' = "unknown" /\ isSaving' = FALSE
  /\ load' = [at |-> "asked", cfg |-> Offered]
  /\ preview' = FALSE
  /\ req' = [s \in Slots |-> IF Running(s) THEN [req[s] EXCEPT !.fromPage = FALSE] ELSE None]
  /\ UNCHANGED table

(* loadData: refused to plans other than pro, an active row, or nothing.   *)
LoadServed ==
  /\ load.at = "asked"
  /\ \/ load' = [load EXCEPT !.at = "locked"]
     \/ \E r \in active : load' = [at |-> "row", cfg |-> r.cfg]
     \/ load' = [load EXCEPT !.at = "over"]
  /\ UNCHANGED <<table, req, form, isPro, isSaving, preview>>

(* A row overwrites the form, also what was changed in it meanwhile.       *)
LoadAnswered ==
  /\ load.at \in {"locked", "row"}
  /\ isPro' = IF load.at = "row" THEN "yes" ELSE "no"
  /\ form' = IF load.at = "row" /\ load.cfg # Blank THEN load.cfg ELSE form
  /\ load' = [load EXCEPT !.at = "over"]
  /\ UNCHANGED <<table, req, isSaving, preview>>

Edit ==
  /\ isPro # "no"
  /\ form' \in Configs \ {form}
  /\ UNCHANGED <<table, req, isPro, load, isSaving, preview>>

(* handleFileUpload: the request is refused, which is not looked at; after *)
(* a second the file is shown as uploaded, unless the request has failed.  *)
HandleFileUpload ==
  /\ isPro # "no"
  /\ preview' = TRUE
  /\ UNCHANGED <<table, req, form, isPro, load, isSaving>>

BrandingView == IF isPro = "no" THEN "upgrade" ELSE "editor"
-----------------------------------------------------------------------------
Init ==
  /\ active = {} /\ stored = FALSE /\ req = [s \in Slots |-> None] /\ asked = 0
  /\ form = Offered /\ isPro = "unknown" /\ load = [at |-> "asked", cfg |-> Offered]
  /\ isSaving = FALSE /\ preview = FALSE
  /\ wanted = [cfg |-> None, asset |-> FALSE]
  /\ overlapped = FALSE /\ misread = FALSE

Next ==
  \/ HandleSave \/ Update \/ UploadAsset
  \/ \E s \in Slots : \/ PutObject(s) \/ GetActiveWatermark(s) \/ GetActiveFails(s)
                      \/ UpsertBegins(s) \/ Deactivate(s) \/ Commit(s) \/ Fail(s) \/ GiveUp(s)
  \/ Mount \/ LoadServed \/ LoadAnswered \/ Edit \/ HandleFileUpload

Spec == Init /\ [][Next]_vars

(* A request that can go on does.                                          *)
Step(s) == GetActiveWatermark(s) \/ UpsertBegins(s) \/ Deactivate(s) \/ Commit(s)
FairSpec == Spec /\ \A s \in Slots : WF_vars(Step(s))
-----------------------------------------------------------------------------
\* Requests that do not overlap have the effect of requests run one at a time:
\* one active watermark, with the configuration saved last and with the asset
\* once one was uploaded; what a request does not change it does not lose.
LikeOneAtATime ==
  ~overlapped /\ ~misread =>
    IF wanted.cfg = None THEN active = {}
    ELSE \E r \in active : active = {r} /\ r.cfg = wanted.cfg /\ r.asset = wanted.asset

\* However requests overlap and fail, a row that names the asset never points at
\* an object that was not stored.
AssetIsStored == \A r \in active : r.asset => stored

\* Requests that carry the asset have it stored.
StoreInv ==
  /\ AssetIsStored
  /\ \A s \in Slots : Running(s) /\ req[s].asset /\ req[s].at # "asked" => stored

\* While no two requests have run at once, the one that runs replaces all rows.
TurnsInv ==
  ~overlapped =>
    /\ \A s, t \in Slots : Running(s) /\ Running(t) => s = t
    /\ \A s \in Slots : Running(s) /\ req[s].at \in {"wait", "held"} => req[s].rows = active

\* What it is to write is the watermark it makes as one step.
MergeInv ==
  /\ wanted.cfg = None => ~wanted.asset
  /\ LikeOneAtATime
  /\ \A s \in Slots : Running(s) =>
       /\ req[s].kind = "asset" => req[s].asset
       /\ req[s].kind = "asset" /\ req[s].at \in {"asked", "ready"} => req[s].cfg = Standard
       /\ req[s].kind = "config" => req[s].cfg # Blank
       /\ req[s].kind = "config" /\ req[s].at \in {"asked", "ready"} => ~req[s].asset
       /\ ~overlapped /\ ~misread /\ req[s].at \in {"begin", "wait", "held"} =>
            req[s].cfg = Applied(req[s]).cfg /\ req[s].asset = Applied(req[s]).asset

\* The inductive invariant.
IInv == TypeOK /\ StoreInv /\ TurnsInv /\ MergeInv

\* The Save button does not stay disabled: a transaction that waits for another
\* one's rows gets them.
SavingEnds == isSaving ~> ~isSaving
=============================================================================
