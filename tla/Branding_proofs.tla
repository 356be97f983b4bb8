--------------------------- MODULE Branding_proofs ---------------------------
(***************************************************************************)
(* The invariant of Branding is inductive, for any number of requests at   *)
(* once; requests that take turns lose nothing of the watermark.  One      *)
(* lemma per part of the invariant, one step per action.                   *)
(***************************************************************************)
EXTENDS Branding, TLAPS

(* The steps of the page that leave the table and the requests alone.        *)
PageOnly == LoadServed \/ LoadAnswered \/ Edit \/ HandleFileUpload

LEMMA PageOnlyKeeps == PageOnly => UNCHANGED <<table, req>>
  BY DEF PageOnly, LoadServed, LoadAnswered, Edit, HandleFileUpload

(* A new request comes from the page or from another client.                 *)
LEMMA NewRequest ==
  ASSUME TypeOK, HandleSave \/ Update \/ UploadAsset
  PROVE \E s \in Slots, q \in Request :
          /\ ~Running(s) /\ req' = [req EXCEPT ![s] = q]
          /\ q.at = (IF q.kind = "asset" THEN "asked" ELSE "ready")
          /\ q.kind = "asset" => q.cfg = Standard
          /\ q.cfg \in Configs /\ q.asset = (q.kind = "asset") /\ q.rows = {}
          /\ asked' \in 0..MaxRequests
          /\ overlapped' = (overlapped \/ \E t \in Slots : Running(t))
          /\ UNCHANGED <<active, stored, wanted, misread>>
<1> DEFINE new(kind, at, cfg, fromPage) ==
      [id |-> asked + 1, kind |-> kind, fromPage |-> fromPage, at |-> at,
       cfg |-> cfg, asset |-> kind = "asset", rows |-> {}]
<1>1. asked + 1 \in 1..MaxRequests /\ asked' \in 0..MaxRequests
  <2>1. asked < MaxRequests /\ asked' = asked + 1
    BY Zenon DEF HandleSave, Update, UploadAsset, Ask
  <2> QED
    BY <2>1, BoundsAssumption DEF TypeOK
<1>2. /\ overlapped' = (overlapped \/ \E t \in Slots : Running(t))
      /\ UNCHANGED <<active, stored, wanted, misread>>
  BY DEF HandleSave, Update, UploadAsset, Ask
<1>3. \E s \in Slots, cfg \in Configs, fromPage \in BOOLEAN :
        /\ ~Running(s)
        /\ \/ req' = [req EXCEPT ![s] = new("config", "ready", cfg, fromPage)]
           \/ req' = [req EXCEPT ![s] = new("asset", "asked", Standard, fromPage)]
  <2>1. CASE HandleSave
    <3>1. \E s \in Slots : ~Running(s) /\ req' = [req EXCEPT ![s] = new("config", "ready", form, TRUE)]
      BY <2>1, Zenon DEF HandleSave, Ask
    <3> HIDE DEF new
    <3> QED
      BY <3>1 DEF TypeOK
  <2>2. CASE Update
    BY <2>2 DEF Update, Ask
  <2>3. CASE UploadAsset
    BY <2>3, ConfigsAssumption DEF UploadAsset, Ask
  <2> QED
    BY <2>1, <2>2, <2>3
<1>4. \A cfg \in Configs, fromPage \in BOOLEAN :
        new("config", "ready", cfg, fromPage) \in Request /\ new("asset", "asked", Standard, fromPage) \in Request
  BY <1>1, ConfigsAssumption DEF Request
<1> QED
  BY <1>1, <1>2, <1>3, <1>4, ConfigsAssumption

(* A step that changes one request to another one.                           *)
LEMMA Advance ==
  ASSUME TypeOK, NEW s \in Slots, NEW q \in Request, req' = [req EXCEPT ![s] = q]
  PROVE /\ req' \in [Slots -> Request \cup {None}]
        /\ req'[s] = q /\ q # None
        /\ \A t \in Slots \ {s} : req'[t] = req[t]
  BY NoneAssumption DEF TypeOK

(* A step that ends one.                                                     *)
LEMMA Remove ==
  ASSUME TypeOK, NEW s \in Slots, req' = [req EXCEPT ![s] = None]
  PROVE /\ req' \in [Slots -> Request \cup {None}]
        /\ req'[s] = None
        /\ \A t \in Slots \ {s} : req'[t] = req[t]
  BY DEF TypeOK

LEMMA RequestIs == TypeOK => \A s \in Slots : Running(s) => req[s] \in Request
  BY DEF TypeOK, Running

(* What each step of a request makes of it.                                  *)
LEMMA StepIs ==
  ASSUME TypeOK, NEW s \in Slots
  PROVE /\ PutObject(s) => \E q \in Request :
             req' = [req EXCEPT ![s] = q] /\ q = [req[s] EXCEPT !.at = "ready"]
        /\ GetActiveFails(s) => \E q \in Request :
             req' = [req EXCEPT ![s] = q] /\ q = [req[s] EXCEPT !.at = "begin", !.cfg = Blank]
        /\ UpsertBegins(s) => \E q \in Request :
             req' = [req EXCEPT ![s] = q] /\ q = [req[s] EXCEPT !.at = "wait", !.rows = active]
        /\ Deactivate(s) => \E q \in Request :
             /\ req' = [req EXCEPT ![s] = q]
             /\ q = [req[s] EXCEPT !.at = "held", !.rows = req[s].rows \cap active]
        /\ GiveUp(s) => \E q \in Request :
             req' = [req EXCEPT ![s] = q] /\ q = [req[s] EXCEPT !.fromPage = FALSE]
<1> DEFINE r == req[s]
<1>1. ASSUME Running(s) PROVE r \in Request
  BY <1>1, RequestIs
<1>2. ASSUME PutObject(s) PROVE Running(s) /\ [r EXCEPT !.at = "ready"] \in Request
  BY <1>1, <1>2 DEF PutObject, At, Request
<1>3. ASSUME GetActiveFails(s) PROVE Running(s) /\ [r EXCEPT !.at = "begin", !.cfg = Blank] \in Request
  BY <1>1, <1>3 DEF GetActiveFails, At, Request
<1>4. ASSUME UpsertBegins(s) PROVE Running(s) /\ [r EXCEPT !.at = "wait", !.rows = active] \in Request
  BY <1>1, <1>4 DEF UpsertBegins, At, Request, TypeOK
<1>5. ASSUME Deactivate(s)
      PROVE Running(s) /\ [r EXCEPT !.at = "held", !.rows = r.rows \cap active] \in Request
  BY <1>1, <1>5 DEF Deactivate, At, Request, TypeOK
<1>6. ASSUME GiveUp(s) PROVE Running(s) /\ [r EXCEPT !.fromPage = FALSE] \in Request
  BY <1>1, <1>6 DEF GiveUp, Request
<1>7. PutObject(s) => \E q \in Request :
        req' = [req EXCEPT ![s] = q] /\ q = [r EXCEPT !.at = "ready"]
  <2>1. PutObject(s) => req' = [req EXCEPT ![s] = [r EXCEPT !.at = "ready"]]
    BY DEF PutObject
  <2> QED
    BY <1>2, <2>1, Zenon
<1>8. GetActiveFails(s) => \E q \in Request :
        req' = [req EXCEPT ![s] = q] /\ q = [r EXCEPT !.at = "begin", !.cfg = Blank]
  <2>1. GetActiveFails(s) => req' = [req EXCEPT ![s] = [r EXCEPT !.at = "begin", !.cfg = Blank]]
    BY DEF GetActiveFails
  <2> QED
    BY <1>3, <2>1, Zenon
<1>9. UpsertBegins(s) => \E q \in Request :
        req' = [req EXCEPT ![s] = q] /\ q = [r EXCEPT !.at = "wait", !.rows = active]
  <2>1. UpsertBegins(s) => req' = [req EXCEPT ![s] = [r EXCEPT !.at = "wait", !.rows = active]]
    BY DEF UpsertBegins
  <2> QED
    BY <1>4, <2>1, Zenon
<1>10. Deactivate(s) => \E q \in Request :
         req' = [req EXCEPT ![s] = q] /\ q = [r EXCEPT !.at = "held", !.rows = r.rows \cap active]
  <2>1. Deactivate(s) => req' = [req EXCEPT ![s] = [r EXCEPT !.at = "held", !.rows = r.rows \cap active]]
    BY DEF Deactivate
  <2> QED
    BY <1>5, <2>1, Zenon
<1>11. GiveUp(s) => \E q \in Request :
         req' = [req EXCEPT ![s] = q] /\ q = [r EXCEPT !.fromPage = FALSE]
  <2>1. GiveUp(s) => req' = [req EXCEPT ![s] = [r EXCEPT !.fromPage = FALSE]]
    BY DEF GiveUp
  <2> QED
    BY <1>6, <2>1, Zenon
<1> QED
  BY <1>7, <1>8, <1>9, <1>10, <1>11

(* GetActiveWatermark takes what the request keeps from an active row.       *)
LEMMA GetActiveIs ==
  ASSUME TypeOK, NEW s \in Slots, GetActiveWatermark(s)
  PROVE \E q \in Request :
          /\ req' = [req EXCEPT ![s] = q] /\ req[s] \in Request /\ req[s].at = "ready"
          /\ q.at = "begin" /\ q.kind = req[s].kind
          /\ \/ active = {} /\ q.cfg = req[s].cfg /\ q.asset = req[s].asset
             \/ \E r \in active :
                  /\ q.cfg = (IF q.kind = "asset" THEN r.cfg ELSE req[s].cfg)
                  /\ q.asset = (IF q.kind = "asset" THEN req[s].asset ELSE r.asset)
<1>1. req[s] \in Request /\ req[s].at = "ready"
  BY RequestIs DEF GetActiveWatermark, At
<1>2. CASE active = {}
  <2> DEFINE q == [req[s] EXCEPT !.at = "begin"]
  <2>1. q \in Request /\ q.at = "begin" /\ q.kind = req[s].kind /\ q.cfg = req[s].cfg
        /\ q.asset = req[s].asset
    BY <1>1 DEF Request
  <2>2. req' = [req EXCEPT ![s] = q]
    BY <1>2 DEF GetActiveWatermark
  <2> HIDE DEF q
  <2> QED
    BY <1>1, <1>2, <2>1, <2>2
<1>3. ASSUME NEW r \in active, req[s].kind = "asset",
             req' = [req EXCEPT ![s] = [req[s] EXCEPT !.at = "begin", !.cfg = r.cfg]]
      PROVE \E q \in Request :
              /\ req' = [req EXCEPT ![s] = q] /\ q.at = "begin" /\ q.kind = "asset"
              /\ q.cfg = r.cfg /\ q.asset = req[s].asset
  <2> DEFINE q == [req[s] EXCEPT !.at = "begin", !.cfg = r.cfg]
  <2>1. q \in Request /\ q.at = "begin" /\ q.kind = "asset" /\ q.cfg = r.cfg /\ q.asset = req[s].asset
    BY <1>1, <1>3 DEF Request, TypeOK, Row
  <2> HIDE DEF q
  <2>2. req' = [req EXCEPT ![s] = q]
    BY <1>3 DEF q
  <2> QED
    BY <2>1, <2>2
<1>4. ASSUME NEW r \in active, req[s].kind # "asset",
             req' = [req EXCEPT ![s] = [req[s] EXCEPT !.at = "begin", !.asset = r.asset]]
      PROVE \E q \in Request :
              /\ req' = [req EXCEPT ![s] = q] /\ q.at = "begin" /\ q.kind = req[s].kind
              /\ q.cfg = req[s].cfg /\ q.asset = r.asset
  <2> DEFINE q == [req[s] EXCEPT !.at = "begin", !.asset = r.asset]
  <2>1. q \in Request /\ q.at = "begin" /\ q.kind = req[s].kind /\ q.cfg = req[s].cfg /\ q.asset = r.asset
    BY <1>1, <1>4 DEF Request, TypeOK, Row
  <2> HIDE DEF q
  <2>2. req' = [req EXCEPT ![s] = q]
    BY <1>4 DEF q
  <2> QED
    BY <2>1, <2>2
<1>5. CASE active # {}
  <2> PICK r \in active : req' = [req EXCEPT ![s] =
            IF req[s].kind = "asset" THEN [req[s] EXCEPT !.at = "begin", !.cfg = r.cfg]
                                     ELSE [req[s] EXCEPT !.at = "begin", !.asset = r.asset]]
    BY <1>5 DEF GetActiveWatermark
  <2>1. CASE req[s].kind = "asset"
    <3>1. req' = [req EXCEPT ![s] = [req[s] EXCEPT !.at = "begin", !.cfg = r.cfg]]
      BY <2>1
    <3> PICK q \in Request :
           /\ req' = [req EXCEPT ![s] = q] /\ q.at = "begin" /\ q.kind = "asset"
           /\ q.cfg = r.cfg /\ q.asset = req[s].asset
      BY <1>3, <2>1, <3>1
    <3> QED
      BY <1>1, <2>1
  <2>2. CASE req[s].kind # "asset"
    <3>1. req' = [req EXCEPT ![s] = [req[s] EXCEPT !.at = "begin", !.asset = r.asset]]
      BY <2>2
    <3> PICK q \in Request :
           /\ req' = [req EXCEPT ![s] = q] /\ q.at = "begin" /\ q.kind = req[s].kind
           /\ q.cfg = req[s].cfg /\ q.asset = r.asset
      BY <1>4, <2>2, <3>1
    <3> QED
      BY <1>1, <2>2
  <2> QED
    BY <2>1, <2>2
<1> QED
  BY <1>2, <1>5
-----------------------------------------------------------------------------
LEMMA InitOK == Init => IInv
<1> SUFFICES ASSUME Init PROVE IInv
  OBVIOUS
<1>1. TypeOK
  <2>1. load \in [at : {"asked", "locked", "row", "over"}, cfg : Configs \cup {Blank}]
    BY ConfigsAssumption DEF Init
  <2>2. wanted \in [cfg : Configs \cup {Blank, None}, asset : BOOLEAN]
    BY DEF Init
  <2>3. form \in Configs /\ asked \in 0..MaxRequests
    BY ConfigsAssumption, BoundsAssumption DEF Init
  <2> QED
    BY <2>1, <2>2, <2>3 DEF Init, TypeOK
<1>2. StoreInv /\ TurnsInv /\ MergeInv
  BY DEF Init, StoreInv, AssetIsStored, TurnsInv, MergeInv, LikeOneAtATime, Running
<1> QED
  BY <1>1, <1>2 DEF IInv

(* The steps that change one request, and the table not at all or by an      *)
(* object or a mark.                                                         *)
Moves(s) == PutObject(s) \/ GetActiveWatermark(s) \/ GetActiveFails(s) \/ UpsertBegins(s)
            \/ Deactivate(s) \/ GiveUp(s)

LEMMA MovesKeep ==
  ASSUME TypeOK, NEW s \in Slots, Moves(s)
  PROVE /\ Running(s) /\ UNCHANGED <<active, wanted, overlapped, asked>>
        /\ stored' = stored \/ stored' = TRUE
        /\ misread' = misread \/ misread' = TRUE
        /\ \E q \in Request : req' = [req EXCEPT ![s] = q]
<1>1. Running(s)
  BY Zenon DEF Moves, PutObject, GetActiveWatermark, GetActiveFails, UpsertBegins, Deactivate, GiveUp, At
<1>2. UNCHANGED <<active, wanted, overlapped, asked>>
  BY DEF Moves, PutObject, GetActiveWatermark, GetActiveFails, UpsertBegins, Deactivate, GiveUp, table
<1>3. stored' = stored \/ stored' = TRUE
  BY DEF Moves, PutObject, GetActiveWatermark, GetActiveFails, UpsertBegins, Deactivate, GiveUp, table
<1>4. misread' = misread \/ misread' = TRUE
  BY DEF Moves, PutObject, GetActiveWatermark, GetActiveFails, UpsertBegins, Deactivate, GiveUp, table
<1>5. \E q \in Request : req' = [req EXCEPT ![s] = q]
  <2>1. PutObject(s) => \E q \in Request : req' = [req EXCEPT ![s] = q]
    BY StepIs, Zenon
  <2>2. GetActiveFails(s) => \E q \in Request : req' = [req EXCEPT ![s] = q]
    BY StepIs, Zenon
  <2>3. UpsertBegins(s) => \E q \in Request : req' = [req EXCEPT ![s] = q]
    BY StepIs, Zenon
  <2>4. Deactivate(s) => \E q \in Request : req' = [req EXCEPT ![s] = q]
    BY StepIs, Zenon
  <2>5. GiveUp(s) => \E q \in Request : req' = [req EXCEPT ![s] = q]
    BY StepIs, Zenon
  <2>6. GetActiveWatermark(s) => \E q \in Request : req' = [req EXCEPT ![s] = q]
    BY GetActiveIs, Zenon
  <2> QED
    BY <2>1, <2>2, <2>3, <2>4, <2>5, <2>6 DEF Moves
<1> QED
  BY <1>1, <1>2, <1>3, <1>4, <1>5

LEMMA EndsIs ==
  ASSUME NEW s \in Slots, Commit(s) \/ Fail(s)
  PROVE Running(s) /\ req' = [req EXCEPT ![s] = None] /\ UNCHANGED <<form, isPro, load, preview>>
  BY DEF Commit, Fail, Ends, At
-----------------------------------------------------------------------------
LEMMA TypeInductive == TypeOK /\ [Next]_vars => TypeOK'
<1> SUFFICES ASSUME TypeOK, [Next]_vars PROVE TypeOK'
  OBVIOUS
<1>1. CASE HandleSave \/ Update \/ UploadAsset
  <2> PICK s \in Slots, q \in Request : req' = [req EXCEPT ![s] = q]
    BY <1>1, NewRequest
  <2>1. req' \in [Slots -> Request \cup {None}]
    BY Advance
  <2>2. asked' \in 0..MaxRequests /\ overlapped' \in BOOLEAN /\ UNCHANGED <<active, stored, wanted, misread>>
    BY <1>1, NewRequest
  <2>3. UNCHANGED <<form, isPro, load, preview>> /\ isSaving' \in BOOLEAN
    BY <1>1 DEF HandleSave, Update, UploadAsset, page, TypeOK
  <2> QED
    BY <2>1, <2>2, <2>3 DEF TypeOK
<1>2. ASSUME NEW s \in Slots, Moves(s) PROVE TypeOK'
  <2>1. req' \in [Slots -> Request \cup {None}]
    BY <1>2, MovesKeep, Advance
  <2>2. stored' \in BOOLEAN /\ misread' \in BOOLEAN /\ isSaving' \in BOOLEAN
        /\ UNCHANGED <<form, isPro, load, preview>>
    BY <1>2 DEF Moves, PutObject, GetActiveWatermark, GetActiveFails, UpsertBegins, Deactivate, GiveUp,
       table, page, TypeOK
  <2> QED
    BY <1>2, <2>1, <2>2, MovesKeep DEF TypeOK
<1>3. ASSUME NEW s \in Slots, Commit(s) PROVE TypeOK'
  <2>1. req[s] \in Request
    BY <1>3, EndsIs, RequestIs
  <2>2. [id |-> req[s].id, cfg |-> req[s].cfg, asset |-> req[s].asset] \in Row
    BY <2>1 DEF Request, Row
  <2>3. active' \in SUBSET Row
    BY <1>3, <2>2 DEF Commit, TypeOK
  <2>4. wanted' \in [cfg : Configs \cup {Blank, None}, asset : BOOLEAN]
    BY <1>3, <2>1, ConfigsAssumption DEF Commit, Applied, Request, TypeOK
  <2>5. req' \in [Slots -> Request \cup {None}] /\ isSaving' \in BOOLEAN
    BY <1>3, EndsIs, Remove DEF Commit, Ends, TypeOK
  <2> QED
    BY <1>3, <2>3, <2>4, <2>5, EndsIs DEF Commit, TypeOK
<1>4. ASSUME NEW s \in Slots, Fail(s) PROVE TypeOK'
  <2>1. req' \in [Slots -> Request \cup {None}] /\ isSaving' \in BOOLEAN
    BY <1>4, EndsIs, Remove DEF Fail, Ends, TypeOK
  <2> QED
    BY <1>4, <2>1, EndsIs DEF Fail, table, TypeOK
<1>5. CASE Mount
  <2>1. req' \in [Slots -> Request \cup {None}]
    BY <1>5, RequestIs DEF Mount, Request
  <2> QED
    BY <1>5, <2>1, ConfigsAssumption DEF Mount, table, TypeOK
<1>6. CASE PageOnly
  <2>1. load' \in [at : {"asked", "locked", "row", "over"}, cfg : Configs \cup {Blank}]
    BY <1>6 DEF PageOnly, LoadServed, LoadAnswered, Edit, HandleFileUpload, TypeOK, Row
  <2>2. form' \in Configs /\ isPro' \in {"unknown", "yes", "no"} /\ isSaving' \in BOOLEAN
        /\ preview' \in BOOLEAN
    BY <1>6 DEF PageOnly, LoadServed, LoadAnswered, Edit, HandleFileUpload, TypeOK
  <2> QED
    BY <1>6, <2>1, <2>2, PageOnlyKeeps DEF table, TypeOK
<1>7. CASE UNCHANGED vars
  BY <1>7 DEF vars, table, page, TypeOK
<1> QED
  BY <1>1, <1>2, <1>3, <1>4, <1>5, <1>6, <1>7, Zenon DEF Next, Moves, PageOnly
-----------------------------------------------------------------------------
(* Whose request it is does not matter to the table.                         *)
Same == /\ UNCHANGED table
        /\ \A s \in Slots :
             /\ req'[s] # None <=> req[s] # None
             /\ req[s] # None =>
                  /\ req'[s].at = req[s].at /\ req'[s].kind = req[s].kind /\ req'[s].cfg = req[s].cfg
                  /\ req'[s].asset = req[s].asset /\ req'[s].rows = req[s].rows

LEMMA SameKeeps == Same => /\ StoreInv => StoreInv'
                           /\ TurnsInv => TurnsInv'
                           /\ MergeInv => MergeInv'
<1> SUFFICES ASSUME Same PROVE (StoreInv => StoreInv') /\ (TurnsInv => TurnsInv') /\ (MergeInv => MergeInv')
  OBVIOUS
<1>1. StoreInv => StoreInv'
  BY DEF Same, StoreInv, AssetIsStored, Running, table
<1>2. TurnsInv => TurnsInv'
  BY DEF Same, TurnsInv, Running, table
<1>3. LikeOneAtATime' = LikeOneAtATime
  BY DEF Same, table, LikeOneAtATime
<1>4. \A s \in Slots : Running(s) => Applied(req[s])' = Applied(req[s])
  BY DEF Same, table, Applied, Running
<1>5. MergeInv => MergeInv'
  BY <1>3, <1>4 DEF Same, MergeInv, Running, table
<1> QED
  BY <1>1, <1>2, <1>5

LEMMA IsSame ==
  ASSUME TypeOK, Mount \/ PageOnly \/ (UNCHANGED vars) \/ \E s \in Slots : GiveUp(s)
  PROVE Same
<1>1. CASE Mount
  <2>1. ASSUME NEW s \in Slots, req[s] # None
        PROVE /\ req'[s] = [req[s] EXCEPT !.fromPage = FALSE] /\ req[s] \in Request
              /\ [req[s] EXCEPT !.fromPage = FALSE] \in Request
    <3>1. req[s] \in Request
      BY <2>1, RequestIs DEF Running
    <3> QED
      BY <1>1, <2>1, <3>1 DEF Mount, Running, Request
  <2>2. ASSUME NEW s \in Slots, req[s] = None PROVE req'[s] = None
    BY <1>1, <2>2 DEF Mount, Running
  <2>3. UNCHANGED table
    BY <1>1 DEF Mount
  <2>4. ASSUME NEW s \in Slots, req[s] # None
        PROVE /\ req'[s] # None
              /\ req'[s].at = req[s].at /\ req'[s].kind = req[s].kind /\ req'[s].cfg = req[s].cfg
              /\ req'[s].asset = req[s].asset /\ req'[s].rows = req[s].rows
    <3> DEFINE q == [req[s] EXCEPT !.fromPage = FALSE]
    <3>1. q.at = req[s].at /\ q.kind = req[s].kind /\ q.cfg = req[s].cfg
          /\ q.asset = req[s].asset /\ q.rows = req[s].rows
      BY <2>1, <2>4 DEF Request
    <3>2. req'[s] = q /\ q \in Request
      BY <2>1, <2>4
    <3> HIDE DEF q
    <3> QED
      BY <3>1, <3>2, NoneAssumption
  <2> QED
    BY <2>2, <2>3, <2>4 DEF Same
<1>2. CASE PageOnly
  BY <1>2, PageOnlyKeeps DEF Same
<1>3. CASE UNCHANGED vars
  BY <1>3 DEF Same, vars
<1>4. ASSUME NEW s \in Slots, GiveUp(s) PROVE Same
  <2> PICK q \in Request : req' = [req EXCEPT ![s] = q] /\ q = [req[s] EXCEPT !.fromPage = FALSE]
    BY <1>4, StepIs
  <2>1. Running(s) /\ req[s] \in Request /\ UNCHANGED table
    BY <1>4, RequestIs DEF GiveUp
  <2>2. q.at = req[s].at /\ q.kind = req[s].kind /\ q.cfg = req[s].cfg
        /\ q.asset = req[s].asset /\ q.rows = req[s].rows
    BY <2>1 DEF Request
  <2>3. req'[s] = q /\ q # None /\ \A t \in Slots \ {s} : req'[t] = req[t]
    BY Advance
  <2> QED
    BY <2>1, <2>2, <2>3 DEF Same, Running
<1> QED
  BY <1>1, <1>2, <1>3, <1>4

(* The object is there before a request or a row carries it.                 *)
LEMMA StoreInductive == TypeOK /\ StoreInv /\ [Next]_vars => StoreInv'
<1> SUFFICES ASSUME TypeOK, StoreInv, [Next]_vars PROVE StoreInv'
  OBVIOUS
<1> USE DEF StoreInv, AssetIsStored, Running
<1>1. CASE HandleSave \/ Update \/ UploadAsset
  <2> PICK s \in Slots, q \in Request :
         /\ req' = [req EXCEPT ![s] = q] /\ UNCHANGED <<active, stored>>
         /\ q.asset => q.at = "asked"
    BY <1>1, NewRequest
  <2>1. req'[s] = q /\ \A t \in Slots \ {s} : req'[t] = req[t]
    BY Advance
  <2> QED
    BY <2>1
<1>2. ASSUME NEW s \in Slots, PutObject(s) PROVE StoreInv'
  BY <1>2 DEF PutObject
<1>3. ASSUME NEW s \in Slots, NEW q \in Request, req' = [req EXCEPT ![s] = q],
             UNCHANGED <<active, stored>>, q.asset => stored
      PROVE StoreInv'
  <2>1. req'[s] = q /\ \A t \in Slots \ {s} : req'[t] = req[t]
    BY <1>3, Advance
  <2> QED
    BY <1>3, <2>1
<1>4. ASSUME NEW s \in Slots, GetActiveWatermark(s) PROVE StoreInv'
  <2> PICK q \in Request :
         /\ req' = [req EXCEPT ![s] = q]
         /\ q.asset = req[s].asset \/ \E r \in active : q.asset = r.asset
    BY <1>4, GetActiveIs
  <2>1. Running(s) /\ req[s].at = "ready" /\ UNCHANGED <<active, stored>>
    BY <1>4 DEF GetActiveWatermark, At, table
  <2>2. q.asset => stored
    BY <2>1
  <2> QED
    BY <1>3, <2>1, <2>2
<1>5. ASSUME NEW s \in Slots, GetActiveFails(s) PROVE StoreInv'
  <2> PICK q \in Request :
         req' = [req EXCEPT ![s] = q] /\ q = [req[s] EXCEPT !.at = "begin", !.cfg = Blank]
    BY <1>5, StepIs
  <2>1. Running(s) /\ req[s].at = "ready" /\ UNCHANGED <<active, stored>> /\ req[s] \in Request
    BY <1>5, RequestIs DEF GetActiveFails, At
  <2>2. q.asset = req[s].asset
    BY <2>1 DEF Request
  <2> QED
    BY <1>3, <2>1, <2>2
<1>6. ASSUME NEW s \in Slots, UpsertBegins(s) PROVE StoreInv'
  <2> PICK q \in Request :
         req' = [req EXCEPT ![s] = q] /\ q = [req[s] EXCEPT !.at = "wait", !.rows = active]
    BY <1>6, StepIs
  <2>1. Running(s) /\ req[s].at = "begin" /\ UNCHANGED <<active, stored>> /\ req[s] \in Request
    BY <1>6, RequestIs DEF UpsertBegins, At, table
  <2>2. q.asset = req[s].asset
    BY <2>1 DEF Request
  <2> QED
    BY <1>3, <2>1, <2>2
<1>7. ASSUME NEW s \in Slots, Deactivate(s) PROVE StoreInv'
  <2> PICK q \in Request : /\ req' = [req EXCEPT ![s] = q]
                           /\ q = [req[s] EXCEPT !.at = "held", !.rows = req[s].rows \cap active]
    BY <1>7, StepIs
  <2>1. Running(s) /\ req[s].at = "wait" /\ UNCHANGED <<active, stored>> /\ req[s] \in Request
    BY <1>7, RequestIs DEF Deactivate, At, table
  <2>2. q.asset = req[s].asset
    BY <2>1 DEF Request
  <2> QED
    BY <1>3, <2>1, <2>2
<1>8. ASSUME NEW s \in Slots, Commit(s) \/ Fail(s) PROVE StoreInv'
  <2>1. req'[s] = None /\ \A t \in Slots \ {s} : req'[t] = req[t]
    BY <1>8, EndsIs, Remove
  <2>2. stored' = stored /\ \A r \in active' :
          r \in active \/ (Running(s) /\ req[s].at = "held" /\ r.asset = req[s].asset)
    BY <1>8 DEF Commit, Fail, At, table
  <2> QED
    BY <2>1, <2>2
<1>9. CASE Mount \/ PageOnly \/ (UNCHANGED vars) \/ \E s \in Slots : GiveUp(s)
  BY <1>9, IsSame, SameKeeps
<1> QED
  BY <1>1, <1>2, <1>4, <1>5, <1>6, <1>7, <1>8, <1>9, Zenon DEF Next, PageOnly

(* Requests in turns: a request starts when none runs, and from its UPDATE   *)
(* on it holds every active row.                                             *)
LEMMA TurnsInductive == TypeOK /\ TurnsInv /\ [Next]_vars => TurnsInv'
<1> SUFFICES ASSUME TypeOK, TurnsInv, [Next]_vars PROVE TurnsInv'
  OBVIOUS
<1>1. CASE HandleSave \/ Update \/ UploadAsset
  <2> PICK s \in Slots, q \in Request :
         /\ req' = [req EXCEPT ![s] = q] /\ active' = active
         /\ q.at \in {"asked", "ready"}
         /\ overlapped' = (overlapped \/ \E t \in Slots : Running(t))
    BY <1>1, NewRequest
  <2>1. req'[s] = q /\ \A t \in Slots \ {s} : req'[t] = req[t]
    BY Advance
  <2> QED
    BY <2>1 DEF TurnsInv, Running
<1>2. ASSUME NEW s \in Slots, NEW q \in Request, req' = [req EXCEPT ![s] = q], Running(s),
             UNCHANGED <<active, overlapped>>,
             TurnsInv /\ ~overlapped /\ q.at \in {"wait", "held"} => q.rows = active
      PROVE TurnsInv'
  <2>1. req'[s] = q /\ \A t \in Slots \ {s} : req'[t] = req[t]
    BY <1>2, Advance
  <2> QED
    BY <1>2, <2>1 DEF TurnsInv, Running
<1>3. ASSUME NEW s \in Slots, PutObject(s) \/ GetActiveWatermark(s) \/ GetActiveFails(s)
      PROVE TurnsInv'
  <2>1. Running(s) /\ UNCHANGED <<active, overlapped>> /\ req[s] \in Request
    BY <1>3, RequestIs, MovesKeep DEF Moves
  <2>2. \E q \in Request : req' = [req EXCEPT ![s] = q] /\ q.at \in {"ready", "begin"}
    <3>1. CASE PutObject(s)
      <4> PICK q \in Request : req' = [req EXCEPT ![s] = q] /\ q = [req[s] EXCEPT !.at = "ready"]
        BY <3>1, StepIs
      <4>1. q.at = "ready"
        BY <2>1 DEF Request
      <4> QED
        BY <4>1
    <3>2. CASE GetActiveWatermark(s)
      BY <3>2, GetActiveIs
    <3>3. CASE GetActiveFails(s)
      <4> PICK q \in Request :
             req' = [req EXCEPT ![s] = q] /\ q = [req[s] EXCEPT !.at = "begin", !.cfg = Blank]
        BY <3>3, StepIs
      <4>1. q.at = "begin"
        BY <2>1 DEF Request
      <4> QED
        BY <4>1
    <3> QED
      BY <1>3, <3>1, <3>2, <3>3
  <2> QED
    BY <1>2, <2>1, <2>2
<1>4. ASSUME NEW s \in Slots, UpsertBegins(s) PROVE TurnsInv'
  <2> PICK q \in Request :
         req' = [req EXCEPT ![s] = q] /\ q = [req[s] EXCEPT !.at = "wait", !.rows = active]
    BY <1>4, StepIs
  <2>1. Running(s) /\ UNCHANGED <<active, overlapped>> /\ req[s] \in Request
    BY <1>4, RequestIs, MovesKeep DEF Moves
  <2>2. q.rows = active
    BY <2>1 DEF Request
  <2> QED
    BY <1>2, <2>1, <2>2
<1>5. ASSUME NEW s \in Slots, Deactivate(s) PROVE TurnsInv'
  <2> PICK q \in Request : /\ req' = [req EXCEPT ![s] = q]
                           /\ q = [req[s] EXCEPT !.at = "held", !.rows = req[s].rows \cap active]
    BY <1>5, StepIs
  <2>1. Running(s) /\ UNCHANGED <<active, overlapped>> /\ req[s] \in Request /\ req[s].at = "wait"
    BY <1>5, RequestIs, MovesKeep DEF Moves, Deactivate, At
  <2>2. q.rows = req[s].rows \cap active
    BY <2>1 DEF Request
  <2>3. TurnsInv /\ ~overlapped => req[s].rows = active
    BY <2>1 DEF TurnsInv
  <2> QED
    BY <1>2, <2>1, <2>2, <2>3
<1>6. ASSUME NEW s \in Slots, Commit(s) \/ Fail(s) PROVE TurnsInv'
  <2>1. req'[s] = None /\ \A t \in Slots \ {s} : req'[t] = req[t]
    BY <1>6, EndsIs, Remove
  <2>2. Running(s) /\ overlapped' = overlapped
    BY <1>6, EndsIs DEF Commit, Fail, table
  <2> QED
    BY <2>1, <2>2 DEF TurnsInv, Running
<1>7. CASE Mount \/ PageOnly \/ (UNCHANGED vars) \/ \E s \in Slots : GiveUp(s)
  BY <1>7, IsSame, SameKeeps
<1> QED
  BY <1>1, <1>3, <1>4, <1>5, <1>6, <1>7, Zenon DEF Next, PageOnly

(* What a request must be for the invariant, while the table stays.          *)
Merges(q) ==
  /\ q.kind = "asset" => q.asset
  /\ q.kind = "asset" /\ q.at \in {"asked", "ready"} => q.cfg = Standard
  /\ q.kind = "config" => q.cfg # Blank
  /\ q.kind = "config" /\ q.at \in {"asked", "ready"} => ~q.asset
  /\ ~overlapped /\ ~misread /\ q.at \in {"begin", "wait", "held"} =>
       q.cfg = Applied(q).cfg /\ q.asset = Applied(q).asset

LEMMA MergeIs == MergeInv <=> /\ wanted.cfg = None => ~wanted.asset
                             /\ LikeOneAtATime
                             /\ \A s \in Slots : Running(s) => Merges(req[s])
  BY Zenon DEF MergeInv, Merges

(* One request changes, and the marks at most become true.                   *)
LEMMA MergeStep ==
  ASSUME TypeOK, MergeInv, NEW s \in Slots, NEW q \in Request, req' = [req EXCEPT ![s] = q],
         UNCHANGED <<active, wanted>>, overlapped => overlapped', misread => misread',
         Merges(q)'
  PROVE MergeInv'
<1>1. req'[s] = q /\ \A t \in Slots \ {s} : req'[t] = req[t]
  BY Advance
<1>2. LikeOneAtATime'
  BY MergeIs DEF LikeOneAtATime
<1>3. ASSUME NEW x \in Request, Merges(x) PROVE Merges(x)'
  BY <1>3 DEF Merges, Applied
<1>4. \A t \in Slots : req'[t] # None => \E x \in Request : req'[t] = x /\ Merges(x)'
  <2> TAKE t \in Slots
  <2>1. CASE t = s
    BY <1>1, <2>1
  <2>2. CASE t # s /\ req'[t] # None
    <3> DEFINE x == req[t]
    <3>1. x \in Request /\ Merges(x) /\ req'[t] = x
      BY <1>1, <2>2, MergeIs, RequestIs DEF Running
    <3> HIDE DEF x
    <3> QED
      BY <1>3, <3>1
  <2> QED
    BY <2>1, <2>2
<1>5. (wanted.cfg = None => ~wanted.asset)'
  BY MergeIs
<1>6. (\A t \in Slots : Running(t) => Merges(req[t]))'
  <2> SUFFICES ASSUME NEW t \in Slots, req'[t] # None PROVE (Merges(req[t]))'
    BY DEF Running
  <2> PICK x \in Request : req'[t] = x /\ Merges(x)'
    BY <1>4
  <2>1. /\ req'[t].kind = x.kind /\ req'[t].at = x.at /\ req'[t].cfg = x.cfg
        /\ req'[t].asset = x.asset
    OBVIOUS
  <2>2. Applied(req[t])' = Applied(x)'
    BY <2>1 DEF Applied
  <2> QED
    BY <2>1, <2>2 DEF Merges
<1> QED
  BY <1>2, <1>5, <1>6 DEF MergeInv, Merges

(* Two requests that run leave nothing to keep in step.                      *)
LEMMA MergeInductive == TypeOK /\ TurnsInv /\ MergeInv /\ [Next]_vars => MergeInv'
<1> SUFFICES ASSUME TypeOK, TurnsInv, MergeInv, [Next]_vars PROVE MergeInv'
  OBVIOUS
<1>1. CASE HandleSave \/ Update \/ UploadAsset
  <2> PICK s \in Slots, q \in Request :
         /\ req' = [req EXCEPT ![s] = q]
         /\ q.at = (IF q.kind = "asset" THEN "asked" ELSE "ready")
         /\ q.kind = "asset" => q.cfg = Standard
         /\ q.cfg \in Configs /\ q.asset = (q.kind = "asset")
         /\ overlapped' = (overlapped \/ \E t \in Slots : Running(t))
         /\ UNCHANGED <<active, wanted, misread>>
    BY <1>1, NewRequest
  <2>1. Merges(q)'
    BY ConfigsAssumption DEF Merges
  <2> QED
    BY <2>1, MergeStep
<1>2. ASSUME NEW s \in Slots, PutObject(s) PROVE MergeInv'
  <2> PICK q \in Request : req' = [req EXCEPT ![s] = q] /\ q = [req[s] EXCEPT !.at = "ready"]
    BY <1>2, StepIs
  <2>1. /\ req[s] \in Request /\ Merges(req[s]) /\ req[s].at = "asked"
        /\ UNCHANGED <<active, wanted, overlapped, misread>>
    BY <1>2, RequestIs, MergeIs DEF PutObject, At
  <2>2. q.at = "ready" /\ q.kind = req[s].kind /\ q.cfg = req[s].cfg /\ q.asset = req[s].asset
    BY <2>1 DEF Request
  <2>3. Merges(q)'
    BY <2>1, <2>2 DEF Merges
  <2> QED
    BY <2>1, <2>3, MergeStep
<1>3. ASSUME NEW s \in Slots, GetActiveWatermark(s) PROVE MergeInv'
  <2> PICK q \in Request :
          /\ req' = [req EXCEPT ![s] = q] /\ req[s] \in Request /\ req[s].at = "ready"
          /\ q.at = "begin" /\ q.kind = req[s].kind
          /\ \/ active = {} /\ q.cfg = req[s].cfg /\ q.asset = req[s].asset
             \/ \E r \in active :
                  /\ q.cfg = (IF q.kind = "asset" THEN r.cfg ELSE req[s].cfg)
                  /\ q.asset = (IF q.kind = "asset" THEN req[s].asset ELSE r.asset)
    BY <1>3, GetActiveIs
  <2>1. Merges(req[s]) /\ UNCHANGED <<active, wanted, overlapped, misread>>
    BY <1>3, MergeIs DEF GetActiveWatermark, At, table
  <2>2. /\ wanted.cfg = None => ~wanted.asset
        /\ LikeOneAtATime
    BY MergeIs
  <2>3. q.kind \in {"config", "asset"} /\ wanted.asset \in BOOLEAN /\ q.asset \in BOOLEAN
        /\ \A r \in active : r.asset \in BOOLEAN
    BY DEF Request, TypeOK, Row
  <2>4. ~overlapped /\ ~misread => q.cfg = Applied(q).cfg /\ q.asset = Applied(q).asset
    <3> SUFFICES ASSUME ~overlapped, ~misread PROVE q.cfg = Applied(q).cfg /\ q.asset = Applied(q).asset
      OBVIOUS
    <3>1. CASE q.kind = "config"
      <4>1. CASE wanted.cfg = None
        BY <2>1, <2>2, <2>3, <3>1, <4>1 DEF Applied, Merges, LikeOneAtATime
      <4>2. CASE wanted.cfg # None
        BY <2>1, <2>2, <2>3, <3>1, <4>2 DEF Applied, Merges, LikeOneAtATime
      <4> QED
        BY <4>1, <4>2
    <3>2. CASE q.kind = "asset"
      <4>1. CASE wanted.cfg = None
        BY <2>1, <2>2, <2>3, <3>2, <4>1 DEF Applied, Merges, LikeOneAtATime
      <4>2. CASE wanted.cfg # None
        BY <2>1, <2>2, <2>3, <3>2, <4>2 DEF Applied, Merges, LikeOneAtATime
      <4> QED
        BY <4>1, <4>2
    <3> QED
      BY <2>3, <3>1, <3>2
  <2>5. (q.kind = "asset" => q.asset) /\ (q.kind = "config" => q.cfg # Blank)
    BY <2>1 DEF Merges
  <2>6. Merges(q)'
    BY <2>1, <2>4, <2>5 DEF Merges, Applied
  <2> QED
    BY <2>1, <2>6, MergeStep
<1>4. ASSUME NEW s \in Slots, GetActiveFails(s) PROVE MergeInv'
  <2> PICK q \in Request :
         req' = [req EXCEPT ![s] = q] /\ q = [req[s] EXCEPT !.at = "begin", !.cfg = Blank]
    BY <1>4, StepIs
  <2>1. /\ req[s] \in Request /\ Merges(req[s]) /\ req[s].kind = "asset" /\ misread'
        /\ UNCHANGED <<active, wanted, overlapped>>
    BY <1>4, RequestIs, MergeIs DEF GetActiveFails, At
  <2>2. q.at = "begin" /\ q.kind = "asset" /\ q.asset = req[s].asset
    BY <2>1 DEF Request
  <2>3. Merges(q)'
    BY <2>1, <2>2 DEF Merges
  <2> QED
    BY <2>1, <2>3, MergeStep
<1>5. ASSUME NEW s \in Slots, UpsertBegins(s) PROVE MergeInv'
  <2> PICK q \in Request :
         req' = [req EXCEPT ![s] = q] /\ q = [req[s] EXCEPT !.at = "wait", !.rows = active]
    BY <1>5, StepIs
  <2>1. /\ req[s] \in Request /\ Merges(req[s]) /\ req[s].at = "begin"
        /\ UNCHANGED <<active, wanted, overlapped, misread>>
    BY <1>5, RequestIs, MergeIs DEF UpsertBegins, At, table
  <2>2. q.at = "wait" /\ q.kind = req[s].kind /\ q.cfg = req[s].cfg /\ q.asset = req[s].asset
    BY <2>1 DEF Request
  <2>3. Merges(q)'
    BY <2>1, <2>2 DEF Merges, Applied
  <2> QED
    BY <2>1, <2>3, MergeStep
<1>6. ASSUME NEW s \in Slots, Deactivate(s) PROVE MergeInv'
  <2> PICK q \in Request : /\ req' = [req EXCEPT ![s] = q]
                           /\ q = [req[s] EXCEPT !.at = "held", !.rows = req[s].rows \cap active]
    BY <1>6, StepIs
  <2>1. /\ req[s] \in Request /\ Merges(req[s]) /\ req[s].at = "wait"
        /\ UNCHANGED <<active, wanted, overlapped, misread>>
    BY <1>6, RequestIs, MergeIs DEF Deactivate, At, table
  <2>2. q.at = "held" /\ q.kind = req[s].kind /\ q.cfg = req[s].cfg /\ q.asset = req[s].asset
    BY <2>1 DEF Request
  <2>3. Merges(q)'
    BY <2>1, <2>2 DEF Merges, Applied
  <2> QED
    BY <2>1, <2>3, MergeStep
<1>7. ASSUME NEW s \in Slots, Commit(s) PROVE MergeInv'
  <2>1. req'[s] = None /\ \A t \in Slots \ {s} : req'[t] = req[t]
    BY <1>7, EndsIs, Remove
  <2>2. /\ Running(s) /\ req[s].at = "held" /\ req[s] \in Request /\ Merges(req[s])
        /\ wanted' = Applied(req[s]) /\ UNCHANGED <<overlapped, misread>>
        /\ active' = (active \ req[s].rows) \cup
             {[id |-> req[s].id, cfg |-> req[s].cfg, asset |-> req[s].asset]}
    BY <1>7, RequestIs, MergeIs DEF Commit, At
  <2>3. wanted'.cfg # None
    BY <2>2, ConfigsAssumption DEF Applied, Request
  <2>4. LikeOneAtATime'
    <3> SUFFICES ASSUME ~overlapped, ~misread
                 PROVE \E r \in active' : active' = {r} /\ r.cfg = wanted'.cfg /\ r.asset = wanted'.asset
      BY <2>2, <2>3 DEF LikeOneAtATime
    <3>1. req[s].rows = active
      BY <2>2 DEF TurnsInv
    <3>2. req[s].cfg = wanted'.cfg /\ req[s].asset = wanted'.asset
      BY <2>2 DEF Merges
    <3> DEFINE r == [id |-> req[s].id, cfg |-> req[s].cfg, asset |-> req[s].asset]
    <3>3. active' = {r}
      BY <2>2, <3>1
    <3>4. r.cfg = wanted'.cfg /\ r.asset = wanted'.asset
      BY <3>2
    <3> QED
      BY <3>3, <3>4, Zenon
  <2>5. ASSUME NEW t \in Slots, req'[t] # None PROVE overlapped /\ Merges(req[t]) /\ req'[t] = req[t]
                                                  /\ req[t] \in Request
    BY <2>1, <2>2, <2>5, MergeIs, RequestIs DEF TurnsInv, Running
  <2>6. (\A t \in Slots : Running(t) => Merges(req[t]))'
    BY <2>2, <2>5 DEF Merges, Running
  <2> QED
    BY <2>3, <2>4, <2>6 DEF MergeInv, Merges
<1>8. ASSUME NEW s \in Slots, Fail(s) PROVE MergeInv'
  <2>1. req'[s] = None /\ \A t \in Slots \ {s} : req'[t] = req[t]
    BY <1>8, EndsIs, Remove
  <2>2. UNCHANGED <<active, wanted, overlapped, misread>>
    BY <1>8 DEF Fail, table
  <2> QED
    BY <2>1, <2>2 DEF MergeInv, LikeOneAtATime, Running, Applied
<1>9. CASE Mount \/ PageOnly \/ (UNCHANGED vars) \/ \E s \in Slots : GiveUp(s)
  BY <1>9, IsSame, SameKeeps
<1> QED
  BY <1>1, <1>2, <1>3, <1>4, <1>5, <1>6, <1>7, <1>8, <1>9, Zenon DEF Next, PageOnly
-----------------------------------------------------------------------------
(* The object, the turns and the rows hold together in every state.          *)
THEOREM Inductive == Spec => []IInv
<1>1. Init => IInv
  BY InitOK
<1>2. IInv /\ [Next]_vars => IInv'
  BY TypeInductive, StoreInductive, TurnsInductive, MergeInductive DEF IInv
<1> QED
  BY <1>1, <1>2, PTL DEF Spec

(* Requests that take turns leave one watermark, with what each of them      *)
(* changed and nothing else lost.                                            *)
THEOREM TurnsLoseNothing == Spec => []LikeOneAtATime
<1>1. IInv => LikeOneAtATime
  BY DEF IInv, MergeInv
<1> QED
  BY <1>1, Inductive, PTL

(* Whatever overlaps or fails, a watermark's asset has been stored.          *)
THEOREM AssetsAreStored == Spec => []AssetIsStored
<1>1. IInv => AssetIsStored
  BY DEF IInv, StoreInv
<1> QED
  BY <1>1, Inductive, PTL
=============================================================================
