--------------------------- MODULE DashboardCache ---------------------------
(***************************************************************************)
(* The pages of the dashboard over the query cache they share.             *)
(*                                                                         *)
(* Several pages read the same entry of the React Query cache, each with a *)
(* query function of its own: what a page finds there may come from        *)
(* another page's request, from the polling, or from a handler that wrote  *)
(* the entry itself.  The query functions disagree: about what is a        *)
(* failure, and about whether the entry is the list of videos or the       *)
(* object {videos, next_cursor} that the API answers with.                 *)
(*                                                                         *)
(* The lists (videos, buckets, API keys, transcode jobs) share no state,   *)
(* so a behaviour follows one of them, chosen at the start, while the user *)
(* walks through all pages.  React Query (external) is modelled from the   *)
(* way the pages use it: a mounted query fetches when it has no data, was  *)
(* invalidated or has aged; a fetch in flight is joined, not repeated;     *)
(* setQueryData leaves a fetch in flight alone; invalidateQueries cancels  *)
(* and repeats it, but only for the page on screen; retries are part of    *)
(* the one fetch.  A page that throws while it renders stays "crashed"     *)
(* until the user reloads: the app has no error boundary.                  *)
(*                                                                         *)
(* Bounds: one polling request, one deletion and one creation in flight;   *)
(* no more videos than one page of the API holds (20).                     *)
(***************************************************************************)
EXTENDS FiniteSets

CONSTANTS Videos,    \* videos of the account
          Buckets,   \* buckets the user can have
          Owned,     \* the buckets that exist at the start
          Keys,      \* API keys of the account
          Invented,  \* keys that the page makes up
          None       \* no value

ASSUME CacheAssumption == Owned \subseteq Buckets

Row == [id : Videos \cup Buckets \cup Keys \cup Invented, status : {"busy", "ready"}]
Entry == [shape : {"list", "object"}, rows : SUBSET Row, from : {"answer", "refusal", "local"}]

ASSUME NoneAssumption == None \notin Entry

Lists == {"videos", "buckets", "apiKeys", "jobs"}
Pages == {"home", "videos", "video", "activity", "buckets", "bucket", "keys", "convert"}

VARIABLES
  list,           \* the query key this behaviour follows
  page, target,   \* the page on screen, or "crashed", and its params.id
  serverVideos,   \* video: "busy" (queued or processing), "ready" or "deleted"
  serverBuckets,  \* buckets in the database
  entry,          \* data of the query, or None
  invalid,        \* isInvalidated of the query
  failed,         \* isError: its last fetch failed
  fetch,          \* its fetch in flight
  poll,           \* the polling request: "idle", "asked" or "answered"
  deletion,       \* handleDelete of the video page, or None
  creation,       \* handleCreateBucket, or None
  claimed,        \* videos a toast called permanently deleted
  made,           \* buckets whose creation was answered
  overtaken,      \* history: the fetch in flight was left alone by an invalidation
  late            \* history: entry is the answer of such a fetch

server == <<serverVideos, serverBuckets>>
query == <<entry, invalid, failed, fetch, overtaken, late>>
user == <<page, target>>
handlers == <<poll, deletion, creation, claimed, made>>
vars == <<list, user, server, query, handlers>>

Failure == [shape |-> "failure", rows |-> {}, from |-> "answer"]
Idle == [phase |-> "idle", by |-> None, yields |-> None]

TypeOK ==
  /\ list \in Lists
  /\ page \in Pages \cup {"crashed"}
  /\ page = "video" => target \in Videos
  /\ page = "bucket" => target \in Buckets
  /\ serverVideos \in [Videos -> {"busy", "ready", "deleted"}]
  /\ serverBuckets \in SUBSET Buckets
  /\ entry = None \/ entry \in Entry
  /\ invalid \in BOOLEAN /\ failed \in BOOLEAN
  /\ \/ fetch = Idle
     \/ fetch \in [phase : {"asked"}, by : Pages, yields : {None}]
     \/ fetch \in [phase : {"answered"}, by : {None}, yields : Entry \cup {Failure}]
  /\ poll \in {"idle", "asked", "answered"}
  /\ deletion = None \/ deletion \in
       [video : Videos, phase : {"asked", "done", "refused", "waiting", "leaving"}]
  /\ creation = None \/ creation \in [bucket : Buckets, phase : {"asked", "done", "refused"}]
  /\ claimed \in SUBSET Videos /\ made \in SUBSET Buckets
  /\ overtaken \in BOOLEAN /\ late \in BOOLEAN
-----------------------------------------------------------------------------
(* What the API has: the rows of the list followed.                        *)
Plain(ids) == {[id |-> x, status |-> "ready"] : x \in ids}
ServerRows ==
  CASE list = "videos"  -> {[id |-> v, status |-> serverVideos[v]] :
                              v \in {w \in Videos : serverVideos[w] # "deleted"}}
    [] list = "buckets" -> Plain(serverBuckets)
    [] list = "apiKeys" -> Plain(Keys)
    [] list = "jobs"    -> {[id |-> v, status |-> IF serverVideos[v] = "busy" THEN "busy" ELSE "ready"] :
                              v \in Videos}

(* The pages that call useQuery with the list's key.  (The home page reads *)
(* the API keys under another key, "api-keys".)                            *)
Readers == CASE list = "videos"  -> {"home", "videos", "video", "activity"}
             [] list = "buckets" -> {"home", "buckets", "bucket"}
             [] list = "apiKeys" -> {"keys"}
             [] list = "jobs"    -> {"convert"}

AnswerList == [shape |-> "list", rows |-> ServerRows, from |-> "answer"]
AnswerObject == [shape |-> "object", rows |-> {}, from |-> "answer"]
Empty == [shape |-> "list", rows |-> {}, from |-> "refusal"]

(* What the query function of a page makes of "ok", "refused" (a status)   *)
(* or "lost" (no answer).  Home and activity turn a refusal into an empty  *)
(* list; activity stores the API's object as it is.                        *)
QueryResult(p, answer) ==
  CASE answer = "ok" /\ p = "activity"               -> AnswerObject
    [] answer = "ok" /\ p # "activity"               -> AnswerList
    [] answer = "refused" /\ p \in {"home", "activity"} -> Empty
    [] answer = "refused" /\ p \notin {"home", "activity"} -> Failure
    [] answer = "lost"                               -> Failure

(* motionmesh is the SDK's class: motionmesh.videos is undefined, and the  *)
(* query functions of home and of the video page throw before any request, *)
(* as does that of the jobs, where motionmesh.mediaConverter is.           *)
Throws(p) == list = "jobs" \/ (list = "videos" /\ p \in {"home", "video"})

(* A fetch of page p starts.                                               *)
Started(p) == IF Throws(p) THEN [phase |-> "answered", by |-> None, yields |-> Failure]
                           ELSE [phase |-> "asked", by |-> p, yields |-> None]

(* A page that renders the object as if it were the list throws: .slice,   *)
(* .some, .find and .map are not functions of it.                          *)
Rendered(p, e) == IF p \in Readers /\ e # None /\ e.shape = "object" THEN "crashed" ELSE p

HasRow(id) == entry # None /\ \E r \in entry.rows : r.id = id
HasBusy == entry # None /\ \E r \in entry.rows : r.status = "busy"

\* Mutant: the loader stands for missing data, after a failure too.
LoadingUntilData == page \in Readers /\ entry = None

(* isLoading: no data yet, and a fetch under way; isError: the last fetch  *)
(* failed, which a fetch without data takes back.                          *)
Loading == page \in Readers /\ entry = None /\ fetch # Idle
IsError == failed /\ ~Loading
-----------------------------------------------------------------------------
(* What each page renders of the list, when it is the page on screen.      *)
Shown == IF entry = None THEN {} ELSE entry.rows

(* Totals, badge of active jobs, recent videos and feed: no loader, and no *)
(* sign of a failure.                                                      *)
HomeView == Shown

VideosView == CASE Loading                     -> "loader"
                [] IsError                     -> "failure"
                [] Shown # {} /\ ~IsError      -> "table"
                [] OTHER                       -> "empty"

(* The player, or the place where it will be.                              *)
VideoView == CASE Loading                                            -> "loader"
               [] [id |-> target, status |-> "ready"] \in Shown      -> "player"
               [] [id |-> target, status |-> "busy"] \in Shown       -> "processing"
               [] OTHER                                              -> "not found"

ActivityView == CASE Loading      -> "loader"
                  [] Shown # {}   -> "table"
                  [] OTHER        -> "empty"

(* The failure comes before the data, and there is no loader.              *)
BucketsView == CASE IsError                  -> "failure"
                 [] Shown # {} /\ ~IsError   -> "table"
                 [] OTHER                    -> "empty"

BucketView == CASE Loading          -> "loader"
                [] HasRow(target)   -> "details"
                [] OTHER            -> "not found"

(* Neither a loader nor a failure.                                         *)
KeysView == IF Shown = {} THEN "empty" ELSE "table"

(* Nor has this one: "No transcode jobs yet" stands for all of them.  Its  *)
(* form changes nothing, as createJob is looked up in the same place.      *)
ConvertView == IF Shown = {} THEN "empty" ELSE "table"
-----------------------------------------------------------------------------
(* Page p is mounted: aged when the data are older than the stale time.  A *)
(* fetch in flight is joined; if it has to retry, it does so with the      *)
(* query function of the page that joined it.                              *)
Mount(p, aged) ==
  /\ page' = Rendered(p, entry)
  /\ IF p \notin Readers THEN fetch' = fetch
     ELSE IF fetch.phase = "idle"
       THEN fetch' = IF entry = None \/ invalid \/ aged THEN Started(p) ELSE fetch
     ELSE fetch' \in IF fetch.phase = "asked" THEN {fetch, Started(p)} ELSE {fetch}

Goes(p, id) ==
  /\ target' = id
  /\ \E aged \in BOOLEAN : Mount(p, aged)

Navigate ==
  /\ page # "crashed"
  /\ \E p \in Pages \ {page} :
       \E id \in IF p = "video" THEN Videos ELSE IF p = "bucket" THEN Buckets ELSE {None} :
         Goes(p, id)
  /\ UNCHANGED <<list, server, entry, invalid, failed, overtaken, late, handlers>>

(* The user reloads a crashed page: the whole client starts again.         *)
Reload ==
  /\ page = "crashed"
  /\ \E p \in Pages \ {"video", "bucket"} :
       page' = p /\ fetch' = IF p \in Readers THEN Started(p) ELSE Idle
  /\ target' = None
  /\ entry' = None /\ invalid' = FALSE /\ failed' = FALSE
  /\ overtaken' = FALSE /\ late' = FALSE
  /\ poll' = "idle" /\ deletion' = None /\ creation' = None
  /\ UNCHANGED <<list, server, claimed, made>>
-----------------------------------------------------------------------------
(* The request of the fetch ends, for the last time.                       *)
FetchServed ==
  /\ page # "crashed" /\ fetch.phase = "asked"
  /\ \E answer \in {"ok", "refused", "lost"} :
       fetch' = [fetch EXCEPT !.phase = "answered", !.by = None, !.yields = QueryResult(fetch.by, answer)]
  /\ UNCHANGED <<list, user, server, entry, invalid, failed, overtaken, late, handlers>>

(* React Query takes the result: a failure leaves the data as they were.   *)
(* The deletion that waits for the refetch goes on.                        *)
FetchSettled ==
  /\ page # "crashed" /\ fetch.phase = "answered"
  /\ IF fetch.yields = Failure
     THEN /\ failed' = TRUE
          /\ UNCHANGED <<entry, invalid, late, page>>
     ELSE /\ entry' = fetch.yields /\ invalid' = FALSE /\ failed' = FALSE
          /\ page' = Rendered(page, entry')
          /\ late' = overtaken
  /\ fetch' = Idle /\ overtaken' = FALSE
  /\ deletion' = IF deletion # None /\ deletion.phase = "waiting"
                 THEN [deletion EXCEPT !.phase = "leaving"] ELSE deletion
  /\ UNCHANGED <<list, target, server, poll, creation, claimed, made>>

(* invalidateQueries, with e the data of the query: the page on screen     *)
(* fetches again, in place of a fetch in flight unless that is the first.  *)
Refetches(e) == page \in Readers /\ (e # None \/ fetch = Idle)
Invalidate(e) ==
  /\ invalid' = TRUE
  /\ fetch' = IF Refetches(e) THEN Started(page) ELSE fetch
  /\ overtaken' = (~Refetches(e) /\ fetch # Idle)

(* The button of a page that failed to load.                               *)
Retry ==
  /\ page \in Readers
  /\ \/ page = "videos" /\ VideosView = "failure"
     \/ page = "buckets" /\ BucketsView = "failure"
  /\ Invalidate(entry)
  /\ UNCHANGED <<list, user, server, entry, failed, late, handlers>>

(* The page of the jobs fetches by itself every half minute, and when its  *)
(* button, which is disabled during a fetch, invalidates the list.         *)
RefreshJobs ==
  /\ list = "jobs" /\ page = "convert" /\ fetch = Idle
  /\ fetch' = Started(page)
  /\ invalid' \in {invalid, TRUE}
  /\ UNCHANGED <<list, user, server, entry, failed, overtaken, late, handlers>>
-----------------------------------------------------------------------------
(* The videos page polls while a row is queued or processing.              *)
PollAsk ==
  /\ page = "videos" /\ page \in Readers /\ HasBusy /\ poll = "idle"
  /\ poll' = "asked"
  /\ UNCHANGED <<list, user, server, query, deletion, creation, claimed, made>>

PollServed ==
  /\ page # "crashed" /\ poll = "asked"
  /\ poll' \in {"answered", "idle"}     \* idle: the answer was an error, or lost
  /\ UNCHANGED <<list, user, server, query, deletion, creation, claimed, made>>

(* setQueryData(["videos"], data): data is the object of the API, wherever *)
(* the user is by now.                                                     *)
PollAnswered ==
  /\ page # "crashed" /\ poll = "answered"
  /\ poll' = "idle"
  /\ entry' = AnswerObject /\ invalid' = FALSE /\ failed' = FALSE /\ late' = FALSE
  /\ page' = Rendered(page, entry')
  /\ UNCHANGED <<list, target, server, fetch, overtaken, deletion, creation, claimed, made>>
-----------------------------------------------------------------------------
\* Mutant: the row is taken out of the list before the request is made.
AskDeleteOptimistic ==
  /\ list = "videos" /\ page = "video" /\ VideoView \in {"player", "processing"} /\ deletion = None
  /\ deletion' = [video |-> target, phase |-> "asked"]
  /\ entry' = [entry EXCEPT !.rows = {r \in @ : r.id # target}]
  /\ invalid' = FALSE /\ failed' = FALSE
  /\ UNCHANGED <<list, user, server, fetch, overtaken, late, poll, creation, claimed, made>>

(* handleDelete of the video page, up to its request.                      *)
AskDelete ==
  /\ list = "videos" /\ page = "video" /\ VideoView \in {"player", "processing"} /\ deletion = None
  /\ deletion' = [video |-> target, phase |-> "asked"]
  /\ UNCHANGED <<list, user, server, query, poll, creation, claimed, made>>

(* The API deletes the video or refuses; an answer may be lost after the   *)
(* deletion.                                                               *)
DeleteServed ==
  /\ page # "crashed" /\ deletion # None /\ deletion.phase = "asked"
  /\ \/ /\ serverVideos[deletion.video] # "deleted"
        /\ serverVideos' = [serverVideos EXCEPT ![deletion.video] = "deleted"]
        /\ \E phase \in {"done", "refused"} : deletion' = [deletion EXCEPT !.phase = phase]
     \/ /\ deletion' = [deletion EXCEPT !.phase = "refused"]
        /\ UNCHANGED serverVideos
  /\ UNCHANGED <<list, user, serverBuckets, query, poll, creation, claimed, made>>

\* Mutant: the list is not invalidated after the deletion.
DeleteAnsweredOnly ==
  /\ page # "crashed" /\ deletion # None /\ deletion.phase = "done"
  /\ claimed' = claimed \cup {deletion.video}
  /\ deletion' = [deletion EXCEPT !.phase = "leaving"]
  /\ UNCHANGED <<list, user, server, query, poll, creation, made>>

(* The toast, and the invalidation, whose refetch is awaited if the page   *)
(* on screen makes one.                                                    *)
DeleteAnswered ==
  /\ page # "crashed" /\ deletion # None /\ deletion.phase = "done"
  /\ claimed' = claimed \cup {deletion.video}
  /\ Invalidate(entry)
  /\ deletion' = [deletion EXCEPT !.phase = IF page \in Readers THEN "waiting" ELSE "leaving"]
  /\ UNCHANGED <<list, user, server, entry, failed, late, poll, creation, made>>

(* router.push("/dashboard/videos"), wherever the user is by now.          *)
DeleteLeaves ==
  /\ page # "crashed" /\ deletion # None /\ deletion.phase = "leaving"
  /\ deletion' = None
  /\ IF page = "videos" THEN UNCHANGED <<user, fetch>> ELSE Goes("videos", None)
  /\ UNCHANGED <<list, server, entry, invalid, failed, overtaken, late, poll, creation, claimed, made>>

(* The toast "Failed to delete video".                                     *)
DeleteFails ==
  /\ page # "crashed" /\ deletion # None /\ deletion.phase = "refused"
  /\ deletion' = None
  /\ UNCHANGED <<list, user, server, query, poll, creation, claimed, made>>
-----------------------------------------------------------------------------
(* handleCreateBucket of the buckets page, up to its request.              *)
AskCreate ==
  /\ list = "buckets" /\ page = "buckets" /\ creation = None
  /\ \E b \in Buckets \ serverBuckets : creation' = [bucket |-> b, phase |-> "asked"]
  /\ UNCHANGED <<list, user, server, query, poll, deletion, claimed, made>>

CreateServed ==
  /\ page # "crashed" /\ creation # None /\ creation.phase = "asked"
  /\ \/ /\ serverBuckets' = serverBuckets \cup {creation.bucket}
        /\ \E phase \in {"done", "refused"} : creation' = [creation EXCEPT !.phase = phase]
     \/ /\ creation' = [creation EXCEPT !.phase = "refused"]
        /\ UNCHANGED serverBuckets
  /\ UNCHANGED <<list, user, serverVideos, query, poll, deletion, claimed, made>>

(* setQueryData(list, old => [row, ...(old || [])])                        *)
Prepended(row) == IF entry = None
                  THEN [shape |-> "list", rows |-> {row}, from |-> "local"]
                  ELSE [entry EXCEPT !.rows = @ \cup {row}]

\* Mutant: the new bucket is put into the list, but the list is not fetched again.
CreateAnsweredOnly ==
  /\ page # "crashed" /\ creation # None /\ creation.phase = "done"
  /\ entry' = Prepended([id |-> creation.bucket, status |-> "ready"])
  /\ failed' = FALSE /\ invalid' = FALSE
  /\ made' = made \cup {creation.bucket} /\ creation' = None
  /\ UNCHANGED <<list, user, server, fetch, overtaken, late, poll, deletion, claimed>>

(* The new bucket goes into the list at once, then the list is fetched.    *)
CreateAnswered ==
  /\ page # "crashed" /\ creation # None /\ creation.phase = "done"
  /\ entry' = Prepended([id |-> creation.bucket, status |-> "ready"])
  /\ failed' = FALSE
  /\ Invalidate(entry')
  /\ made' = made \cup {creation.bucket} /\ creation' = None
  /\ UNCHANGED <<list, user, server, late, poll, deletion, claimed>>

CreateFails ==
  /\ page # "crashed" /\ creation # None /\ creation.phase = "refused"
  /\ creation' = None
  /\ UNCHANGED <<list, user, server, query, poll, deletion, claimed, made>>

(* handleDelete of the bucket page: a toast that says the bucket is        *)
(* permanently deleted, no request, and the way back to the buckets.       *)
DeleteBucket ==
  /\ list = "buckets" /\ page = "bucket" /\ BucketView = "details"
  /\ Goes("buckets", None)
  /\ UNCHANGED <<list, server, entry, invalid, failed, overtaken, late, handlers>>
-----------------------------------------------------------------------------
(* handleCreate of the keys page: the key exists in the cache only.        *)
CreateKey ==
  /\ list = "apiKeys" /\ page = "keys"
  /\ \E k \in Invented :
       /\ ~HasRow(k)
       /\ entry' = Prepended([id |-> k, status |-> "ready"])
  /\ invalid' = FALSE /\ failed' = FALSE
  /\ UNCHANGED <<list, user, server, fetch, overtaken, late, handlers>>

(* handleRevoke: the row leaves the cache, and a toast says the key is     *)
(* revoked permanently; no request is made.                                *)
RevokeKey ==
  /\ list = "apiKeys" /\ page = "keys" /\ KeysView = "table"
  /\ \E r \in entry.rows : entry' = [entry EXCEPT !.rows = @ \ {r}]
  /\ invalid' = FALSE /\ failed' = FALSE
  /\ UNCHANGED <<list, user, server, fetch, overtaken, late, handlers>>

(* The worker ends the job of a video.                                     *)
Processed ==
  /\ \E v \in Videos : /\ serverVideos[v] = "busy"
                       /\ serverVideos' = [serverVideos EXCEPT ![v] = "ready"]
  /\ UNCHANGED <<list, user, serverBuckets, query, handlers>>
-----------------------------------------------------------------------------
Init ==
  /\ list \in Lists
  /\ page = "home" /\ target = None
  /\ serverVideos \in [Videos -> {"busy", "ready"}]
  /\ serverBuckets = Owned
  /\ entry = None /\ invalid = FALSE /\ failed = FALSE
  /\ fetch = IF page \in Readers THEN Started(page) ELSE Idle
  /\ poll = "idle" /\ deletion = None /\ creation = None
  /\ claimed = {} /\ made = {}
  /\ overtaken = FALSE /\ late = FALSE

Next ==
  \/ Navigate \/ Reload \/ FetchServed \/ FetchSettled \/ Retry \/ RefreshJobs
  \/ PollAsk \/ PollServed \/ PollAnswered
  \/ AskDelete \/ DeleteServed \/ DeleteAnswered \/ DeleteLeaves \/ DeleteFails
  \/ AskCreate \/ CreateServed \/ CreateAnswered \/ CreateFails \/ DeleteBucket
  \/ CreateKey \/ RevokeKey \/ Processed

Spec == Init /\ [][Next]_vars

(* Requests end, and the client takes their results.                       *)
FairSpec == Spec /\ WF_vars(FetchServed) /\ WF_vars(FetchSettled)
-----------------------------------------------------------------------------
\* A video that a toast called permanently deleted stands in the list of the
\* videos page only while the list is fetched again, after a fetch that failed,
\* or when the list is the answer of a request older than the deletion that the
\* invalidation did not cancel because another page was on screen.
DeletedRowIsReplaced ==
  \A v \in claimed : page = "videos" /\ list = "videos" /\ HasRow(v) =>
    fetch # Idle \/ failed \/ late

\* A bucket that was created stays in the cached list, whatever was in flight
\* when it was put there, except for a late answer, for the empty list the home
\* page makes of a refusal, and for a list begun without an answer, which is to
\* be fetched again.
CreatedBucketIsKept ==
  \A b \in made : list = "buckets" /\ entry # None =>
    HasRow(b) \/ late \/ entry.from = "refusal" \/ (entry.from = "local" /\ invalid)

Existing == {v \in Videos : serverVideos[v] # "deleted"}

\* A page shows that a video or a bucket which exists is not there ("not found",
\* or nothing in its list) only after a failure, of a refusal that was taken for
\* an empty list, of a local write, or, on the pages without a loader, as long
\* as the list is being fetched.
NotFoundIsFailure ==
  LET Excused == failed \/ (entry # None /\ entry.from # "answer") IN
  /\ list = "videos" /\ Existing # {} =>
       /\ page = "video" /\ target \in Existing /\ VideoView = "not found" => Excused
       /\ page = "videos" /\ VideosView = "empty" => Excused
       /\ page = "activity" /\ ActivityView = "empty" => Excused
       /\ page = "home" /\ HomeView = {} => Excused \/ Loading
  /\ list = "buckets" /\ Owned # {} =>
       /\ page = "bucket" /\ target \in Owned /\ BucketView = "not found" => Excused
       /\ page = "buckets" /\ BucketsView = "empty" => Excused \/ Loading
       /\ page = "home" /\ HomeView = {} => Excused \/ Loading
  /\ list = "jobs" /\ Existing # {} =>
       (page = "convert" /\ ConvertView = "empty" => Excused \/ Loading)
-----------------------------------------------------------------------------
(* The strengthening the theorems use.                                     *)
Yields(id) == fetch.phase = "answered" /\ \E r \in fetch.yields.rows : r.id = id

(* What toasts say is so on the server: a request whose answer was lost is *)
(* reported as failed, never the other way round.                          *)
ClaimsHold ==
  /\ \A v \in claimed : serverVideos[v] = "deleted"
  /\ made \cup Owned \subseteq serverBuckets
  /\ deletion # None /\ deletion.phase = "done" => serverVideos[deletion.video] = "deleted"
  /\ creation # None /\ creation.phase = "done" => creation.bucket \in serverBuckets
  /\ poll # "idle" \/ deletion # None => list = "videos"
  /\ creation # None => list = "buckets"

(* The page on screen has data it can show, or a fetch that will tell.     *)
FetchOK ==
  /\ fetch.phase = "asked" => fetch.by \in Readers /\ ~Throws(fetch.by)
  /\ page \in Readers /\ (invalid \/ entry = None) => fetch # Idle \/ failed
  /\ page \in Readers /\ entry # None => entry.shape = "list"

VideosOK == list = "videos" =>
  /\ \A v \in claimed : HasRow(v) => late \/ invalid
  /\ \A v \in claimed : Yields(v) => overtaken
  /\ entry # None /\ entry.from # "refusal" /\ entry.shape = "list" =>
       \A v \in Videos : serverVideos[v] = "deleted" \/ HasRow(v)
  /\ fetch.phase = "answered" /\ fetch.yields.from # "refusal" /\ fetch.yields.shape = "list" =>
       \A v \in Videos : serverVideos[v] = "deleted" \/ Yields(v)

BucketsOK == list = "buckets" =>
  /\ entry # None => \/ entry.from = "refusal"
                     \/ late \/ \A b \in made : HasRow(b)
                     \/ entry.from = "local" /\ invalid
  /\ entry # None /\ entry.from = "local" => invalid
  /\ entry # None /\ entry.from = "answer" => \A b \in Owned : HasRow(b)
  /\ fetch.phase = "answered" /\ fetch.yields # Failure =>
       \/ fetch.yields.from = "refusal"
       \/ /\ fetch.yields.from = "answer"
          /\ overtaken \/ \A b \in made : Yields(b)
          /\ \A b \in Owned : Yields(b)

(* Nothing is ever known of the jobs.                                      *)
JobsOK == list = "jobs" =>
  entry = None /\ (fetch.phase = "answered" => fetch.yields = Failure)

IInv == TypeOK /\ ClaimsHold /\ FetchOK /\ VideosOK /\ BucketsOK /\ JobsOK
-----------------------------------------------------------------------------
\* A page does not show its loader for ever.
LoadingEnds == Loading ~> ~Loading
=============================================================================
