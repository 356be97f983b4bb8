------------------------ MODULE DashboardCache_proofs ------------------------
(***************************************************************************)
(* The invariant of DashboardCache is inductive, and its consequences for  *)
(* what the pages show.  One lemma per part of the invariant, with one     *)
(* step per action; before them, what the operators return.                *)
(***************************************************************************)
EXTENDS DashboardCache, TLAPS

(* The pages that read each list, case by case.                              *)
LEMMA ReadersOf ==
  /\ list = "videos" => Readers = {"home", "videos", "video", "activity"}
  /\ list = "buckets" => Readers = {"home", "buckets", "bucket"}
  /\ list = "apiKeys" => Readers = {"keys"}
  /\ list = "jobs" => Readers = {"convert"}
<1>1. CASE list = "videos"
  BY <1>1 DEF Readers
<1>2. CASE list = "buckets"
  BY <1>2 DEF Readers
<1>3. CASE list = "apiKeys"
  BY <1>3 DEF Readers
<1>4. CASE list = "jobs"
  BY <1>4 DEF Readers
<1> QED
  BY <1>1, <1>2, <1>3, <1>4

(* A behaviour follows one list, and the pages that read it stay the same.   *)
LEMMA SameList == [Next]_vars => list' = list /\ Readers' = Readers
<1>1. [Next]_vars => list' = list
  BY Zenon DEF Next, vars, Navigate, Reload, FetchServed, FetchSettled, Retry, RefreshJobs, PollAsk, PollServed,
     PollAnswered, AskDelete, DeleteServed, DeleteAnswered, DeleteLeaves, DeleteFails, AskCreate,
     CreateServed, CreateAnswered, CreateFails, DeleteBucket, CreateKey, RevokeKey, Processed
<1>2. list' = list => Readers' = Readers
  BY Zenon DEF Readers
<1> QED
  BY <1>1, <1>2

(* They are pages.                                                           *)
LEMMA PagesOfReaders == list \in Lists => Readers \subseteq Pages
  BY ReadersOf DEF Pages, Lists

(* A crashed page reads nothing.                                             *)
LEMMA Crashed == list \in Lists => "crashed" \notin Readers
  BY PagesOfReaders DEF Pages

(* Mounting a page on a query that was left alone otherwise.                 *)
LEMMA MountFetchOK ==
  ASSUME TypeOK, FetchOK, list' = list, Readers' = Readers,
         NEW p \in Pages, NEW aged \in BOOLEAN, Mount(p, aged),
         UNCHANGED <<entry, invalid, failed>>
  PROVE FetchOK'
<1>1. fetch'.phase = "asked" => fetch'.by \in Readers /\ ~Throws(fetch'.by)
  BY DEF Mount, Started, FetchOK, TypeOK, Idle
<1>2. page' \in Readers => page' = p /\ (entry # None => entry.shape = "list")
  BY Crashed DEF Mount, Rendered, TypeOK, Entry
<1>3. fetch' = Idle => fetch = Idle /\ (page' \in Readers => ~(entry = None \/ invalid))
  BY <1>2 DEF Mount, Started, TypeOK, Idle
<1>4. CASE page' \in Readers
  BY <1>1, <1>2, <1>3, <1>4 DEF FetchOK, Throws, Idle
<1>5. CASE page' \notin Readers
  BY <1>1, <1>5 DEF FetchOK, Throws
<1> QED
  BY <1>4, <1>5

(* The rows the API has for each list, case by case.                         *)
LEMMA ServerRowsOf ==
  /\ list = "videos" => ServerRows =
       {[id |-> v, status |-> serverVideos[v]] :
          v \in {w \in Videos : serverVideos[w] # "deleted"}}
  /\ list = "buckets" => ServerRows = Plain(serverBuckets)
  /\ list = "apiKeys" => ServerRows = Plain(Keys)
  /\ list = "jobs" => ServerRows =
       {[id |-> v, status |-> IF serverVideos[v] = "busy" THEN "busy" ELSE "ready"] : v \in Videos}
<1>1. CASE list = "videos"
  BY <1>1, Zenon DEF ServerRows
<1>2. CASE list = "buckets"
  BY <1>2, Zenon DEF ServerRows
<1>3. CASE list = "apiKeys"
  BY <1>3, Zenon DEF ServerRows
<1>4. CASE list = "jobs"
  BY <1>4, Zenon DEF ServerRows
<1> QED
  BY <1>1, <1>2, <1>3, <1>4

(* They are rows.                                                            *)
LEMMA ServerRowsTyped == TypeOK => ServerRows \in SUBSET Row
<1>1. CASE list = "videos"
  BY <1>1, ServerRowsOf DEF TypeOK, Row
<1>2. CASE list = "buckets"
  BY <1>2, ServerRowsOf DEF TypeOK, Row, Plain
<1>3. CASE list = "apiKeys"
  BY <1>3, ServerRowsOf DEF TypeOK, Row, Plain
<1>4. CASE list = "jobs"
  BY <1>4, ServerRowsOf DEF Row
<1> QED
  BY <1>1, <1>2, <1>3, <1>4 DEF TypeOK, Lists

(* A handler that adds a row leaves an entry.                                *)
LEMMA PrependedTyped ==
  ASSUME TypeOK, NEW row \in Row PROVE Prepended(row) \in Entry
  BY DEF TypeOK, Prepended, Entry

(* A query function yields an entry or fails.                                *)
LEMMA QueryTyped ==
  ASSUME TypeOK, NEW p, NEW answer \in {"ok", "refused", "lost"}
  PROVE QueryResult(p, answer) \in Entry \cup {Failure}
<1>1. AnswerList \in Entry /\ AnswerObject \in Entry /\ Empty \in Entry
  BY ServerRowsTyped DEF AnswerList, AnswerObject, Empty, Entry
<1> QED
  BY <1>1 DEF QueryResult

(* What a query function makes of an answer for the videos.                  *)
LEMMA QueryVideos ==
  ASSUME TypeOK, ClaimsHold, list = "videos", NEW p, NEW answer \in {"ok", "refused", "lost"}
  PROVE /\ \A v \in claimed : ~(\E r \in QueryResult(p, answer).rows : r.id = v)
        /\ QueryResult(p, answer).from # "refusal" /\ QueryResult(p, answer).shape = "list" =>
             \A v \in Videos : serverVideos[v] = "deleted" \/
               \E r \in QueryResult(p, answer).rows : r.id = v
<1>1. \A v \in claimed : ~(\E r \in ServerRows : r.id = v)
  BY ServerRowsOf DEF ClaimsHold, TypeOK
<1>2. ASSUME NEW v \in Videos, serverVideos[v] # "deleted" PROVE \E r \in ServerRows : r.id = v
  <2>1. [id |-> v, status |-> serverVideos[v]] \in ServerRows
    BY <1>2, ServerRowsOf
  <2> QED
    BY <2>1
<1>3. QueryResult(p, answer) \in {AnswerList, AnswerObject, Empty, Failure}
  BY DEF QueryResult
<1> QED
  BY <1>1, <1>2, <1>3 DEF AnswerList, AnswerObject, Empty, Failure

(* A fetch that has just started yields nothing yet, or a failure.           *)
LEMMA StartedYields ==
  /\ \A p : Started(p).phase = "answered" => Started(p).yields = Failure
  /\ Failure.rows = {} /\ Failure.shape = "failure" /\ Failure.from = "answer"
  BY DEF Started, Failure

(* Mounting a page leaves the fetch or starts one.                           *)
LEMMA MountFetch ==
  ASSUME NEW p, NEW aged, Mount(p, aged) PROVE fetch' = fetch \/ fetch' = Started(p)
  BY DEF Mount

(* And for the buckets.                                                      *)
LEMMA QueryBuckets ==
  ASSUME TypeOK, ClaimsHold, list = "buckets", NEW p \in Readers,
         NEW answer \in {"ok", "refused", "lost"}, QueryResult(p, answer) # Failure
  PROVE \/ QueryResult(p, answer).from = "refusal"
        \/ /\ QueryResult(p, answer).from = "answer"
           /\ \A b \in made \cup Owned : \E r \in QueryResult(p, answer).rows : r.id = b
<1>1. ASSUME NEW b \in made \cup Owned PROVE \E r \in ServerRows : r.id = b
  <2>1. [id |-> b, status |-> "ready"] \in ServerRows
    BY ServerRowsOf DEF ClaimsHold, Plain
  <2> QED
    BY <2>1
<1>2. QueryResult(p, answer) \in {AnswerList, Empty}
  BY ReadersOf DEF QueryResult
<1> QED
  BY <1>1, <1>2 DEF AnswerList, Empty

(* Every step keeps the types.                                               *)
LEMMA TypeStep == TypeOK /\ [Next]_vars => TypeOK'
<1> SUFFICES ASSUME TypeOK, [Next]_vars PROVE TypeOK'
  OBVIOUS
<1>1. CASE Navigate
  BY <1>1, PagesOfReaders DEF Navigate, TypeOK, Pages, Entry, Failure, Goes, Mount, Started, Rendered, user, server, handlers
<1>2. CASE Reload
  <2>1. PICK p \in Pages \ {"video", "bucket"} :
         page' = p /\ fetch' = IF p \in Readers THEN Started(p) ELSE Idle
    BY <1>2 DEF Reload
  <2>3. invalid' \in BOOLEAN /\ failed' \in BOOLEAN /\ late' \in BOOLEAN /\ overtaken' \in BOOLEAN
    BY <1>2, Zenon DEF Reload, TypeOK
  <2>4. fetch' = Idle \/ fetch' \in [phase : {"asked"}, by : Pages, yields : {None}]
          \/ fetch' \in [phase : {"answered"}, by : {None}, yields : Entry \cup {Failure}]
    BY <2>1 DEF Started
  <2> QED
    BY <1>2, <2>1, <2>3, <2>4 DEF Reload, TypeOK, Idle, server
<1>3. CASE FetchServed
  <2>1. PICK answer \in {"ok", "refused", "lost"} :
         fetch' = [fetch EXCEPT !.phase = "answered", !.by = None,
                                !.yields = QueryResult(fetch.by, answer)]
    BY <1>3 DEF FetchServed
  <2>2. fetch.phase = "asked"
    BY <1>3 DEF FetchServed
  <2>3. fetch' \in [phase : {"answered"}, by : {None}, yields : Entry \cup {Failure}]
    BY <2>1, <2>2, QueryTyped DEF TypeOK, Idle
  <2> QED
    BY <1>3, <2>3 DEF FetchServed, TypeOK, user, server, handlers
<1>4. CASE FetchSettled
  <2>1. entry' = None \/ entry' \in Entry
    BY <1>4 DEF FetchSettled, TypeOK, Idle
  <2>2. page' \in Pages \cup {"crashed"} /\ (page' # "crashed" => page' = page)
    BY <1>4 DEF FetchSettled, Rendered, TypeOK
  <2>3. invalid' \in BOOLEAN /\ failed' \in BOOLEAN /\ late' \in BOOLEAN /\ overtaken' \in BOOLEAN
    BY <1>4, Zenon DEF FetchSettled, TypeOK
  <2>4. deletion' = None \/ deletion' \in
          [video : Videos, phase : {"asked", "done", "refused", "waiting", "leaving"}]
    BY <1>4 DEF FetchSettled, TypeOK
  <2> QED
    BY <1>4, <2>1, <2>2, <2>3, <2>4 DEF FetchSettled, TypeOK, Idle, server
<1>5. CASE Retry
  BY <1>5, PagesOfReaders DEF Retry, TypeOK, Pages, Entry, Failure, Invalidate, Refetches, Started, user, server, handlers
<1>6. CASE PollAsk
  BY <1>6, PagesOfReaders DEF PollAsk, TypeOK, Pages, Entry, Failure, user, server, query
<1>7. CASE PollServed
  BY <1>7, PagesOfReaders DEF PollServed, TypeOK, Pages, Entry, Failure, user, server, query
<1>8. CASE PollAnswered
  <2>1. entry' \in Entry
    BY <1>8 DEF PollAnswered, AnswerObject, Entry
  <2>2. page' \in Pages \cup {"crashed"} /\ (page' # "crashed" => page' = page)
    BY <1>8 DEF PollAnswered, Rendered, TypeOK
  <2>3. invalid' \in BOOLEAN /\ failed' \in BOOLEAN /\ late' \in BOOLEAN /\ overtaken' \in BOOLEAN
    BY <1>8, Zenon DEF PollAnswered, TypeOK
  <2> QED
    BY <1>8, <2>1, <2>2, <2>3 DEF PollAnswered, TypeOK, server
<1>9. CASE AskDelete
  BY <1>9, PagesOfReaders DEF AskDelete, TypeOK, Pages, Entry, Failure, user, server, query
<1>10. CASE DeleteServed
  BY <1>10, PagesOfReaders DEF DeleteServed, TypeOK, Pages, Entry, Failure, user, server, query
<1>11. CASE DeleteAnswered
  BY <1>11, PagesOfReaders DEF DeleteAnswered, TypeOK, Pages, Entry, Failure, Invalidate, Refetches, Started, user, server
<1>12. CASE DeleteLeaves
  BY <1>12, PagesOfReaders DEF DeleteLeaves, TypeOK, Pages, Entry, Failure, Goes, Mount, Started, Rendered, user, server
<1>13. CASE DeleteFails
  BY <1>13, PagesOfReaders DEF DeleteFails, TypeOK, Pages, Entry, Failure, user, server, query
<1>14. CASE AskCreate
  BY <1>14, PagesOfReaders DEF AskCreate, TypeOK, Pages, Entry, Failure, user, server, query
<1>15. CASE CreateServed
  BY <1>15, PagesOfReaders DEF CreateServed, TypeOK, Pages, Entry, Failure, user, query
<1>16. CASE CreateAnswered
  <2>1. entry' \in Entry
    BY <1>16, PrependedTyped DEF CreateAnswered, TypeOK, Row
  <2>3. invalid' \in BOOLEAN /\ failed' \in BOOLEAN /\ late' \in BOOLEAN /\ overtaken' \in BOOLEAN
    BY <1>16, Zenon DEF CreateAnswered, Invalidate, TypeOK
  <2> QED
    BY <1>16, <2>1, <2>3, PagesOfReaders
    DEF CreateAnswered, TypeOK, Invalidate, Refetches, Started, user, server
<1>17. CASE CreateFails
  BY <1>17, PagesOfReaders DEF CreateFails, TypeOK, Pages, Entry, Failure, user, server, query
<1>18. CASE DeleteBucket
  BY <1>18, PagesOfReaders DEF DeleteBucket, TypeOK, Pages, Entry, Failure, Goes, Mount, Started, Rendered, user, server, handlers
<1>19. CASE CreateKey
  <2>1. entry' \in Entry
    BY <1>19, PrependedTyped DEF CreateKey, Row
  <2>2. UNCHANGED late /\ UNCHANGED overtaken
    BY <1>19 DEF CreateKey
  <2>3. invalid' \in BOOLEAN /\ failed' \in BOOLEAN /\ late' \in BOOLEAN /\ overtaken' \in BOOLEAN
    BY <1>19, Zenon DEF CreateKey, TypeOK
  <2> QED
    BY <1>19, <2>1, <2>3 DEF CreateKey, TypeOK, user, server, handlers
<1>20. CASE RevokeKey
  <2>1. entry' \in Entry
    BY <1>20 DEF RevokeKey, KeysView, Shown, TypeOK, Entry
  <2>3. invalid' \in BOOLEAN /\ failed' \in BOOLEAN /\ late' \in BOOLEAN /\ overtaken' \in BOOLEAN
    BY <1>20, Zenon DEF RevokeKey, TypeOK
  <2> QED
    BY <1>20, <2>1, <2>3 DEF RevokeKey, TypeOK, user, server, handlers
<1>21. CASE Processed
  BY <1>21, PagesOfReaders DEF Processed, TypeOK, Pages, Entry, Failure, user, query, handlers
<1>22. CASE UNCHANGED vars
  BY <1>22, PagesOfReaders DEF TypeOK, Pages, Entry, Failure, vars, user, server, query, handlers
<1>23. CASE RefreshJobs
  <2>1. invalid' \in BOOLEAN
    BY <1>23, Zenon DEF RefreshJobs, TypeOK
  <2> QED
    BY <1>23, <2>1, PagesOfReaders DEF RefreshJobs, TypeOK, Pages, Started, user, server, handlers
<1> QED
  BY <1>1, <1>2, <1>3, <1>4, <1>5, <1>6, <1>7, <1>8, <1>9, <1>10, <1>11, <1>12, <1>13, <1>14, <1>15, <1>16, <1>17, <1>18, <1>19, <1>20, <1>21, <1>22, <1>23 DEF Next

(* What the toasts claim is so, and stays so.                              *)
LEMMA ClaimsStep == TypeOK /\ ClaimsHold /\ [Next]_vars => ClaimsHold'
<1> SUFFICES ASSUME TypeOK, ClaimsHold, [Next]_vars PROVE ClaimsHold'
  OBVIOUS
<1>1. CASE Navigate
  BY <1>1, SameList DEF Navigate, ClaimsHold, Goes, Mount, Started, Rendered, user, server, handlers
<1>2. CASE Reload
  BY <1>2, SameList DEF Reload, ClaimsHold, Started, Idle, user, server
<1>3. CASE FetchServed
  BY <1>3, SameList DEF FetchServed, ClaimsHold, user, server, handlers
<1>4. CASE FetchSettled
  BY <1>4, SameList DEF FetchSettled, ClaimsHold, TypeOK, server
<1>5. CASE Retry
  BY <1>5, SameList DEF Retry, ClaimsHold, Invalidate, Refetches, Started, user, server, handlers
<1>6. CASE PollAsk
  BY <1>6, SameList, ReadersOf DEF PollAsk, ClaimsHold, TypeOK, Lists, user, server, query
<1>7. CASE PollServed
  BY <1>7, SameList DEF PollServed, ClaimsHold, user, server, query
<1>8. CASE PollAnswered
  BY <1>8, SameList DEF PollAnswered, ClaimsHold, Rendered, AnswerObject, server
<1>9. CASE AskDelete
  BY <1>9, SameList DEF AskDelete, ClaimsHold, user, server, query
<1>10. CASE DeleteServed
  BY <1>10, SameList DEF DeleteServed, ClaimsHold, TypeOK, user, query
<1>11. CASE DeleteAnswered
  BY <1>11, SameList DEF DeleteAnswered, ClaimsHold, TypeOK, Invalidate, user, server
<1>12. CASE DeleteLeaves
  BY <1>12, SameList DEF DeleteLeaves, ClaimsHold, Goes, Mount, Started, Rendered, user, server
<1>13. CASE DeleteFails
  BY <1>13, SameList DEF DeleteFails, ClaimsHold, user, server, query
<1>14. CASE AskCreate
  BY <1>14, SameList DEF AskCreate, ClaimsHold, user, server, query
<1>15. CASE CreateServed
  BY <1>15, SameList DEF CreateServed, ClaimsHold, TypeOK, user, query
<1>16. CASE CreateAnswered
  BY <1>16, SameList DEF CreateAnswered, ClaimsHold, Prepended, Invalidate, Refetches, Started, user, server
<1>17. CASE CreateFails
  BY <1>17, SameList DEF CreateFails, ClaimsHold, user, server, query
<1>18. CASE DeleteBucket
  BY <1>18, SameList DEF DeleteBucket, ClaimsHold, Goes, Mount, Started, Rendered, user, server, handlers
<1>19. CASE CreateKey
  BY <1>19, SameList DEF CreateKey, ClaimsHold, Prepended, user, server, handlers
<1>20. CASE RevokeKey
  BY <1>20, SameList DEF RevokeKey, ClaimsHold, user, server, handlers
<1>21. CASE Processed
  BY <1>21, SameList DEF Processed, ClaimsHold, TypeOK, user, query, handlers
<1>22. CASE UNCHANGED vars
  BY <1>22, SameList DEF ClaimsHold, vars, user, server, query, handlers
<1>23. CASE RefreshJobs
  BY <1>23, SameList DEF RefreshJobs, ClaimsHold, user, server, handlers
<1> QED
  BY <1>1, <1>2, <1>3, <1>4, <1>5, <1>6, <1>7, <1>8, <1>9, <1>10, <1>11, <1>12, <1>13, <1>14, <1>15, <1>16, <1>17, <1>18, <1>19, <1>20, <1>21, <1>22, <1>23 DEF Next

(* A page on screen has something to show or to wait for.                  *)
LEMMA FetchStep == TypeOK /\ FetchOK /\ [Next]_vars => FetchOK'
<1> SUFFICES ASSUME TypeOK, FetchOK, [Next]_vars PROVE FetchOK'
  OBVIOUS
<1>1. CASE Navigate
  <2>1. PICK p \in Pages, aged \in BOOLEAN : Mount(p, aged)
    BY <1>1 DEF Navigate, Goes
  <2> QED
    BY <1>1, <2>1, SameList, MountFetchOK DEF Navigate, server, handlers
<1>2. CASE Reload
  BY <1>2, SameList DEF Reload, FetchOK, TypeOK, Idle, Throws, Started, user, server
<1>3. CASE FetchServed
  <2>1. fetch'.phase = "answered"
    BY <1>3 DEF FetchServed, TypeOK, Idle
  <2>2. fetch' # Idle /\ fetch'.phase # "asked"
    BY <2>1 DEF Idle
  <2>3. UNCHANGED <<entry, invalid, failed, page>>
    BY <1>3 DEF FetchServed, user
  <2> QED
    BY <2>2, <2>3, SameList DEF FetchOK
<1>4. CASE FetchSettled
  <2>1. fetch'.phase # "asked"
    BY <1>4 DEF FetchSettled, Idle
  <2>2. CASE fetch.yields = Failure
    BY <1>4, <2>1, <2>2, SameList DEF FetchSettled, FetchOK
  <2>3. CASE fetch.yields # Failure
    <3>1. entry' \in Entry /\ ~invalid' /\ page' = Rendered(page, entry')
      BY <1>4, <2>3 DEF FetchSettled, TypeOK, Idle
    <3>2. entry' # None
      BY <3>1, NoneAssumption
    <3>3. page' \in Readers => entry'.shape = "list"
      BY <3>1, <3>2, Crashed DEF Rendered, Entry, TypeOK
    <3> QED
      BY <2>1, <3>1, <3>2, <3>3, SameList DEF FetchOK
  <2> QED
    BY <2>2, <2>3
<1>5. CASE Retry
  BY <1>5, SameList DEF Retry, FetchOK, TypeOK, Idle, Throws, Invalidate, Refetches, Started, user, server, handlers
<1>6. CASE PollAsk
  BY <1>6, SameList DEF PollAsk, FetchOK, TypeOK, Idle, Throws, user, server, query
<1>7. CASE PollServed
  BY <1>7, SameList DEF PollServed, FetchOK, TypeOK, Idle, Throws, user, server, query
<1>8. CASE PollAnswered
  <2>1. entry' # None
    BY <1>8, NoneAssumption DEF PollAnswered, AnswerObject, Entry
  <2>2. ~invalid' /\ fetch' = fetch /\ page' = Rendered(page, entry') /\ entry'.shape = "object"
    BY <1>8 DEF PollAnswered, AnswerObject
  <2>3. page' \notin Readers
    BY <2>1, <2>2, Crashed DEF Rendered, TypeOK
  <2> QED
    BY <2>2, <2>3, SameList DEF FetchOK, Throws
<1>9. CASE AskDelete
  BY <1>9, SameList DEF AskDelete, FetchOK, TypeOK, Idle, Throws, user, server, query
<1>10. CASE DeleteServed
  BY <1>10, SameList DEF DeleteServed, FetchOK, TypeOK, Idle, Throws, user, server, query
<1>11. CASE DeleteAnswered
  BY <1>11, SameList DEF DeleteAnswered, FetchOK, TypeOK, Idle, Throws, Invalidate, Refetches, Started, user, server
<1>12. CASE DeleteLeaves
  <2>1. CASE page = "videos"
    BY <1>12, <2>1, SameList DEF DeleteLeaves, FetchOK, Throws, user
  <2>2. CASE page # "videos"
    BY <1>12, <2>2, SameList, MountFetchOK DEF DeleteLeaves, Goes, Pages
  <2> QED
    BY <2>1, <2>2
<1>13. CASE DeleteFails
  BY <1>13, SameList DEF DeleteFails, FetchOK, TypeOK, Idle, Throws, user, server, query
<1>14. CASE AskCreate
  BY <1>14, SameList DEF AskCreate, FetchOK, TypeOK, Idle, Throws, user, server, query
<1>15. CASE CreateServed
  BY <1>15, SameList DEF CreateServed, FetchOK, TypeOK, Idle, Throws, user, query
<1>16. CASE CreateAnswered
  BY <1>16, SameList DEF CreateAnswered, FetchOK, TypeOK, Idle, Throws, Prepended, Invalidate, Refetches, Started, user, server
<1>17. CASE CreateFails
  BY <1>17, SameList DEF CreateFails, FetchOK, TypeOK, Idle, Throws, user, server, query
<1>18. CASE DeleteBucket
  BY <1>18, SameList, MountFetchOK DEF DeleteBucket, Goes, Pages
<1>19. CASE CreateKey
  <2>1. PICK k \in Invented : entry' = Prepended([id |-> k, status |-> "ready"])
    BY <1>19 DEF CreateKey
  <2>2. entry' \in Entry
    BY <2>1, PrependedTyped DEF Row
  <2>3. entry' # None
    BY <2>2, NoneAssumption
  <2>4. entry = None \/ entry.shape = "list" => entry'.shape = "list"
    BY <2>1 DEF Prepended, TypeOK, Entry
  <2> QED
    BY <1>19, <2>3, <2>4, SameList DEF CreateKey, FetchOK, Throws, user
<1>20. CASE RevokeKey
  <2>1. entry' \in Entry /\ entry'.shape = entry.shape
    BY <1>20 DEF RevokeKey, KeysView, Shown, TypeOK, Entry
  <2>2. entry' # None
    BY <2>1, NoneAssumption
  <2> QED
    BY <1>20, <2>1, <2>2, SameList DEF RevokeKey, KeysView, Shown, FetchOK, Throws, user
<1>21. CASE Processed
  BY <1>21, SameList DEF Processed, FetchOK, TypeOK, Idle, Throws, user, query, handlers
<1>22. CASE UNCHANGED vars
  BY <1>22, SameList DEF FetchOK, TypeOK, Idle, Throws, vars, user, server, query, handlers
<1>23. CASE RefreshJobs
  BY <1>23, SameList, ReadersOf DEF RefreshJobs, FetchOK, TypeOK, Started, Idle, Throws, user, server, handlers
<1> QED
  BY <1>1, <1>2, <1>3, <1>4, <1>5, <1>6, <1>7, <1>8, <1>9, <1>10, <1>11, <1>12, <1>13, <1>14, <1>15, <1>16, <1>17, <1>18, <1>19, <1>20, <1>21, <1>22, <1>23 DEF Next

(* The list of videos: complete unless refused, without a row that is gone.  *)
LEMMA VideosStep == TypeOK /\ ClaimsHold /\ FetchOK /\ VideosOK /\ [Next]_vars => VideosOK'
<1> SUFFICES ASSUME TypeOK, ClaimsHold, FetchOK, VideosOK, [Next]_vars PROVE VideosOK'
  OBVIOUS
<1>1. CASE Navigate
  <2>1. PICK p \in Pages : fetch' = fetch \/ fetch' = Started(p)
    BY <1>1, MountFetch DEF Navigate, Goes
  <2>2. UNCHANGED <<entry, invalid, overtaken, late, claimed, serverVideos>>
    BY <1>1 DEF Navigate, server, handlers
  <2> QED
    BY <2>1, <2>2, SameList, StartedYields DEF VideosOK, HasRow, Yields
<1>2. CASE Reload
  <2>1. entry' = None /\ (fetch'.phase = "answered" => fetch'.yields = Failure)
    BY <1>2, StartedYields DEF Reload, Idle
  <2> QED
    BY <2>1, SameList, StartedYields DEF VideosOK, HasRow, Yields
<1>3. CASE FetchServed
  <2>1. PICK answer \in {"ok", "refused", "lost"} :
         fetch' = [fetch EXCEPT !.phase = "answered", !.by = None,
                                !.yields = QueryResult(fetch.by, answer)]
    BY <1>3 DEF FetchServed
  <2>2. fetch'.yields = QueryResult(fetch.by, answer)
    BY <1>3, <2>1 DEF FetchServed, TypeOK, Idle
  <2>3. UNCHANGED <<entry, invalid, overtaken, late, claimed, serverVideos>>
    BY <1>3 DEF FetchServed, server, handlers
  <2> QED
    BY <2>2, <2>3, SameList, QueryVideos DEF VideosOK, HasRow, Yields
<1>4. CASE FetchSettled
  BY <1>4, SameList DEF FetchSettled, VideosOK, HasRow, Yields, Idle, Rendered, server
<1>5. CASE Retry
  BY <1>5, SameList, StartedYields DEF Retry, VideosOK, HasRow, Yields, Invalidate, server, handlers, TypeOK, Idle
<1>6. CASE PollAsk
  BY <1>6, SameList DEF PollAsk, VideosOK, HasRow, Yields, user, server, query
<1>7. CASE PollServed
  BY <1>7, SameList DEF PollServed, VideosOK, HasRow, Yields, user, server, query
<1>8. CASE PollAnswered
  BY <1>8, SameList DEF PollAnswered, VideosOK, HasRow, Yields, Rendered, AnswerObject, server
<1>9. CASE AskDelete
  BY <1>9, SameList DEF AskDelete, VideosOK, HasRow, Yields, user, server, query
<1>10. CASE DeleteServed
  <2>1. \A v \in Videos : serverVideos[v] = "deleted" => serverVideos'[v] = "deleted"
    BY <1>10 DEF DeleteServed, TypeOK
  <2>2. UNCHANGED <<entry, fetch, invalid, overtaken, late, claimed>>
    BY <1>10 DEF DeleteServed, query
  <2> QED
    BY <2>1, <2>2, SameList DEF VideosOK, HasRow, Yields
<1>11. CASE DeleteAnswered
  <2>1. invalid' /\ UNCHANGED <<entry, serverVideos, late>>
    BY <1>11 DEF DeleteAnswered, Invalidate, server
  <2>2. \/ fetch' = Started(page)
        \/ fetch' = fetch /\ (fetch # Idle => overtaken')
    BY <1>11 DEF DeleteAnswered, Invalidate
  <2>3. fetch.phase = "answered" => fetch # Idle
    BY DEF Idle
  <2> QED
    BY <2>1, <2>2, <2>3, SameList, StartedYields DEF VideosOK, HasRow, Yields
<1>12. CASE DeleteLeaves
  <2>1. fetch' = fetch \/ fetch' = Started("videos")
    BY <1>12, MountFetch DEF DeleteLeaves, Goes
  <2>2. UNCHANGED <<entry, invalid, overtaken, late, claimed, serverVideos>>
    BY <1>12 DEF DeleteLeaves, server
  <2> QED
    BY <2>1, <2>2, SameList, StartedYields DEF VideosOK, HasRow, Yields
<1>13. CASE DeleteFails
  BY <1>13, SameList DEF DeleteFails, VideosOK, HasRow, Yields, user, server, query
<1>14. CASE AskCreate
  BY <1>14, SameList DEF AskCreate, VideosOK, HasRow, Yields, user, server, query
<1>15. CASE CreateServed
  BY <1>15, SameList DEF CreateServed, VideosOK, HasRow, Yields, user, query
<1>16. CASE CreateAnswered
  BY <1>16, SameList DEF CreateAnswered, ClaimsHold, VideosOK
<1>17. CASE CreateFails
  BY <1>17, SameList DEF CreateFails, VideosOK, HasRow, Yields, user, server, query
<1>18. CASE DeleteBucket
  BY <1>18, SameList DEF DeleteBucket, VideosOK, HasRow, Yields, Goes, Mount, Started, Rendered, user, server, handlers
<1>19. CASE CreateKey
  BY <1>19, SameList DEF CreateKey, VideosOK, HasRow, Yields, Prepended, user, server, handlers
<1>20. CASE RevokeKey
  BY <1>20, SameList DEF RevokeKey, VideosOK, HasRow, Yields, user, server, handlers
<1>21. CASE Processed
  BY <1>21, SameList DEF Processed, VideosOK, HasRow, Yields, user, query, handlers
<1>22. CASE UNCHANGED vars
  BY <1>22, SameList DEF VideosOK, HasRow, Yields, vars, user, server, query, handlers
<1>23. CASE RefreshJobs
  BY <1>23, SameList DEF RefreshJobs, VideosOK
<1> QED
  BY <1>1, <1>2, <1>3, <1>4, <1>5, <1>6, <1>7, <1>8, <1>9, <1>10, <1>11, <1>12, <1>13, <1>14, <1>15, <1>16, <1>17, <1>18, <1>19, <1>20, <1>21, <1>22, <1>23 DEF Next

(* The list of buckets: what was created is in it.                           *)
LEMMA BucketsStep == TypeOK /\ ClaimsHold /\ FetchOK /\ BucketsOK /\ [Next]_vars => BucketsOK'
<1> SUFFICES ASSUME TypeOK, ClaimsHold, FetchOK, BucketsOK, [Next]_vars PROVE BucketsOK'
  OBVIOUS
<1>1. CASE Navigate
  BY <1>1, SameList DEF Navigate, BucketsOK, HasRow, Yields, Goes, Mount, Started, Rendered, user, server, handlers
<1>2. CASE Reload
  BY <1>2, SameList DEF Reload, BucketsOK, HasRow, Yields, Started, Idle, user, server
<1>3. CASE FetchServed
  <2>1. PICK answer \in {"ok", "refused", "lost"} :
         fetch' = [fetch EXCEPT !.phase = "answered", !.by = None,
                                !.yields = QueryResult(fetch.by, answer)]
    BY <1>3 DEF FetchServed
  <2>2. fetch'.yields = QueryResult(fetch.by, answer) /\ fetch.by \in Readers
    BY <1>3, <2>1 DEF FetchServed, TypeOK, Idle, FetchOK
  <2>3. UNCHANGED <<entry, invalid, overtaken, late, made>>
    BY <1>3 DEF FetchServed, handlers
  <2> QED
    BY <2>2, <2>3, SameList, QueryBuckets DEF BucketsOK, HasRow, Yields
<1>4. CASE FetchSettled
  BY <1>4, SameList DEF FetchSettled, BucketsOK, HasRow, Yields, Idle, Rendered, server
<1>5. CASE Retry
  BY <1>5, SameList DEF Retry, BucketsOK, HasRow, Yields, Invalidate, Refetches, Started, user, server, handlers
<1>6. CASE PollAsk
  BY <1>6, SameList DEF PollAsk, BucketsOK, HasRow, Yields, user, server, query
<1>7. CASE PollServed
  BY <1>7, SameList DEF PollServed, BucketsOK, HasRow, Yields, user, server, query
<1>8. CASE PollAnswered
  BY <1>8, SameList DEF PollAnswered, ClaimsHold, BucketsOK
<1>9. CASE AskDelete
  BY <1>9, SameList DEF AskDelete, BucketsOK, HasRow, Yields, user, server, query
<1>10. CASE DeleteServed
  BY <1>10, SameList DEF DeleteServed, BucketsOK, HasRow, Yields, user, server, query
<1>11. CASE DeleteAnswered
  BY <1>11, SameList DEF DeleteAnswered, ClaimsHold, BucketsOK
<1>12. CASE DeleteLeaves
  BY <1>12, SameList DEF DeleteLeaves, BucketsOK, HasRow, Yields, Goes, Mount, Started, Rendered, user, server
<1>13. CASE DeleteFails
  BY <1>13, SameList DEF DeleteFails, BucketsOK, HasRow, Yields, user, server, query
<1>14. CASE AskCreate
  BY <1>14, SameList DEF AskCreate, BucketsOK, HasRow, Yields, user, server, query
<1>15. CASE CreateServed
  BY <1>15, SameList DEF CreateServed, BucketsOK, HasRow, Yields, user, query
<1>16. CASE CreateAnswered
  <2>1. invalid' /\ UNCHANGED late /\ made' = made \cup {creation.bucket}
    BY <1>16 DEF CreateAnswered, Invalidate
  <2>2. entry' = Prepended([id |-> creation.bucket, status |-> "ready"])
    BY <1>16 DEF CreateAnswered
  <2>3. creation.bucket \in Buckets
    BY <1>16 DEF CreateAnswered, TypeOK
  <2>4. entry' # None
    BY <2>2, <2>3, PrependedTyped, NoneAssumption DEF Row
  <2>5. /\ entry # None => entry'.from = entry.from
        /\ entry = None => entry'.from = "local"
        /\ entry'.rows = (IF entry = None THEN {} ELSE entry.rows)
                           \cup {[id |-> creation.bucket, status |-> "ready"]}
    BY <2>2 DEF Prepended, TypeOK, Entry
  <2>6. /\ \E r \in entry'.rows : r.id = creation.bucket
        /\ \A b \in made \cup Owned : HasRow(b) => \E r \in entry'.rows : r.id = b
    <3>1. [id |-> creation.bucket, status |-> "ready"].id = creation.bucket
      OBVIOUS
    <3> QED
      BY <2>5, <3>1, Zenon DEF HasRow
  <2>7. \/ fetch' = Started(page)
        \/ fetch' = fetch /\ (fetch # Idle => overtaken')
    BY <1>16 DEF CreateAnswered, Invalidate
  <2>8. fetch.phase = "answered" => fetch # Idle
    BY DEF Idle
  <2>9. list = "buckets" /\ fetch'.phase = "answered" /\ fetch'.yields # Failure =>
          \/ fetch'.yields.from = "refusal"
          \/ fetch'.yields.from = "answer" /\ overtaken' /\ \A b \in Owned : Yields(b)'
    BY <2>7, <2>8, StartedYields DEF BucketsOK, Yields
  <2> QED
    BY <2>1, <2>4, <2>5, <2>9, <2>6, SameList DEF BucketsOK, HasRow
<1>17. CASE CreateFails
  BY <1>17, SameList DEF CreateFails, BucketsOK, HasRow, Yields, user, server, query
<1>18. CASE DeleteBucket
  BY <1>18, SameList DEF DeleteBucket, BucketsOK, HasRow, Yields, Goes, Mount, Started, Rendered, user, server, handlers
<1>19. CASE CreateKey
  BY <1>19, SameList DEF CreateKey, BucketsOK, HasRow, Yields, Prepended, user, server, handlers
<1>20. CASE RevokeKey
  BY <1>20, SameList DEF RevokeKey, BucketsOK, HasRow, Yields, user, server, handlers
<1>21. CASE Processed
  BY <1>21, SameList DEF Processed, BucketsOK, HasRow, Yields, user, query, handlers
<1>22. CASE UNCHANGED vars
  BY <1>22, SameList DEF BucketsOK, HasRow, Yields, vars, user, server, query, handlers
<1>23. CASE RefreshJobs
  BY <1>23, SameList DEF RefreshJobs, BucketsOK
<1> QED
  BY <1>1, <1>2, <1>3, <1>4, <1>5, <1>6, <1>7, <1>8, <1>9, <1>10, <1>11, <1>12, <1>13, <1>14, <1>15, <1>16, <1>17, <1>18, <1>19, <1>20, <1>21, <1>22, <1>23 DEF Next

(* The jobs are never known: their query fails before it asks.              *)
LEMMA JobsStep == TypeOK /\ ClaimsHold /\ FetchOK /\ JobsOK /\ [Next]_vars => JobsOK'
<1> SUFFICES ASSUME TypeOK, ClaimsHold, FetchOK, JobsOK, [Next]_vars,
                    list = "jobs"
             PROVE  entry' = None /\ (fetch'.phase = "answered" => fetch'.yields = Failure)
  BY SameList DEF JobsOK
<1>0. entry = None /\ (fetch.phase = "answered" => fetch.yields = Failure)
  BY DEF JobsOK
<1> USE <1>0
<1>1. CASE Navigate
  BY <1>1, MountFetch, StartedYields DEF Navigate, Goes
<1>2. CASE Reload
  BY <1>2, StartedYields DEF Reload, Invalidate, Idle
<1>3. CASE FetchServed
  BY <1>3 DEF FetchServed, FetchOK, Throws
<1>4. CASE FetchSettled
  BY <1>4 DEF FetchSettled, Idle
<1>5. CASE Retry
  BY <1>5, StartedYields DEF Retry, Invalidate, Idle
<1>6. CASE PollAsk
  BY <1>6, ReadersOf DEF PollAsk, ClaimsHold, query
<1>7. CASE PollServed
  BY <1>7 DEF PollServed, ClaimsHold, query
<1>8. CASE PollAnswered
  BY <1>8 DEF PollAnswered, ClaimsHold, query
<1>9. CASE AskDelete
  BY <1>9 DEF AskDelete, ClaimsHold
<1>10. CASE DeleteServed
  BY <1>10 DEF DeleteServed, ClaimsHold
<1>11. CASE DeleteAnswered
  BY <1>11 DEF DeleteAnswered, ClaimsHold
<1>12. CASE DeleteLeaves
  BY <1>12 DEF DeleteLeaves, ClaimsHold
<1>13. CASE DeleteFails
  BY <1>13 DEF DeleteFails, ClaimsHold
<1>14. CASE AskCreate
  BY <1>14 DEF AskCreate, ClaimsHold
<1>15. CASE CreateServed
  BY <1>15 DEF CreateServed, ClaimsHold
<1>16. CASE CreateAnswered
  BY <1>16 DEF CreateAnswered, ClaimsHold
<1>17. CASE CreateFails
  BY <1>17 DEF CreateFails, ClaimsHold
<1>18. CASE DeleteBucket
  BY <1>18 DEF DeleteBucket, ClaimsHold
<1>19. CASE CreateKey
  BY <1>19 DEF CreateKey, ClaimsHold
<1>20. CASE RevokeKey
  BY <1>20 DEF RevokeKey, ClaimsHold
<1>21. CASE Processed
  BY <1>21 DEF Processed, query
<1>22. CASE UNCHANGED vars
  BY <1>22 DEF vars, query
<1>23. CASE RefreshJobs
  BY <1>23, StartedYields DEF RefreshJobs, Invalidate, Idle
<1> QED
  BY <1>1, <1>2, <1>3, <1>4, <1>5, <1>6, <1>7, <1>8, <1>9, <1>10, <1>11, <1>12, <1>13, <1>14, <1>15, <1>16, <1>17, <1>18, <1>19, <1>20, <1>21, <1>22, <1>23 DEF Next

(* The invariant holds at the start.                                         *)
LEMMA InitOK == Init => IInv
<1> SUFFICES ASSUME Init PROVE IInv
  OBVIOUS
<1>1. Failure \in Entry \cup {Failure} /\ "home" \in Pages
  BY DEF Pages
<1>2. invalid \in BOOLEAN /\ failed \in BOOLEAN /\ late \in BOOLEAN /\ overtaken \in BOOLEAN
  BY Zenon DEF Init
<1>3. TypeOK
  BY <1>1, <1>2, CacheAssumption DEF Init, TypeOK, Started, Idle
<1>4. ClaimsHold
  BY DEF Init, ClaimsHold
<1>5. FetchOK
  BY <1>1, <1>3 DEF Init, FetchOK, Started, Idle
<1>6. VideosOK
  BY DEF Init, VideosOK, HasRow, Yields, Started, Idle, Failure
<1>7. BucketsOK
  BY DEF Init, BucketsOK, HasRow, Yields, Started, Idle
<1>8. JobsOK
  BY DEF Init, JobsOK, Started, Idle
<1> QED
  BY <1>3, <1>4, <1>5, <1>6, <1>7, <1>8 DEF IInv

(* The inductive invariant: the types, the claims of the toasts, the data a  *)
(* page on screen has, and what the list followed contains.                  *)
THEOREM Inductive == Spec => []IInv
<1>1. IInv /\ [Next]_vars => IInv'
  BY TypeStep, ClaimsStep, FetchStep, VideosStep, BucketsStep, JobsStep DEF IInv
<1> QED
  BY InitOK, <1>1, PTL DEF Spec

(* No list shows a deleted video for longer than a fetch, but for an answer  *)
(* the invalidation left in flight.                                          *)
THEOREM DeletedRowsGo == Spec => []DeletedRowIsReplaced
<1>1. IInv => DeletedRowIsReplaced
  BY ReadersOf DEF IInv, VideosOK, FetchOK, DeletedRowIsReplaced, HasRow
<1> QED
  BY Inductive, <1>1, PTL

(* A created bucket is in every cached list that a proper answer made.       *)
THEOREM CreatedBucketsStay == Spec => []CreatedBucketIsKept
<1>1. IInv => CreatedBucketIsKept
  BY DEF IInv, BucketsOK, CreatedBucketIsKept
<1> QED
  BY Inductive, <1>1, PTL

(* A row that is in the data is seen by the view of its page.               *)
LEMMA VideoIsShown ==
  ASSUME IInv, list = "videos", HasRow(target), VideoView = "not found"
  PROVE  FALSE
<1>1. PICK r \in entry.rows : entry # None /\ r.id = target
  BY DEF HasRow
<1>2. entry.rows \subseteq Row
  BY <1>1 DEF IInv, TypeOK, Entry
<1>3. r = [id |-> r.id, status |-> r.status] /\ r.status \in {"busy", "ready"}
  BY <1>2 DEF Row
<1>4. r \in Shown
  BY <1>1 DEF Shown
<1> QED
  BY <1>1, <1>3, <1>4 DEF VideoView, Loading

(* What exists is called not found only after a failure, a refusal or a      *)
(* local write, or while the page loads.                                     *)
THEOREM NotFoundMeansFailure == Spec => []NotFoundIsFailure
<1>1. ASSUME IInv, page \in Readers, ~failed, entry = None
      PROVE Loading
  BY <1>1 DEF IInv, FetchOK, Loading
<1>2. ASSUME IInv, list = "videos", page \in Readers, entry # None, entry.from = "answer",
             NEW v \in Existing
      PROVE HasRow(v)
  BY <1>2 DEF IInv, FetchOK, VideosOK, Existing
<1>3. ASSUME IInv, list = "buckets", entry # None, entry.from = "answer", NEW b \in Owned
      PROVE HasRow(b)
  BY <1>3 DEF IInv, BucketsOK
<1>4. ASSUME NEW x, HasRow(x)
      PROVE Shown # {}
  BY <1>4 DEF HasRow, Shown
<1>5. ASSUME entry # None
      PROVE ~Loading
  BY <1>5 DEF Loading
<1>6. ASSUME IInv, list = "videos", Existing # {}
      PROVE NotFoundIsFailure
  <2> USE <1>6
  <2>1. Readers = {"home", "videos", "video", "activity"} /\ list # "buckets"
    BY ReadersOf
  <2>2. CASE failed \/ (entry # None /\ entry.from # "answer")
    BY <2>1, <2>2 DEF NotFoundIsFailure
  <2>3. CASE ~failed /\ entry = None
    BY <2>1, <2>3, <1>1 DEF NotFoundIsFailure, VideoView, VideosView, ActivityView
  <2>4. CASE ~failed /\ entry # None /\ entry.from = "answer"
    <3>1. page \in Readers => Shown # {}
      BY <2>4, <1>2, <1>4
    <3>2. page = "video" /\ target \in Existing => VideoView # "not found"
      BY <2>1, <2>4, <1>2, VideoIsShown
    <3> QED
      BY <2>1, <2>4, <3>1, <3>2, <1>5 DEF NotFoundIsFailure, VideosView, ActivityView, HomeView, IsError
  <2> QED
    BY <2>2, <2>3, <2>4
<1>7. ASSUME IInv, list = "buckets", Owned # {}
      PROVE NotFoundIsFailure
  <2> USE <1>7
  <2>1. Readers = {"home", "buckets", "bucket"} /\ list # "videos"
    BY ReadersOf
  <2>2. CASE failed \/ (entry # None /\ entry.from # "answer")
    BY <2>1, <2>2 DEF NotFoundIsFailure
  <2>3. CASE ~failed /\ entry = None
    BY <2>1, <2>3, <1>1 DEF NotFoundIsFailure, BucketView, BucketsView
  <2>4. CASE ~failed /\ entry # None /\ entry.from = "answer"
    <3>1. page \in Readers => Shown # {}
      BY <2>4, <1>3, <1>4
    <3>2. page = "bucket" /\ target \in Owned => BucketView # "not found"
      BY <2>1, <2>4, <1>3, <1>5 DEF BucketView
    <3> QED
      BY <2>1, <2>4, <3>1, <3>2, <1>5 DEF NotFoundIsFailure, BucketsView, HomeView, IsError
  <2> QED
    BY <2>2, <2>3, <2>4
<1>8. ASSUME IInv, list = "jobs", Existing # {}
      PROVE NotFoundIsFailure
  <2> USE <1>8
  <2>1. Readers = {"convert"} /\ list # "videos" /\ list # "buckets"
    BY ReadersOf
  <2>2. CASE failed \/ (entry # None /\ entry.from # "answer")
    BY <2>1, <2>2 DEF NotFoundIsFailure
  <2>3. CASE ~failed /\ entry = None
    BY <2>1, <2>3, <1>1 DEF NotFoundIsFailure
  <2>4. CASE ~failed /\ entry # None /\ entry.from = "answer"
    BY <2>4 DEF IInv, JobsOK
  <2> QED
    BY <2>2, <2>3, <2>4
<1>9. IInv => NotFoundIsFailure
  BY <1>6, <1>7, <1>8, Zenon DEF NotFoundIsFailure
<1> QED
  BY Inductive, <1>9, PTL
==============================================================================
