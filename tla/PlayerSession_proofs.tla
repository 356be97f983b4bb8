------------------------ MODULE PlayerSession_proofs ------------------------
(***************************************************************************)
(* The invariant of PlayerSession is inductive: the player knows of a      *)
(* fresh entry of its video, and its track agrees with the URL of the last *)
(* load.                                                                   *)
(***************************************************************************)
EXTENDS PlayerSession, TLAPS

(* What the proofs use of the constants.                                     *)
LEMMA Constants ==
  /\ LockAfter \in Nat /\ HeartbeatEvery \in Nat /\ Length \in Nat
  /\ MaxLoads \in Nat /\ MaxEvents \in Nat /\ None \notin Videos
  BY PlayerAssumption

(* An event carries the token of loaded data, the video of the render and    *)
(* two flags.                                                                *)
LEMMA SendTyped ==
  ASSUME TypeOK, LoadingIsRequest, data # None, NEW time \in Int, SendAnalyticsEvent(time)
  PROVE events' \subseteq Event
<1> DEFINE long == time >= LockAfter
           unique == eligible /\ ~locked /\ long
<1>1. CASE events' = events
  BY <1>1 DEF TypeOK
<1>2. ASSUME NEW s \in Slots, events' = events \cup
        {[slot |-> s, token |-> data, key |-> tracking, unique |-> unique, long |-> long]}
      PROVE events' \subseteq Event
  <2>1. long \in BOOLEAN
    BY SMT, Constants
  <2>2. unique \in BOOLEAN
    BY Zenon
  <2>3. data \in Videos /\ tracking \in Videos /\ events \subseteq Event
    BY DEF TypeOK, LoadingIsRequest
  <2> HIDE DEF long, unique
  <2> QED
    BY <1>2, <2>1, <2>2, <2>3 DEF Event
<1> QED
  BY <1>1, <1>2, Zenon DEF SendAnalyticsEvent

(* Every step keeps the types.                                               *)
LEMMA TypeStep == LoadingIsRequest /\ TypeOK /\ [Next]_vars => TypeOK'
<1> SUFFICES ASSUME LoadingIsRequest, TypeOK, [Next]_vars PROVE TypeOK'
  OBVIOUS
<1> USE Constants
<1>1. ASSUME NEW v \in Videos, Show(v) PROVE TypeOK'
  BY <1>1 DEF Show, TypeOK, InitLock, FetchVideoData, media, blobs
<1>2. ASSUME NEW v \in Videos, Loaded(v) PROVE TypeOK'
  <2>1. playing' \in BOOLEAN /\ loading' \in BOOLEAN
    BY <1>2, Zenon DEF Loaded
  <2>2. PICK u \in SubtitleUrls(loads + 1, v) : UseSrtAsVttUrl(u)
    BY <1>2 DEF Loaded
  <2>3. subtitles' \in [Loads -> {"none", "loading", "cancelled", "live", "revoked"}]
    BY <2>2 DEF UseSrtAsVttUrl, Cleanup, TypeOK
  <2>4. url' \in 0..MaxLoads /\ loads' \in 0..MaxLoads
    BY <1>2, <2>2 DEF Loaded, UseSrtAsVttUrl, SubtitleUrls, TypeOK
  <2> QED
    BY <1>2, <2>1, <2>3, <2>4 DEF Loaded, TypeOK, views
<1>3. ASSUME NEW v \in Videos, LockExpires(v) PROVE TypeOK'
  BY <1>3 DEF LockExpires, TypeOK, page, media, blobs
<1>15. ASSUME NEW v \in Videos, OtherTab(v) PROVE TypeOK'
  BY <1>15 DEF OtherTab, TypeOK, page, media, blobs
<1>4. ASSUME LoadFails PROVE TypeOK'
  BY <1>4 DEF LoadFails, TypeOK, views, media, blobs
<1>5. ASSUME OnPlay PROVE TypeOK'
  <2>1. events' \subseteq Event
    BY <1>5, SendTyped DEF OnPlay, PlayerView, TypeOK
  <2>2. playing' \in BOOLEAN
    BY <1>5, Zenon DEF OnPlay, TypeOK
  <2> QED
    BY <1>5, <2>1, <2>2 DEF OnPlay, TypeOK, page, views, blobs
<1>6. ASSUME OnPause PROVE TypeOK'
  <2>1. events' \subseteq Event
    BY <1>6, SendTyped DEF OnPause, PlayerView, TypeOK
  <2>2. playing' \in BOOLEAN
    BY <1>6, Zenon DEF OnPause, TypeOK
  <2> QED
    BY <1>6, <2>1, <2>2 DEF OnPause, TypeOK, page, views, blobs
<1>7. ASSUME OnEnded PROVE TypeOK'
  <2>1. events' \subseteq Event
    BY <1>7, SendTyped DEF OnEnded, PlayerView, TypeOK
  <2>2. playing' \in BOOLEAN
    BY <1>7, Zenon DEF OnEnded, TypeOK
  <2> QED
    BY <1>7, <2>1, <2>2 DEF OnEnded, TypeOK, page, views, blobs
<1>8. ASSUME NEW p \in 0..Length, OnSeeked(p) PROVE TypeOK'
  <2>1. events' \subseteq Event
    BY <1>8, SendTyped DEF OnSeeked, PlayerView, TypeOK
  <2>2. playing' \in BOOLEAN
    BY <1>8, Zenon DEF OnSeeked, TypeOK
  <2> QED
    BY <1>8, <2>1, <2>2 DEF OnSeeked, TypeOK, page, views, blobs
<1>9. ASSUME NEW p \in 0..Length, OnTimeUpdate(p) PROVE TypeOK'
  <2>1. events' \subseteq Event
    BY <1>9, SendTyped DEF OnTimeUpdate, PlayerView, TypeOK
  <2>2. position' \in 0..Length /\ lastBeat' \in 0..Length
    BY <1>9 DEF OnTimeUpdate, TypeOK
  <2> QED
    BY <1>9, <2>1, <2>2 DEF OnTimeUpdate, TypeOK, page, views, blobs
<1>10. ASSUME NEW e \in events, EventAnswered(e) PROVE TypeOK'
  BY <1>10 DEF EventAnswered, TypeOK, page, media, blobs
<1>11. ASSUME NEW e \in events, EventFails(e) PROVE TypeOK'
  BY <1>11 DEF EventFails, TypeOK, page, views, media, blobs
<1>12. ASSUME NEW n \in Loads, SubtitlesConverted(n) PROVE TypeOK'
  <2>1. shown' \in 0..MaxLoads
    BY <1>12 DEF SubtitlesConverted, TypeOK, Loads
  <2>2. subtitles' \in [Loads -> {"none", "loading", "cancelled", "live", "revoked"}]
    BY <1>12 DEF SubtitlesConverted, TypeOK
  <2> QED
    BY <1>12, <2>1, <2>2 DEF SubtitlesConverted, TypeOK, page, views, media
<1>13. ASSUME NEW n \in Loads, SubtitlesFail(n) PROVE TypeOK'
  BY <1>13 DEF SubtitlesFail, TypeOK, page, views, media
<1>14. CASE UNCHANGED vars
  BY <1>14 DEF TypeOK, vars, page, views, media, blobs
<1> QED
  BY <1>1, <1>2, <1>3, <1>4, <1>5, <1>6, <1>7, <1>8, <1>9, <1>10, <1>11, <1>12, <1>13, <1>14, <1>15 DEF Next
(* The flag of the load stands for its request.                              *)
LEMMA RequestStep == TypeOK /\ LoadingIsRequest /\ [Next]_vars => LoadingIsRequest'
<1> SUFFICES ASSUME TypeOK, LoadingIsRequest, [Next]_vars PROVE LoadingIsRequest'
  OBVIOUS
<1> USE Constants
<1>1. ASSUME NEW v \in Videos, Show(v) PROVE LoadingIsRequest'
  BY <1>1 DEF Show, LoadingIsRequest, TypeOK, InitLock, FetchVideoData, media, blobs
<1>2. ASSUME NEW v \in Videos, Loaded(v) PROVE LoadingIsRequest'
  BY <1>2 DEF Loaded, LoadingIsRequest, TypeOK, UseSrtAsVttUrl, SubtitleUrls, Cleanup, views
<1>3. ASSUME NEW v \in Videos, LockExpires(v) PROVE LoadingIsRequest'
  BY <1>3 DEF LockExpires, LoadingIsRequest, TypeOK, page, media, blobs
<1>15. ASSUME NEW v \in Videos, OtherTab(v) PROVE LoadingIsRequest'
  BY <1>15 DEF OtherTab, LoadingIsRequest, TypeOK, page, media, blobs
<1>4. ASSUME LoadFails PROVE LoadingIsRequest'
  BY <1>4 DEF LoadFails, LoadingIsRequest, TypeOK, views, media, blobs
<1>5. ASSUME OnPlay PROVE LoadingIsRequest'
  BY <1>5 DEF OnPlay, PlayerView, LoadingIsRequest, TypeOK, SendAnalyticsEvent, page, views, blobs
<1>6. ASSUME OnPause PROVE LoadingIsRequest'
  BY <1>6 DEF OnPause, PlayerView, LoadingIsRequest, TypeOK, SendAnalyticsEvent, page, views, blobs
<1>7. ASSUME OnEnded PROVE LoadingIsRequest'
  BY <1>7 DEF OnEnded, PlayerView, LoadingIsRequest, TypeOK, SendAnalyticsEvent, page, views, blobs
<1>8. ASSUME NEW p \in 0..Length, OnSeeked(p) PROVE LoadingIsRequest'
  BY <1>8 DEF OnSeeked, PlayerView, LoadingIsRequest, TypeOK, SendAnalyticsEvent, page, views, blobs
<1>9. ASSUME NEW p \in 0..Length, OnTimeUpdate(p) PROVE LoadingIsRequest'
  BY <1>9 DEF OnTimeUpdate, PlayerView, LoadingIsRequest, TypeOK, SendAnalyticsEvent, page, views, blobs
<1>10. ASSUME NEW e \in events, EventAnswered(e) PROVE LoadingIsRequest'
  BY <1>10 DEF EventAnswered, LoadingIsRequest, TypeOK, page, media, blobs
<1>11. ASSUME NEW e \in events, EventFails(e) PROVE LoadingIsRequest'
  BY <1>11 DEF EventFails, LoadingIsRequest, TypeOK, page, views, media, blobs
<1>12. ASSUME NEW n \in Loads, SubtitlesConverted(n) PROVE LoadingIsRequest'
  BY <1>12 DEF SubtitlesConverted, LoadingIsRequest, TypeOK, page, views, media
<1>13. ASSUME NEW n \in Loads, SubtitlesFail(n) PROVE LoadingIsRequest'
  BY <1>13 DEF SubtitlesFail, LoadingIsRequest, TypeOK, page, views, media
<1>14. CASE UNCHANGED vars
  BY <1>14 DEF LoadingIsRequest, TypeOK, vars, page, views, media, blobs
<1> QED
  BY <1>1, <1>2, <1>3, <1>4, <1>5, <1>6, <1>7, <1>8, <1>9, <1>10, <1>11, <1>12, <1>13, <1>14, <1>15 DEF Next
(* Only loads there have been have a URL, a conversion or a track.           *)
LEMMA UrlStep == TypeOK /\ UrlIsLoaded /\ [Next]_vars => UrlIsLoaded'
<1> SUFFICES ASSUME TypeOK, UrlIsLoaded, [Next]_vars PROVE UrlIsLoaded'
  OBVIOUS
<1> USE Constants
<1>1. ASSUME NEW v \in Videos, Show(v) PROVE UrlIsLoaded'
  BY <1>1 DEF Show, UrlIsLoaded, TypeOK, Loads, InitLock, FetchVideoData, media, blobs
<1>2. ASSUME NEW v \in Videos, Loaded(v) PROVE UrlIsLoaded'
  BY <1>2 DEF Loaded, UrlIsLoaded, TypeOK, Loads, UseSrtAsVttUrl, SubtitleUrls, Cleanup, views
<1>3. ASSUME NEW v \in Videos, LockExpires(v) PROVE UrlIsLoaded'
  BY <1>3 DEF LockExpires, UrlIsLoaded, TypeOK, Loads, page, media, blobs
<1>15. ASSUME NEW v \in Videos, OtherTab(v) PROVE UrlIsLoaded'
  BY <1>15 DEF OtherTab, UrlIsLoaded, TypeOK, Loads, page, media, blobs
<1>4. ASSUME LoadFails PROVE UrlIsLoaded'
  BY <1>4 DEF LoadFails, UrlIsLoaded, TypeOK, Loads, views, media, blobs
<1>5. ASSUME OnPlay PROVE UrlIsLoaded'
  BY <1>5 DEF OnPlay, PlayerView, UrlIsLoaded, TypeOK, Loads, SendAnalyticsEvent, page, views, blobs
<1>6. ASSUME OnPause PROVE UrlIsLoaded'
  BY <1>6 DEF OnPause, PlayerView, UrlIsLoaded, TypeOK, Loads, SendAnalyticsEvent, page, views, blobs
<1>7. ASSUME OnEnded PROVE UrlIsLoaded'
  BY <1>7 DEF OnEnded, PlayerView, UrlIsLoaded, TypeOK, Loads, SendAnalyticsEvent, page, views, blobs
<1>8. ASSUME NEW p \in 0..Length, OnSeeked(p) PROVE UrlIsLoaded'
  BY <1>8 DEF OnSeeked, PlayerView, UrlIsLoaded, TypeOK, Loads, SendAnalyticsEvent, page, views, blobs
<1>9. ASSUME NEW p \in 0..Length, OnTimeUpdate(p) PROVE UrlIsLoaded'
  BY <1>9 DEF OnTimeUpdate, PlayerView, UrlIsLoaded, TypeOK, Loads, SendAnalyticsEvent, page, views, blobs
<1>10. ASSUME NEW e \in events, EventAnswered(e) PROVE UrlIsLoaded'
  BY <1>10 DEF EventAnswered, UrlIsLoaded, TypeOK, Loads, page, media, blobs
<1>11. ASSUME NEW e \in events, EventFails(e) PROVE UrlIsLoaded'
  BY <1>11 DEF EventFails, UrlIsLoaded, TypeOK, Loads, page, views, media, blobs
<1>12. ASSUME NEW n \in Loads, SubtitlesConverted(n) PROVE UrlIsLoaded'
  BY <1>12 DEF SubtitlesConverted, UrlIsLoaded, TypeOK, Loads, page, views, media
<1>13. ASSUME NEW n \in Loads, SubtitlesFail(n) PROVE UrlIsLoaded'
  BY <1>13 DEF SubtitlesFail, UrlIsLoaded, TypeOK, Loads, page, views, media
<1>14. CASE UNCHANGED vars
  BY <1>14 DEF UrlIsLoaded, TypeOK, Loads, vars, page, views, media, blobs
<1> QED
  BY <1>1, <1>2, <1>3, <1>4, <1>5, <1>6, <1>7, <1>8, <1>9, <1>10, <1>11, <1>12, <1>13, <1>14, <1>15 DEF Next
(* The player knows of the fresh entry of its video.                         *)
LEMMA LockStep == TypeOK /\ LockIsKnown /\ [Next]_vars => LockIsKnown'
<1> SUFFICES ASSUME TypeOK, LockIsKnown, [Next]_vars PROVE LockIsKnown'
  OBVIOUS
<1> USE Constants
<1>1. ASSUME NEW v \in Videos, Show(v) PROVE LockIsKnown'
  BY <1>1 DEF Show, LockIsKnown, TypeOK, InitLock, FetchVideoData, media, blobs
<1>2. ASSUME NEW v \in Videos, Loaded(v) PROVE LockIsKnown'
  BY <1>2 DEF Loaded, LockIsKnown, TypeOK, UseSrtAsVttUrl, SubtitleUrls, Cleanup, views
<1>3. ASSUME NEW v \in Videos, LockExpires(v) PROVE LockIsKnown'
  BY <1>3 DEF LockExpires, LockIsKnown, TypeOK, page, media, blobs
<1>15. ASSUME NEW v \in Videos, OtherTab(v) PROVE LockIsKnown'
  BY <1>15 DEF OtherTab, LockIsKnown, TypeOK, page, media, blobs
<1>4. ASSUME LoadFails PROVE LockIsKnown'
  BY <1>4 DEF LoadFails, LockIsKnown, TypeOK, views, media, blobs
<1>5. ASSUME OnPlay PROVE LockIsKnown'
  BY <1>5 DEF OnPlay, LockIsKnown, TypeOK, SendAnalyticsEvent, page, views, blobs
<1>6. ASSUME OnPause PROVE LockIsKnown'
  BY <1>6 DEF OnPause, LockIsKnown, TypeOK, SendAnalyticsEvent, page, views, blobs
<1>7. ASSUME OnEnded PROVE LockIsKnown'
  BY <1>7 DEF OnEnded, LockIsKnown, TypeOK, SendAnalyticsEvent, page, views, blobs
<1>8. ASSUME NEW p \in 0..Length, OnSeeked(p) PROVE LockIsKnown'
  BY <1>8 DEF OnSeeked, LockIsKnown, TypeOK, SendAnalyticsEvent, page, views, blobs
<1>9. ASSUME NEW p \in 0..Length, OnTimeUpdate(p) PROVE LockIsKnown'
  BY <1>9 DEF OnTimeUpdate, LockIsKnown, TypeOK, SendAnalyticsEvent, page, views, blobs
<1>10. ASSUME NEW e \in events, EventAnswered(e) PROVE LockIsKnown'
  BY <1>10 DEF EventAnswered, LockIsKnown, TypeOK, page, media, blobs
<1>11. ASSUME NEW e \in events, EventFails(e) PROVE LockIsKnown'
  BY <1>11 DEF EventFails, LockIsKnown, TypeOK, page, views, media, blobs
<1>12. ASSUME NEW n \in Loads, SubtitlesConverted(n) PROVE LockIsKnown'
  BY <1>12 DEF SubtitlesConverted, LockIsKnown, TypeOK, page, views, media
<1>13. ASSUME NEW n \in Loads, SubtitlesFail(n) PROVE LockIsKnown'
  BY <1>13 DEF SubtitlesFail, LockIsKnown, TypeOK, page, views, media
<1>14. CASE UNCHANGED vars
  BY <1>14 DEF LockIsKnown, TypeOK, vars, page, views, media, blobs
<1> QED
  BY <1>1, <1>2, <1>3, <1>4, <1>5, <1>6, <1>7, <1>8, <1>9, <1>10, <1>11, <1>12, <1>13, <1>14, <1>15 DEF Next
(* Only the last URL has a conversion under way or a blob.                   *)
LEMMA SubtitlesStep == TypeOK /\ UrlIsLoaded /\ SubtitlesMatch /\ [Next]_vars => SubtitlesMatch'
<1> SUFFICES ASSUME TypeOK, UrlIsLoaded, SubtitlesMatch, [Next]_vars PROVE SubtitlesMatch'
  OBVIOUS
<1> USE Constants
<1>1. ASSUME NEW v \in Videos, Show(v) PROVE SubtitlesMatch'
  BY <1>1 DEF Show, SubtitlesMatch, TypeOK, Loads, InitLock, FetchVideoData, media, blobs
<1>2. ASSUME NEW v \in Videos, Loaded(v) PROVE SubtitlesMatch'
  <2>1. PICK u \in SubtitleUrls(loads + 1, v) : UseSrtAsVttUrl(u)
    BY <1>2 DEF Loaded
  <2>2. shown' = shown /\ shown <= loads /\ url <= loads /\ loads < MaxLoads
    BY <1>2 DEF Loaded, UrlIsLoaded
  <2>3. CASE u = url
    BY <2>1, <2>2, <2>3 DEF UseSrtAsVttUrl, SubtitlesMatch
  <2>4. CASE u = 0 /\ u # url
    BY <2>1, <2>2, <2>4 DEF UseSrtAsVttUrl, SubtitlesMatch, Cleanup, TypeOK, Loads
  <2>5. CASE u = loads + 1
    BY <2>1, <2>2, <2>5 DEF UseSrtAsVttUrl, SubtitlesMatch, Cleanup, TypeOK, Loads
  <2> QED
    BY <2>1, <2>3, <2>4, <2>5 DEF SubtitleUrls
<1>3. ASSUME NEW v \in Videos, LockExpires(v) PROVE SubtitlesMatch'
  BY <1>3 DEF LockExpires, SubtitlesMatch, TypeOK, Loads, page, media, blobs
<1>15. ASSUME NEW v \in Videos, OtherTab(v) PROVE SubtitlesMatch'
  BY <1>15 DEF OtherTab, SubtitlesMatch, TypeOK, Loads, page, media, blobs
<1>4. ASSUME LoadFails PROVE SubtitlesMatch'
  BY <1>4 DEF LoadFails, SubtitlesMatch, TypeOK, Loads, views, media, blobs
<1>5. ASSUME OnPlay PROVE SubtitlesMatch'
  BY <1>5 DEF OnPlay, SubtitlesMatch, TypeOK, Loads, SendAnalyticsEvent, page, views, blobs
<1>6. ASSUME OnPause PROVE SubtitlesMatch'
  BY <1>6 DEF OnPause, SubtitlesMatch, TypeOK, Loads, SendAnalyticsEvent, page, views, blobs
<1>7. ASSUME OnEnded PROVE SubtitlesMatch'
  BY <1>7 DEF OnEnded, SubtitlesMatch, TypeOK, Loads, SendAnalyticsEvent, page, views, blobs
<1>8. ASSUME NEW p \in 0..Length, OnSeeked(p) PROVE SubtitlesMatch'
  BY <1>8 DEF OnSeeked, SubtitlesMatch, TypeOK, Loads, SendAnalyticsEvent, page, views, blobs
<1>9. ASSUME NEW p \in 0..Length, OnTimeUpdate(p) PROVE SubtitlesMatch'
  BY <1>9 DEF OnTimeUpdate, SubtitlesMatch, TypeOK, Loads, SendAnalyticsEvent, page, views, blobs
<1>10. ASSUME NEW e \in events, EventAnswered(e) PROVE SubtitlesMatch'
  BY <1>10 DEF EventAnswered, SubtitlesMatch, TypeOK, Loads, page, media, blobs
<1>11. ASSUME NEW e \in events, EventFails(e) PROVE SubtitlesMatch'
  BY <1>11 DEF EventFails, SubtitlesMatch, TypeOK, Loads, page, views, media, blobs
<1>12. ASSUME NEW n \in Loads, SubtitlesConverted(n) PROVE SubtitlesMatch'
  BY <1>12 DEF SubtitlesConverted, SubtitlesMatch, TypeOK, Loads, page, views, media
<1>13. ASSUME NEW n \in Loads, SubtitlesFail(n) PROVE SubtitlesMatch'
  BY <1>13 DEF SubtitlesFail, SubtitlesMatch, TypeOK, Loads, page, views, media
<1>14. CASE UNCHANGED vars
  BY <1>14 DEF SubtitlesMatch, TypeOK, Loads, vars, page, views, media, blobs
<1> QED
  BY <1>1, <1>2, <1>3, <1>4, <1>5, <1>6, <1>7, <1>8, <1>9, <1>10, <1>11, <1>12, <1>13, <1>14, <1>15 DEF Next
(* The track changes to the subtitles of the last URL.                       *)
LEMMA NewerStep == TypeOK /\ SubtitlesMatch /\ [Next]_vars => (shown' # shown => shown' = url)
<1> SUFFICES ASSUME TypeOK, SubtitlesMatch, [Next]_vars PROVE (shown' # shown => shown' = url)
  OBVIOUS
<1> USE Constants
<1>1. ASSUME NEW v \in Videos, Show(v) PROVE (shown' # shown => shown' = url)
  BY <1>1 DEF Show, SubtitlesMatch, TypeOK, Loads, InitLock, FetchVideoData, media, blobs
<1>2. ASSUME NEW v \in Videos, Loaded(v) PROVE (shown' # shown => shown' = url)
  BY <1>2 DEF Loaded, SubtitlesMatch, TypeOK, Loads, UseSrtAsVttUrl, SubtitleUrls, Cleanup, views
<1>3. ASSUME NEW v \in Videos, LockExpires(v) PROVE (shown' # shown => shown' = url)
  BY <1>3 DEF LockExpires, SubtitlesMatch, TypeOK, Loads, page, media, blobs
<1>15. ASSUME NEW v \in Videos, OtherTab(v) PROVE (shown' # shown => shown' = url)
  BY <1>15 DEF OtherTab, SubtitlesMatch, TypeOK, Loads, page, media, blobs
<1>4. ASSUME LoadFails PROVE (shown' # shown => shown' = url)
  BY <1>4 DEF LoadFails, SubtitlesMatch, TypeOK, Loads, views, media, blobs
<1>5. ASSUME OnPlay PROVE (shown' # shown => shown' = url)
  BY <1>5 DEF OnPlay, SubtitlesMatch, TypeOK, Loads, SendAnalyticsEvent, page, views, blobs
<1>6. ASSUME OnPause PROVE (shown' # shown => shown' = url)
  BY <1>6 DEF OnPause, SubtitlesMatch, TypeOK, Loads, SendAnalyticsEvent, page, views, blobs
<1>7. ASSUME OnEnded PROVE (shown' # shown => shown' = url)
  BY <1>7 DEF OnEnded, SubtitlesMatch, TypeOK, Loads, SendAnalyticsEvent, page, views, blobs
<1>8. ASSUME NEW p \in 0..Length, OnSeeked(p) PROVE (shown' # shown => shown' = url)
  BY <1>8 DEF OnSeeked, SubtitlesMatch, TypeOK, Loads, SendAnalyticsEvent, page, views, blobs
<1>9. ASSUME NEW p \in 0..Length, OnTimeUpdate(p) PROVE (shown' # shown => shown' = url)
  BY <1>9 DEF OnTimeUpdate, SubtitlesMatch, TypeOK, Loads, SendAnalyticsEvent, page, views, blobs
<1>10. ASSUME NEW e \in events, EventAnswered(e) PROVE (shown' # shown => shown' = url)
  BY <1>10 DEF EventAnswered, SubtitlesMatch, TypeOK, Loads, page, media, blobs
<1>11. ASSUME NEW e \in events, EventFails(e) PROVE (shown' # shown => shown' = url)
  BY <1>11 DEF EventFails, SubtitlesMatch, TypeOK, Loads, page, views, media, blobs
<1>12. ASSUME NEW n \in Loads, SubtitlesConverted(n) PROVE (shown' # shown => shown' = url)
  BY <1>12 DEF SubtitlesConverted, SubtitlesMatch, TypeOK, Loads, page, views, media
<1>13. ASSUME NEW n \in Loads, SubtitlesFail(n) PROVE (shown' # shown => shown' = url)
  BY <1>13 DEF SubtitlesFail, SubtitlesMatch, TypeOK, Loads, page, views, media
<1>14. CASE UNCHANGED vars
  BY <1>14 DEF SubtitlesMatch, TypeOK, Loads, vars, page, views, media, blobs
<1> QED
  BY <1>1, <1>2, <1>3, <1>4, <1>5, <1>6, <1>7, <1>8, <1>9, <1>10, <1>11, <1>12, <1>13, <1>14, <1>15 DEF Next
(* The invariant holds at the start.                                         *)
LEMMA InitOK == Init => IInv
<1> SUFFICES ASSUME Init PROVE IInv
  OBVIOUS
<1> USE Constants
<1>1. loading \in BOOLEAN /\ eligible \in BOOLEAN /\ locked \in BOOLEAN /\ writable \in BOOLEAN /\ playing \in BOOLEAN
  BY Zenon DEF Init
<1>2. TypeOK
  <2>1. lock \in [Videos -> {"none", "fresh", "stale"}] /\ overtaken \in BOOLEAN
    BY DEF Init
  <2>2. subtitles \in [Loads -> {"none", "loading", "cancelled", "live", "revoked"}]
    BY DEF Init
  <2> QED
    BY <1>1, <2>1, <2>2 DEF Init, TypeOK
<1>3. LoadingIsRequest /\ LockIsKnown
  BY DEF Init, LoadingIsRequest, LockIsKnown
<1>4. SubtitlesMatch /\ UrlIsLoaded
  BY DEF Init, SubtitlesMatch, UrlIsLoaded, Loads
<1> QED
  BY <1>2, <1>3, <1>4 DEF IInv

(* A unique event that carries the data of the shown video is sent only      *)
(* while its entry is not fresh.                                             *)
LEMMA SendRespectsLock ==
  ASSUME IInv, NEW time \in Int, SendAnalyticsEvent(time)
  PROVE \A e \in events' \ events :
          e.unique /\ e.token = e.key => lock[e.key] # "fresh" \/ overtaken
<1> SUFFICES ASSUME NEW e \in events' \ events, e.unique, e.token = e.key
             PROVE lock[e.key] # "fresh" \/ overtaken
  OBVIOUS
<1>1. data \in Tracked
  BY DEF SendAnalyticsEvent
<1>2. PICK s \in Slots : e = [slot |-> s, token |-> data, key |-> tracking,
        unique |-> eligible /\ ~locked /\ time >= LockAfter, long |-> time >= LockAfter]
  BY <1>1, Zenon DEF SendAnalyticsEvent
<1>3. e.unique = (eligible /\ ~locked /\ time >= LockAfter) /\ e.token = data /\ e.key = tracking
  BY <1>2, Zenon
<1>4. eligible /\ ~locked
  BY <1>3, Zenon
<1>5. tracking # None
  BY <1>1, <1>3, Constants, PlayerAssumption
<1> QED
  BY <1>3, <1>4, <1>5, Zenon DEF IInv, LockIsKnown

(* Only a handler of the media sends, and only it.                           *)
LEMMA ViewStep == IInv /\ [Next]_vars =>
  \A e \in events' \ events : e.unique /\ e.token = e.key => lock[e.key] # "fresh" \/ overtaken
<1> DEFINE Goal == \A e \in events' \ events :
                     e.unique /\ e.token = e.key => lock[e.key] # "fresh" \/ overtaken
<1> SUFFICES ASSUME IInv, [Next]_vars PROVE Goal
  OBVIOUS
<1>1. CASE events' \subseteq events
  BY <1>1
<1>2. ASSUME NEW time \in Int, SendAnalyticsEvent(time) PROVE Goal
  BY <1>2, SendRespectsLock
<1>3. position \in Int /\ 0..Length \subseteq Int
  BY DEF IInv, TypeOK
<1> HIDE DEF Goal
<1>4. ASSUME NEW v \in Videos, Show(v) \/ Loaded(v) \/ LockExpires(v) \/ OtherTab(v) PROVE Goal
  BY <1>1, <1>4, Zenon DEF Show, Loaded, LockExpires, OtherTab
<1>5. ASSUME LoadFails PROVE Goal
  BY <1>1, <1>5, Zenon DEF LoadFails
<1>6. ASSUME OnPlay \/ OnPause \/ OnEnded PROVE Goal
  BY <1>2, <1>3, <1>6, Zenon DEF OnPlay, OnPause, OnEnded
<1>7. ASSUME NEW p \in 0..Length, OnSeeked(p) PROVE Goal
  BY <1>2, <1>3, <1>7, Zenon DEF OnSeeked
<1>8. ASSUME NEW p \in 0..Length, OnTimeUpdate(p) PROVE Goal
  BY <1>1, <1>2, <1>3, <1>8, Zenon DEF OnTimeUpdate
<1>9. ASSUME NEW e \in events, EventAnswered(e) \/ EventFails(e) PROVE Goal
  BY <1>1, <1>9, Zenon DEF EventAnswered, EventFails
<1>10. ASSUME NEW n \in Loads, SubtitlesConverted(n) \/ SubtitlesFail(n) PROVE Goal
  BY <1>1, <1>10, Zenon DEF SubtitlesConverted, SubtitlesFail
<1>11. CASE UNCHANGED vars
  BY <1>1, <1>11, Zenon DEF vars
<1>12. Goal
  BY <1>4, <1>5, <1>6, <1>7, <1>8, <1>9, <1>10, <1>11, Zenon DEF Next
<1> QED
  BY <1>12 DEF Goal

(* The inductive invariant: the types, one request per load, the view lock   *)
(* and the subtitles.                                                        *)
THEOREM Inductive == Spec => []IInv
<1>1. IInv /\ [Next]_vars => IInv'
  BY TypeStep, RequestStep, LockStep, SubtitlesStep, UrlStep DEF IInv
<1> QED
  BY InitOK, <1>1, PTL DEF Spec

(* Whatever video the player is given and whenever an event is answered, it  *)
(* counts no unique view of the shown video while the entry is fresh, unless *)
(* another tab wrote the entry after this player read it.                    *)
THEOREM UniqueViews == Spec => UniqueViewsRespectLock
<1>1. IInv /\ [Next]_vars =>
        [\A e \in events' \ events :
           e.unique /\ e.token = e.key => lock[e.key] # "fresh" \/ overtaken]_vars
  BY ViewStep
<1> QED
  BY Inductive, <1>1, PTL DEF Spec, UniqueViewsRespectLock

(* The track shows the subtitles of the last URL once they are converted, and *)
(* one that is left from an earlier URL has no blob any more.                *)
THEOREM SubtitlesOfTheUrl == Spec => []SubtitlesMatch
<1>1. IInv => SubtitlesMatch
  BY DEF IInv
<1> QED
  BY Inductive, <1>1, PTL

(* A conversion that ends late does not bring back those of another URL.     *)
THEOREM SubtitlesOnlyNewer == Spec => NeverOlderSubtitles
<1>1. IInv /\ [Next]_vars => [shown' # shown => shown' = url]_vars
  BY NewerStep DEF IInv
<1> QED
  BY Inductive, <1>1, PTL DEF Spec, NeverOlderSubtitles
=============================================================================
