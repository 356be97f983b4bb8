--------------------------- MODULE PlayerSession ---------------------------
(***************************************************************************)
(* One mounted MotionmeshPlayer: packages/player/src/react/index.tsx, with *)
(* the proxy its requests pass, services/processRequest.ts and             *)
(* app/api/motionmesh/player/route.ts of the dashboard.                    *)
(*                                                                         *)
(* The page may give the player another video at any time.  The effects    *)
(* of that render reset the view lock and start a load, but the data, the  *)
(* media and the requests of the previous video go on until the answer is  *)
(* there; refs are shared by all renders, while a handler keeps the video  *)
(* and the data of the render it was made in.  A load may bring the URL of *)
(* subtitles: a new one (presigned, or of another video), the one before   *)
(* (a CloudFront URL is constant per video), or none.  An effect keyed on  *)
(* the URL turns the subtitles into a blob; the thumbnails go the same way. *)
(*                                                                         *)
(* Styles, icons, country and the HLS settings are left out.  A refused    *)
(* request and one the server takes differ for the loads only: fetch       *)
(* resolves for both.  What the proxy does with an event is left out: it   *)
(* passes on neither isUnique nor currentTime.                             *)
(***************************************************************************)
EXTENDS Integers, FiniteSets

CONSTANTS Videos,
          Tracked,         \* the videos whose data bring an analyticsToken
          LockAfter,       \* seconds of a unique view (3)
          HeartbeatEvery,  \* seconds between heartbeats (15)
          Length,          \* bound on the length of a video
          MaxLoads,        \* bound on the loads
          MaxEvents,       \* bound on the analytics requests under way
          None

ASSUME PlayerAssumption ==
  /\ Tracked \subseteq Videos /\ None \notin Videos
  /\ LockAfter \in Nat /\ HeartbeatEvery \in Nat \ {0} /\ Length \in Nat
  /\ MaxLoads \in Nat /\ MaxEvents \in Nat

VARIABLES
  tracking,   \* the videoTrackingId of the last render, None before the mount
  loading,    \* isLoading
  request,    \* the video a load is under way for
  data,       \* the video of videoData
  loads,      \* number of loads answered with data: identifies videoData
  eligible,   \* uniqueEligible.current
  locked,     \* uniqueLocked.current
  lock,       \* localStorage: the entry vmx_view_ of each video
  writable,   \* localStorage may be used
  overtaken,  \* another tab has written the entry since the lock effect read it
  playing,    \* the media: playing, and its currentTime
  position,
  lastBeat,   \* lastHeartbeatTime.current
  events,     \* the analytics requests under way
  url,        \* the load that first brought the present subtitleUrl, 0 for none
  subtitles,  \* load: the blob made from the subtitles of its new URL
  shown       \* the load whose blob is in vttUrl, 0 for none

page == <<tracking, loading, request, data, loads>>
views == <<eligible, locked, lock, writable, overtaken>>
media == <<playing, position, lastBeat>>
blobs == <<url, subtitles, shown>>
vars == <<page, views, media, events, blobs>>

Loads == 1..MaxLoads
Slots == 1..MaxEvents  \* tell apart requests that are alike; the first free one is used
Event == [slot : Slots, token : Videos, key : Videos, unique : BOOLEAN, long : BOOLEAN]

TypeOK ==
  /\ tracking \in Videos \cup {None} /\ request \in Videos \cup {None}
  /\ data \in Videos \cup {None}
  /\ loading \in BOOLEAN /\ eligible \in BOOLEAN /\ locked \in BOOLEAN
  /\ writable \in BOOLEAN /\ overtaken \in BOOLEAN /\ playing \in BOOLEAN
  /\ loads \in 0..MaxLoads /\ url \in 0..MaxLoads /\ shown \in 0..MaxLoads
  /\ lock \in [Videos -> {"none", "fresh", "stale"}]
  /\ position \in 0..Length /\ lastBeat \in 0..Length
  /\ events \subseteq Event
  /\ subtitles \in [Loads -> {"none", "loading", "cancelled", "live", "revoked"}]

(* Other sessions have left entries, some of them fresh: "stale" is an     *)
(* expired one, or one that is no number.                                  *)
Init ==
  /\ tracking = None /\ request = None /\ data = None
  /\ loading = FALSE /\ eligible = FALSE /\ locked = FALSE
  /\ writable \in BOOLEAN
  /\ overtaken = FALSE
  /\ lock \in [Videos -> {"none", "fresh", "stale"}]
  /\ playing = FALSE /\ position = 0 /\ lastBeat = 0
  /\ events = {} /\ loads = 0
  /\ subtitles = [n \in Loads |-> "none"] /\ url = 0 /\ shown = 0
-----------------------------------------------------------------------------
(* The effect of the view lock: a fresh entry makes the view ineligible,   *)
(* an expired or unreadable one is removed, and so is a storage that fails. *)
InitLock(v) ==
  /\ eligible' = (writable /\ lock[v] # "fresh")
  /\ locked' = FALSE
  /\ overtaken' = FALSE
  /\ lock' = IF writable /\ lock[v] = "stale" THEN [lock EXCEPT ![v] = "none"] ELSE lock

(* The effect of the load: nothing while another one is under way.         *)
FetchVideoData(v) ==
  IF loading
  THEN UNCHANGED <<loading, request>>
  ELSE loading' = TRUE /\ request' = v

(* The player is mounted, or given another video: a render and its effects. *)
Show(v) ==
  /\ v # tracking
  /\ tracking' = v
  /\ InitLock(v)
  /\ FetchVideoData(v)
  /\ UNCHANGED <<data, loads, writable, media, events, blobs>>

(* The URLs an answer for v may bring as the n-th load: none, a new one, or *)
(* that of the load before, if it was for the same video.                  *)
SubtitleUrls(n, v) == {0, n} \cup (IF data = v THEN {url} ELSE {})

(* What the cleanup of the effect leaves of the subtitles it has started.  *)
Cleanup(state) ==
  CASE state = "loading" -> "cancelled"
    [] state = "live" -> "revoked"
    [] OTHER -> state

\* Mutant: the effect of the URL before is not cleaned up.
UseSrtAsVttUrlOnly(u) ==
  /\ url' = u
  /\ subtitles' = [m \in Loads |-> IF m = u /\ u # url THEN "loading" ELSE subtitles[m]]

(* useSrtAsVttUrl: nothing for the URL it has; for another one, or none,   *)
(* the cleanup of the last, and the effect of the new.  vttUrl stays.      *)
UseSrtAsVttUrl(u) ==
  /\ url' = u
  /\ subtitles' = IF u = url THEN subtitles
                  ELSE [m \in Loads |->
                         IF m = u THEN "loading"
                         ELSE IF m = url THEN Cleanup(subtitles[m]) ELSE subtitles[m]]

\* Mutant: an answer that brings data leaves the flag of the load set.
LoadedKeepsFlag(v) ==
  /\ request = v /\ loads < MaxLoads
  /\ loads' = loads + 1 /\ data' = v /\ request' = None
  /\ \E u \in SubtitleUrls(loads + 1, v) : UseSrtAsVttUrl(u)
  /\ playing' \in BOOLEAN /\ position' = 0
  /\ UNCHANGED <<tracking, loading, views, lastBeat, events, shown>>

(* The load is answered with data: the media starts with the new source,   *)
(* by itself where autoPlay is set.  The heartbeat is not reset.           *)
Loaded(v) ==
  /\ request = v /\ loads < MaxLoads
  /\ loads' = loads + 1 /\ data' = v
  /\ loading' = FALSE /\ request' = None
  /\ \E u \in SubtitleUrls(loads + 1, v) : UseSrtAsVttUrl(u)
  /\ playing' \in BOOLEAN /\ position' = 0
  /\ UNCHANGED <<tracking, views, lastBeat, events, shown>>

(* The proxy or the API refuses it, or the network fails.                  *)
LoadFails ==
  /\ request # None
  /\ loading' = FALSE /\ request' = None
  /\ UNCHANGED <<tracking, data, loads, views, media, events, blobs>>
-----------------------------------------------------------------------------
(* What is rendered: the media, with the handlers below and the tracks, as *)
(* soon as there are data, whatever the last load came to.                 *)
PlayerView == CASE data # None              -> "player"
                [] data = None /\ loading   -> "loader"
                [] data = None /\ ~loading  -> "error"

(* sendAnalyticsEvent, up to its request: nothing for data without a token, *)
(* else the token of the data, the video of the render, and the refs as    *)
(* they are now.                                                           *)
SendAnalyticsEvent(time) ==
  LET long == time >= LockAfter IN
  \/ data \notin Tracked /\ UNCHANGED events
  \/ /\ data \in Tracked
     /\ \E s \in Slots :
          /\ \A e \in events : e.slot # s
          /\ \A r \in 1..(s - 1) : \E e \in events : e.slot = r
          /\ events' = events \cup
               {[slot |-> s, token |-> data, key |-> tracking,
                 unique |-> eligible /\ ~locked /\ long, long |-> long]}

OnPlay ==
  /\ PlayerView = "player" /\ ~playing
  /\ SendAnalyticsEvent(position)
  /\ playing' = TRUE /\ lastBeat' = position
  /\ UNCHANGED <<page, views, position, blobs>>

OnPause ==
  /\ PlayerView = "player" /\ playing
  /\ SendAnalyticsEvent(position)
  /\ playing' = FALSE
  /\ UNCHANGED <<page, views, position, lastBeat, blobs>>

OnEnded ==
  /\ PlayerView = "player" /\ playing /\ position = Length
  /\ SendAnalyticsEvent(position)
  /\ playing' = FALSE
  /\ UNCHANGED <<page, views, position, lastBeat, blobs>>

OnSeeked(p) ==
  /\ PlayerView = "player"
  /\ SendAnalyticsEvent(p)
  /\ position' = p
  /\ UNCHANGED <<page, views, playing, lastBeat, blobs>>

(* The media plays on, or reports its time after a seek: a heartbeat when  *)
(* enough of it lies between this time and the last one's.                 *)
OnTimeUpdate(p) ==
  /\ PlayerView = "player"
  /\ p = position \/ (playing /\ p = position + 1 /\ p <= Length)
  /\ position' = p
  /\ IF p - lastBeat >= HeartbeatEvery
     THEN SendAnalyticsEvent(p) /\ lastBeat' = p
     ELSE UNCHANGED <<events, lastBeat>>
  /\ UNCHANGED <<page, views, playing, blobs>>

\* Mutant: the view is locked in the storage only.
EventAnsweredStorageOnly(e) ==
  /\ e \in events
  /\ events' = events \ {e}
  /\ lock' = IF eligible /\ ~locked /\ e.long /\ writable THEN [lock EXCEPT ![e.key] = "fresh"] ELSE lock
  /\ UNCHANGED <<page, eligible, locked, writable, overtaken, media, blobs>>

(* The request resolves, whatever its status: the refs are read again, and *)
(* the entry of the video the handler was made for is written.             *)
EventAnswered(e) ==
  /\ e \in events
  /\ events' = events \ {e}
  /\ IF eligible /\ ~locked /\ e.long
     THEN /\ locked' = TRUE
          /\ lock' = IF writable THEN [lock EXCEPT ![e.key] = "fresh"] ELSE lock
     ELSE UNCHANGED <<locked, lock>>
  /\ UNCHANGED <<page, eligible, writable, overtaken, media, blobs>>

EventFails(e) ==
  /\ e \in events
  /\ events' = events \ {e}
  /\ UNCHANGED <<page, views, media, blobs>>

(* 30 days pass: UNIQUE_VIEW_TTL_MS.                                       *)
LockExpires(v) ==
  /\ lock[v] = "fresh"
  /\ lock' = [lock EXCEPT ![v] = "stale"]
  /\ UNCHANGED <<page, eligible, locked, writable, overtaken, media, events, blobs>>

(* A player in another tab counts a view of v.                             *)
OtherTab(v) ==
  /\ lock[v] # "fresh"
  /\ lock' = [lock EXCEPT ![v] = "fresh"]
  /\ overtaken' = (overtaken \/ v = tracking)
  /\ UNCHANGED <<page, eligible, locked, writable, media, events, blobs>>
-----------------------------------------------------------------------------
\* Mutant: a conversion does not look at its flag.
SubtitlesConvertedAnyway(n) ==
  /\ subtitles[n] \in {"loading", "cancelled"}
  /\ subtitles' = [subtitles EXCEPT ![n] = IF @ = "loading" THEN "live" ELSE "none"]
  /\ shown' = n
  /\ UNCHANGED <<page, views, media, events, url>>

(* The subtitles arrive and become a blob, which reaches nothing, and is   *)
(* never revoked, if its effect was cancelled meanwhile.                   *)
SubtitlesConverted(n) ==
  /\ subtitles[n] \in {"loading", "cancelled"}
  /\ subtitles' = [subtitles EXCEPT ![n] = IF @ = "loading" THEN "live" ELSE "none"]
  /\ shown' = IF subtitles[n] = "loading" THEN n ELSE shown
  /\ UNCHANGED <<page, views, media, events, url>>

SubtitlesFail(n) ==
  /\ subtitles[n] \in {"loading", "cancelled"}
  /\ subtitles' = [subtitles EXCEPT ![n] = "none"]
  /\ UNCHANGED <<page, views, media, events, url, shown>>

Next ==
  \/ \E v \in Videos : Show(v) \/ Loaded(v) \/ LockExpires(v) \/ OtherTab(v)
  \/ LoadFails \/ OnPlay \/ OnPause \/ OnEnded
  \/ \E p \in 0..Length : OnSeeked(p) \/ OnTimeUpdate(p)
  \/ \E e \in events : EventAnswered(e) \/ EventFails(e)
  \/ \E n \in Loads : SubtitlesConverted(n) \/ SubtitlesFail(n)

Spec == Init /\ [][Next]_vars

(* A request is answered or fails.                                         *)
FairSpec == Spec /\ WF_vars(LoadFails \/ \E v \in Videos : Loaded(v))
-----------------------------------------------------------------------------
(* The mounted player knows of a fresh entry of its video, whatever event  *)
(* from before a switch, forth or back, has written it.                    *)
LockIsKnown ==
  tracking # None /\ lock[tracking] = "fresh" => ~eligible \/ locked \/ overtaken

\* While the entry of a video is fresh the player counts no unique view of it, unless
\* the entry was written by another tab after the player read it.  Nothing is said of
\* events that carry the data of the video before, until the load of the shown one is
\* answered; and requests under way together may be unique all of them, because the
\* entry is written when the first is answered.
UniqueViewsRespectLock ==
  [][\A e \in events' \ events :
       e.unique /\ e.token = e.key => lock[e.key] # "fresh" \/ overtaken]_vars

\* The track agrees with the URL of the last load: once its subtitles are converted
\* they are the ones in the track, no other conversion goes on or keeps its blob, and
\* a track that is left from an earlier URL (the last load brought none, or its own is
\* not converted yet) has lost its blob.
SubtitlesMatch ==
  /\ url # 0 /\ subtitles[url] = "live" => shown = url
  /\ shown # 0 => subtitles[shown] = IF shown = url THEN "live" ELSE "revoked"
  /\ \A n \in Loads : subtitles[n] \in {"loading", "live"} => n = url

\* A conversion that ends late never replaces the subtitles of another URL.
NeverOlderSubtitles == [][shown' # shown => shown' = url]_vars

\* No load goes on for ever, so the player does not refuse every later one.
LoadingEnds == loading ~> ~loading

(* One request at a time, the one the flag stands for.                     *)
LoadingIsRequest ==
  /\ loading <=> request # None
  /\ tracking = None => ~loading /\ data = None /\ events = {}
  /\ data = None <=> loads = 0

(* URL and track belong to loads there have been.                          *)
UrlIsLoaded ==
  /\ url <= loads /\ shown <= loads
  /\ \A n \in Loads : n > loads => subtitles[n] = "none"

(* The inductive invariant.                                                *)
IInv == TypeOK /\ LoadingIsRequest /\ LockIsKnown /\ SubtitlesMatch /\ UrlIsLoaded
=============================================================================
