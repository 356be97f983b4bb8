# MotionMesh: a TLA+ verification project

MotionMesh is a video platform: a Go API and a Go worker that talk through
NATS JetStream and share Postgres, Redis and an S3 store, with Stripe for
metered billing, a dashboard, a player, SDKs and the load generators of its
benchmark. What is hard about it is not what one handler does, but what remains
true when several pods, redelivered messages, leases that run out, lost answers
and crashes meet, and, on the other side of the network, when a page, a player
or a script has several requests under way and hears of them late, in another
order or not at all. These modules state that as TLA+, TLC checks it on small
instances, and TLAPS proves the safety of it for every value of the constants.

Paths below are relative to the repository; `server/` stands for `src/server/`,
`dashboard/` for `src/client/dashboard/src/`, `sdk/` for `src/sdk/js/packages/`.

- [Inventory](#inventory)
- [How to run](#how-to-run)
- [Modules and how they correspond to the code](#modules-and-how-they-correspond-to-the-code)
- [Runs, bounds and why they are enough](#runs-bounds-and-why-they-are-enough)
- [Fairness](#fairness)
- [What is proved](#what-is-proved)
- [Where the code and its documents disagree](#where-the-code-and-its-documents-disagree)
- [What is only model-checked, and what is not modelled](#what-is-only-model-checked-and-what-is-not-modelled)
- [Plan](#plan)

## Inventory

```
 browser/SDK ──HTTP──> API pods ──one transaction──> Postgres: domain row + outbox_events
                          │                               │
                          │                        outbox relay (each API pod)
                          │                               │ at least once
                          └─Redis (auth, limits,          v
                            last-used buffer)   JetStream: transcode.jobs, cleanup.videos, usage.events
                                                          │ pull consumers, AckWait, MaxDeliver
                                                          v
                                  worker pods: transcode │ cleanup │ usage billing + Stripe relay
                                       │                       │                 │
                                  S3, Postgres, sidecar        S3             Postgres ──> Stripe
```

| Component (source) | State it keeps | Operations | What is hard | What makes it correct |
|---|---|---|---|---|
| Outbox and relay (`server/shared/outbox/outbox.go`) | rows of `outbox_events`: status, attempts, lease, backoff, claim token; a batch in memory | InsertEvent; processOutbox: claim, publish concurrently, mark published, mark failed | several relays, a lease that ends under its holder, a lost acknowledgement, a crash between publish and mark | never settled without being stored; outcomes final; every event stored or given up; dead letter exactly at the limit |
| Transcode trigger (`server/api/internal/transcode/transcode.go`) | `transcode_jobs` (status, attempt) + an outbox event | TriggerJob: create, or restart a failed job; ListJobs | overlapping requests read the same failed job without a lock | one job per video; a queued job has something that will start it, or its event was given up |
| Transcode queue and worker (`server/worker/internal/job/*.go`, `pool/pool.go`) | stream messages with delivery counts; pool slots; job and video status | fetch, submit, claim, media phases, complete with billing, failJob, Ack/Nak | AckWait shorter than a job, redelivery, crash after the claim, commit with a lost answer, failJob in two statements | one owner per job, one charge per video, ready means completed, jobs end |
| Usage billing consumer (`server/worker/internal/billing/consumer.go`) | `usage_events`; an account cache of five minutes | fetch, cached account, record usage and Stripe row in one transaction, Ack/Nak | duplicate messages, stale account, immediate Nak | acknowledged means recorded, recorded once, lost only with all deliveries |
| Stripe outbox relay (same file, `billing/postgres/repository.go`) | rows of `stripe_outbox` (as the outbox) | claim, call Stripe, mark published/failed | an 80-second call under a 30-second lease, lost answers | one meter event per usage event, outcomes final |
| JetStream provisioning (`server/api/cmd/nats-init/main.go`) | streams, durable consumers | create at deployment | AckWait and MaxDeliver against what handlers take | parameters of the two models above |
| Media pipeline (`server/worker/internal/{uploader,transcode,packaging,captions}`) | files, S3 objects, caption and chapter rows | ladder, encode, package, thumbnails, captions, upload | a half uploaded HLS tree that the next attempt takes for complete | a ready video is playable; a retry adds nothing twice |
| Videos, uploads, cleanup (`server/api/internal/videos`, `server/worker/internal/cleanup`) | video rows, objects, storage counters | create, upload, multipart, soft delete + cleanup event, worker cleanup | delete while a worker completes | nothing of a deleted video stays; counters agree with objects |
| Authentication (`server/api/internal/auth/service.go`, `cache/local.go`) | API keys in Postgres, Redis hash, local LRU | verify, generate, revoke, JWKS | a verification in flight while a key is revoked; several pods | a revoked key stops working within a known time |
| Last-used tracking (`server/api/internal/auth/lastused.go`) | local debounce, Redis buffer and its temporary key | track, flush loop, merge back | flush loops of several pods on one temporary key | no use is lost, no timestamp goes back |
| Accounts, plans, webhooks (`server/api/internal/billing`; pages billing, usage, status, sidebar) | accounts (plan, balance, Stripe ids), plan cache in Redis, session copies per pod, the pages' state | HandleWebhook, GetAccountPlan, addFunds, checkout, portal; load, top up | read-modify-write without a version, cache filled after its invalidation, answers that overtake each other | the plan is one Stripe reported, the newest unless handlers overlap or an older change comes late; no answer shows what never was |
| Branding (`server/api/internal/branding`, `dashboard/app/dashboard/branding`) | watermark rows, one active per account; the asset object; the form | GetActive, Upsert, UpdateWatermark, UploadAsset; load, edit, save | two concurrent upserts, a read whose error is dropped | requests that take turns lose nothing; a row's asset is stored; saving ends |
| Buckets and objects (`server/api/internal/buckets`, migrations 017, 018, 020) | bucket and object rows, trigger-kept counters | create, list, delete | counters against rows | counters equal sums |
| Rate limiter, pagination (`server/shared/ratelimit`, `server/shared/pagination`) | a sorted set per key; an opaque cursor | Allow; encode, decode | rejected requests count; the cursor's version | at most N per window; a page's cursor is accepted by the next call |
| Storage adapter, config, logging, metrics, telemetry, db, queue (`server/shared`) | connections | start-up, SDK calls | – | – |
| Operator commands (`server/api/cmd`, `server/cmd`) | – | one-shot reconcilers, load generator | – | – |
| Captions sidecar (`server/captions-sidecar`) | none | transcribe | slow or failing call | – |
| Dashboard lists (`dashboard/app/dashboard/**`) | the React Query cache: one entry per list, several query functions each | queries of eight pages, polling, delete, create, local writes | a fetch in flight against an invalidation or a local write; pages that disagree about failures and shapes | what is deleted goes, what is created stays, "not found" has a cause |
| Player (`sdk/player/src/react/index.tsx`, `services/processRequest.ts`) | video data, view lock in localStorage and refs, events under way, subtitle blobs | load, play/pause/seek/heartbeat, event answered, conversion | a switch of video while requests and conversions are under way | no unique view against a lock that is known; the track agrees with the last URL; loads end |
| JavaScript SDK uploads (`sdk/sdk/src`) and the API's upload handlers | parts, the completed list; video row, multipart upload, object | initiate, list parts, put, complete; direct upload; delete, cleanup | a request that is given up and still carried out; deletion in between | an object is a whole file; a key is returned for what is stored, and for every upload without a failure; uploads end |
| Load generators and report (`server/scripts/*.js`, `src/scripts/aws-benchmark.sh`, `aggregate-results.js`) | counters of a tier, requests in flight, result files | dispatch, drop, drain, report, copy, aggregate | answers after the deadline, an instance that fails, a file that is lost | reports add up, the limit holds, a workload is the sum of whole results |
| Team, settings, changelog, toasts, other SDKs, generated types, report rendering | – | static pages and formatting | – | – |

Interactions that the properties are about:

- API → outbox: a domain row and its event commit in one transaction
  (TriggerJob, Delete, completeJobWithBilling). Nothing else links them.
- outbox → JetStream: at-least-once. No message id is set, so duplicates are
  normal, and every consumer has to cope with them.
- JetStream → worker: pull consumers. A message not acknowledged within
  AckWait is delivered again, MaxDeliver times in all, to any pod, also while
  the first delivery is still being handled.
- worker → Postgres: claims are conditional updates; outcomes of the two
  outboxes are fenced by a token, outcomes of a transcode job are not.
- worker → Stripe: requests carry the usage event's id as idempotency key.
- Stripe → API → Redis → pods and pages: a plan is copied four times, and a
  webhook removes one of the copies.
- page ↔ page: the pages of the dashboard meet in the entries of one cache,
  which each fills with a query function of its own.
- SDK and player → API: no request is repeated by the client, and one it has
  given up may still be carried out.

`PROJECT.json` lists each hazard at its line, with the properties that cover it
or the planned module that will.

## How to run

```
tlc -workers 2 -config MCOutbox.cfg MCOutbox.tla      # any cfg of the table below
tlapm Outbox_proofs.tla                               # and the other *_proofs modules
tlapm Video_proofs.tla                                # TranscodeJob and SdkUpload together
```

## Modules and how they correspond to the code

Common conventions. One action is one SQL statement or one transaction (what
Postgres makes atomic), one call to another service, or one passage of time the
code looks at. Time is kept only as far as a statement compares it: a lease is
`none`, `live` or `expired`, a backoff has or has not elapsed. A crash loses what
the process holds in memory, keeps the rows, and leaves messages it has sent on
the wire. Statements that are applied although their caller sees an error are
actions of their own. `Fault` bounds crashes, failed statements and the like by
`MaxFaults`; it is a bound of the model, not a mechanism of the code.

SQL statements are modelled by what they mean on a database that has the columns,
types and constraints they name. The committed migrations are not that database for
all of them: [some always err](#statements-that-do-not-fit-the-migrations) there. So
the models let each of these statements err at any time and any number of times
(`MarkPublishedError`, `ReportUsageError`, `StartError`, `PhaseFails`, `FailError` are
not counted as faults), and no fairness assumes that one succeeds. A behaviour in
which they always err is among those checked and proved about, so every property
holds on the committed schema as well; where a promise depends on their success it
says so.

### EventDelivery: what an outbox promises

Abstract. An event is `absent`, then `owed` (its transaction committed), then
`published` or `dead_letter`. `Store` adds a copy at any time after the commit,
`Settle` needs a stored copy, `Fail` counts to `MaxAttempts` and gives up exactly
there. Both outboxes are shown to implement it, and `TranscodeJob` uses the stream
through it: `Relay` is the owed store, `RelayAgain` an additional one, also of an event
that was given up, and `GiveUp` the dead letter.

### Outbox: `server/shared/outbox/outbox.go`

| State | Code |
|---|---|
| `status, attempts, lease, backoff, token` | columns status, attempts, claimed_until, next_attempt_at, claim_token |
| `pc, work, snapshot` | where a relay is in processOutbox; the lists of its batch; the attempts its claim returned |
| `late, copies` | messages on the wire whose relay gave up; what the stream has stored |

| Action | Code |
|---|---|
| `InsertEvent` | InsertEvent, with the caller's commit |
| `Claim`, `ClaimLost` | the claiming UPDATE ... FOR UPDATE SKIP LOCKED LIMIT, 90-145; the same with a query or scan error after it was applied |
| `Publish`, `PublishOk`, `PublishErr`, `PublishTimeout` | the goroutines of 147-193 |
| `LateStore`, `LateLoss` | external: a message arrives, or not, after its publisher gave up |
| `MarkPublished`, `MarkPublishedError` | the fenced bulk update 197-215, which may err any number of times |
| `MarkFailed`, `MarkFailedError` | 217-239, one statement per failed event |
| `Finish`, `Crash` | return to the ticker; the pod ends |
| `LeaseExpires`, `LeaseOverrun`, `BackoffElapses` | NOW() passes claimed_until / next_attempt_at |

A batch may skip rows that another relay's outcome statement holds locked
(`Lockable`). A claim token is named by the relay that drew it, because a relay
holds one batch at a time and never compares an older token.

### TranscodeJob: trigger, stream and worker of one job

`transcode.go`, `consumer.go`, `handler.go`, `pool.go`, and the consumer
`transcode_worker`. Rows of different videos never meet in these statements, so
one video is modelled, with any number of requests and worker slots.

| State | Code |
|---|---|
| `job, attempt, video` | transcode_jobs.status, .attempt; videos.status |
| `billed` | usage events committed by completions |
| `unknown` | ghost: commits that were applied but reported as failed |
| `request` | a TriggerJob between its SELECT and its UPDATE |
| `owed, givenUp, sent, msg, deliveries` | outbox events not yet stored, and whether one became a dead letter; messages and their delivery counts |
| `slot, holds` | a worker slot in handleMessage/Process and its message |
| `lost, abandoned` | history of the last start: deliveries that ended before a claim was tried; whether a worker left the claimed job without an outcome |

`TriggerCreate / TriggerRead / TriggerRetry / TriggerAbort` are TriggerJob;
`Deliver`, `AckWaitExpires`, `Ack`, `Nak` are the consumer; `ClaimJob`,
`ClaimRefused`, `ClaimVideo` the two statements of claimJob; `StartError` the
errors Process returns without failJob; `PhaseFails` any failing or panicking
phase; `Complete` and `CompleteUnknown` completeJobWithBilling; `FailJob`,
`FailVideo`, `FailError` the two statements of failJob, whose errors are dropped.
The media phases are one step that succeeds or fails. `Crash(W)` ends the busy slots
of any worker pods at once and is one fault; a shutdown is the same, as Start does not
wait for its jobs. The errors of statements are no faults: they may occur any number
of times.

### UsageBilling: usage event to Stripe meter event

`worker/internal/billing/consumer.go` and its repository, per worker pod: the
consumer (`Fetch`, `GetAccountCached`, `ReportUsage`, `ReportUsageUnknown`,
`ReportUsageError`, `Ack`, `AckWaitExpires`) and the Stripe relay (`Claim`, `Send`,
`SendOk/Err/Timeout`, `MarkStripeEventFailed`, `MarkStripeEventsPublished`, their
failures, `LeaseExpires`, `LeaseOverrun`), plus the account's first checkout
(`UpdateStripeCustomerID`, in the API) and the pod's cached account (`cache`).

`failed` counts the deliveries of a message that ended in an error or with their pod.
All events belong to one account; accounts do not interact. Reading the account
and filling the cache is one step: concurrent fills of one pod differ only in
which reading is kept. An account that cannot be found and a failing database are
the same `ReportUsageError`. Stripe is external: it carries out a request once per
idempotency key (it promises to remember a key for at least a day, which is far
longer than a row's attempts take). A Stripe call may outlast the lease, since
stripe-go gives a request 80 seconds and the claim 30; hence `LeaseOverrun` is
not counted as a fault here. `STRIPE_MODE=mock` is left out.

### Account: plan and balance between Stripe, pods and pages

| State | Code |
|---|---|
| `plan, funds` | the row of accounts |
| `reported` | the plans of Stripe's changes, in the order they were created (the model's numbering; the code does not look at it) |
| `hook` | per handler, a webhook in HandleWebhook between its read, UpdatePlan and the eviction |
| `planCache, reader` | `plan:<id>` in Redis; a GetAccountPlan between its miss, its read and its write |
| `session` | the account in each pod's local cache, five minutes |
| `sub, invoices`; `shown, shownPlan, load, topUp` | the queries the sidebar and two pages share; the billing page's own state and requests |

`StripeChanges` is external. `SubscriptionUpdated` hands any of the changes so far to
a handler, early or late, again, and beside others: Stripe promises no order and
HandleWebhook (billing/service.go 172-211) never looks at `event.Created`. It is
followed by `UpdatePlan` and `EvictPlan`, or ends in `HandlerFails` before either.
`InvoicePaid` reads the plan it is to write back. `MissPlan`, `ReadPlan`, `StorePlan`,
`PlanExpires` are GetAccountPlan; `AddFunds` the handler, which answers with the balance
of the row it wrote; the others are the pages' loads and handlers, their answers coming
in any order. `BillingView` and `Badge` are what the billing page and the sidebar show;
the usage page shows a balance the API never sends, a constant no property is about.
The session's entry in Redis is never found because its digest is empty, so each pod
has only its own copy.

`PlanIsReported` says what survives: the plan is always a reported one, and, when no
handler is busy, the newest, provided (`inOrder`) that its change was delivered with
no older one and no renewal beside it and no older one later. The two cases it leaves
out are the code's lost updates (below). `ShownWasTrue` is about what an answer put on
a page; what a page shows before any answer is not the account's: `$0.00` for the
balance, FREE for the badge.

### Branding: the watermark of one account

`HandleSave`/`Update` and `UploadAsset` are requests in slots: `GetActiveWatermark`
(or `GetActiveFails`, whose error UploadAsset drops), then `UpsertBegins`,
`Deactivate` and `Commit` of one transaction at READ COMMITTED: its UPDATE waits for
rows that another transaction holds, and skips those that one has deactivated. The
index on active rows (`004_indexes.up.sql:26`) is not unique, so nothing keeps two
from being active. `wanted` is the watermark each request would have made in one
step. The page is `LoadServed`, `LoadAnswered`, `Edit`, `HandleSave`,
`HandleFileUpload`.

### DashboardCache: one cached list and the pages over it

One list (videos, buckets, API keys, jobs) is followed per behaviour, since lists
share nothing. `entry, invalid, failed, fetch` are the query as React Query keeps it;
React Query is external and modelled from how the pages use it. `QueryResult` is what
each page's query function makes of an answer, `Throws` those that fail before any
request (`motionmesh` there is the SDK's class, whose `videos` and `mediaConverter`
are undefined), `Rendered` a page that throws on the shape of another's entry. The
views (`VideosView`, `BucketView`, ...) are what each page renders. `PollAnswered`
writes the API's object where the list belongs, and the next render of the list
crashes the page until a reload: there is no error boundary.

### PlayerSession: one mounted player

Refs (`eligible`, `locked`, `lastBeat`) are shared by all renders; a handler keeps the
video and the data of its render. `Show` is the effects of a new video, `Loaded` and
`LoadFails` the answer of fetchVideoData, `On...` the media events, `EventAnswered` the
code after the await of sendAnalyticsEvent. A refused event is an answered one: fetch
resolves. localStorage may hold entries of earlier sessions from the start, and
`OtherTab` writes one at any time; `overtaken` marks an entry of the shown video that
was written after the player had read it.

`SendAnalyticsEvent` returns without a request when the data have no analyticsToken
(index.tsx:420). `Tracked` is the set of videos whose data have one. In this
repository it is empty: HandleVideoPlayback answers none (videos/handler.go:552-559), so
no event is sent and no lock taken. Nor would the dashboard's proxy pass on `isUnique`
and `currentTime` (processRequest.ts:120-126). The run has one tracked video and one
that is not, since the player is a package of its own.

`UseSrtAsVttUrl` is the effect of the subtitles with its cleanup. It is keyed on the
URL (index.tsx:264), and a load may bring a new URL, the one before (CloudFront's is
constant per video, videos/handler.go:511-520; a presigned one is not), or none
(`SubtitleUrls`). A subtitle URL is named by the load that first brought it. Without
one the effect returns and leaves `vttUrl` as it was: the track keeps the subtitles of
the video before, whose blob the cleanup has revoked. `SubtitlesMatch` therefore says
of a track that is not the last URL's only that its blob is gone.

`UniqueViewsRespectLock` is about events whose data and whose lock are the same
video's. Until the shown video is loaded, events carry the data of the one before with
the refs of the shown one (index.tsx:428), and may count a unique view of the one
before against its fresh entry; several requests under way at once may all be unique,
because the entry is written when the first is answered. Both are behaviours of the
model.

### SdkUpload: uploads of the SDK through the API into the storage

One request per upload is under way (`wire`) until API or storage has handled it,
also when its client has given it up (`FetchFails`, then either side's action or
`RequestLost`). `Chunk` and `SentNumber` are the slice and the number uploadFile makes
of a part, `Joinable` what the storage accepts, `HandleMultipartComplete` and
`CompleteMultipartUpload` the two steps of completing, `HandleDeleteVideo` and
`Cleanup` a deletion in between. `field` is the name the API gives to a part's number:
the SDK reads `partNumber` or `PartNumber`, this API answers `part_number`. The run
upload tries both, and `OutcomeFollowsField` says how the outcome depends on it: no
multipart upload returns a key with the name this API uses, and with the one the SDK
reads an upload without a refusal or loss does not throw. The promise the documentation
makes, `FaultFreeReturns`, is what upload_field refutes for this API. Two uploads of one file name share an object,
so `ReturnedWasStored` says that a deletion of either takes it away, and nothing else
does. The specification's names carry the prefix `Upload` (`UploadNext`, `UploadSpec`),
as its proofs stand beside those of TranscodeJob.

### LoadGenerator: three scripts, their instances and the report

`Tick`, `DispatchEnds`, `Drained`, `DrainDeadline`, `NextTier` are runTier of the SDK
scripts, `Answer` then/catch/finally of one promise, `LateAnswer` a promise abandoned
at the deadline, which still writes to the log: on a stream that is being closed it
ends the process. `RawStart` to `RawReport` is the raw script, `Fetch`, `GiveUp`,
`WriteWorkload` the wrapper and the aggregation. All instances have the same `Tiers`;
aws-benchmark.sh 334-350 gives the first ones a request per second more when the rate
does not divide by their number. No property compares the tiers of two instances.

## Runs, bounds and why they are enough

| Run (cfg) | Instance | Shows |
|---|---|---|
| outbox (`MCOutbox`) | 2 relays, 2 events in a batch, 2 attempts, 1 fault | `DeadLetterExactlyAtLimit`, `OutcomeIsFinal`, refinement of EventDelivery |
| outbox_live (`MCOutboxLive`) | 2 relays, 2 events, batch 1, 2 attempts, 1 fault, any failures of the bulk update, fair | `EventuallyDelivered` |
| transcode (`MCTranscodeJob`) | 1 request at a time, 2 slots, 1 retry, 2 deliveries, 3 messages, 1 fault, any dead letters and failing statements, fair | `OneOwner`, `BilledOnce`, `ReadyIsCompleted`, `CompletedIsFinal`, `QueuedIsReachable`, `QueuedSettles` |
| transcode_race (`MCTranscodeJobRace`) | 2 requests, 2 slots, no fault | violation: `Exclusive` |
| billing (`MCUsageBilling`) | 2 pods, 1 event, 1 message, 2 deliveries, 2 attempts, 1 fault, any failures to record, fair | `MeteredOnce`, `AckedIsRecorded`, `OutcomeIsFinal`, refinement of EventDelivery, `UsageIsRecorded`, `EventuallySettled` |
| account (`MCAccount`) | 1 pod, 2 webhook handlers, 2 plan changes, any renewals, 2 top-ups, one side at a time in full | `PlanIsReported`, `PlanCacheIsCurrent`, `ShownWasTrue`, `FundsAreShown` |
| branding (`MCBranding`) | 2 requests at once, 3 in all, 2 configurations, fair | `LikeOneAtATime`, `AssetIsStored`, `SavingEnds` |
| pages (`MCDashboardCache`) | 1 video, 3 buckets of which 1 exists, 1 key, fair | `DeletedRowIsReplaced`, `CreatedBucketIsKept`, `NotFoundIsFailure`, `LoadingEnds` |
| player (`MCPlayerSession`) | 2 videos, 1 tracked, 3 loads with a new, the same or no subtitle URL, 1 event under way, fair | `UniqueViewsRespectLock`, `SubtitlesMatch`, `NeverOlderSubtitles`, `LoadingEnds` |
| upload (`MCSdkUpload`) | 2 uploads with one key, files up to 3 units, parts of 2, 3 ways, fair | `ObjectIsWhole`, `ReturnedWasStored`, `OutcomeFollowsField`, `UploadEnds`, and in `UploadIInv` that an upload that is waited for has a request under way and has put its parts in order |
| upload_field (`MCSdkUploadField`) | 1 upload, the field this API answers | violation: `FaultFreeReturns` |
| loadgen (`MCLoadGenerator`) | 2 instances, tiers of 1 and 3, limit 2, fair | `ReportAddsUp`, `StaysBelowLimit`, `WorkloadIsWhole`, `DrainEnds` |

Why the bounds suffice for what they are to show. The hazards are about two
parties and one row: the relay (pod, slot) that lost its lease and the one that
took it, so two of them meet every interleaving of a pair. Two attempts make the first and the last attempt
different, with a backoff between them, in both outboxes. Two outbox events make a
batch with mixed outcomes; with a batch of one they make an event that an older one
crowds out. A duplicate of a usage event is its message delivered again while another
pod still handles the first delivery. In the transcode run `MaxMsgs` leaves room for
the event of the creation, that of the retry, and a second copy of one of them: with
less room a copy would crowd out an event and a queued job would look lost; two
deliveries let a message be refused and used up. More events, larger batches and more
messages of one event are covered by the theorems, which hold for all values; the
bounds matter only for what TLC alone shows.

For the clients: two webhook handlers meet in every order, with a change, an older
change and any renewals. Webhooks and pages meet in the account's row only, as do plans
and balances, so the account run has a `CONSTRAINT` (`OneSideInFull`): it follows both
handlers, all changes and the plan cache while no page has been opened; the pages over
one change, written by one handler, and one top-up; and the pages over two top-ups
without a change. The theorems have no such constraint, and their inductive invariant
was checked under it first. Two branding
requests meet in every order, and the third shows what they leave to the next. One
video suffices for the pages, since no view relates two rows, and three buckets let a
creation meet a fetch that knows some of them. Three loads of two videos make every
switch forth and back and a load of the same video again, and an event may be answered after
a switch. Files of 0 to 3
units in parts of 2 have no part, one short part, one full part, and a full and a short
one. A tier of one request fits under the limit of two, one of three does not; ticks of
1 and 2 requests carry a fraction over.

`QueuedIsReachable` and `QueuedSettles` name what they exclude: an event that became a
dead letter, a message whose every delivery ended before a claim was tried (by a crash
or an error of the claim; on the committed schema every message), and, for the end of
a claimed job, a worker that left it without an outcome. `EventuallyDelivered` excludes
an event that is crowded out by a full batch of unsettled older ones, and promises the
row's settlement only once the bulk update stops failing; `UsageIsRecorded` excludes a
message of which every delivery failed. Each of these is a behaviour of the code that
[the list below](#where-the-code-and-its-documents-disagree) names.

Symmetry is used only for the relays of the outbox and the webhook handlers of the
account (nothing tells them apart), in runs without liveness properties.
`CHECK_DEADLOCK FALSE` is set where the system may really stop: every event settled and
nobody asking for anything, every upload over, a player whose loads are used up, a
benchmark that has ended. The runs account, branding and pages check for deadlock: a
plan can always expire or a page be left, and a form can always be edited.

## Fairness

Weak fairness throughout, and only for what some loop or timer of the code drives:

- a relay's ticker calls processOutbox again, and each of its statements and calls
  ends (with whatever result: `PublishEnds`, `SendEnds` and the bulk update with its
  failure are fair as disjunctions, so that an acknowledgement or the update is never
  promised; an outbox event is relayed or given up);
- the worker's fetch loop delivers what may be delivered, and a running Process goes
  on (success or failure is not chosen by fairness);
- AckWait, leases and backoffs run out;
- a request of a page, a player or an SDK is answered or fails (which of the two is
  not chosen: `LoadFails \/ Loaded`, `Handle \/ FetchFails` are fair as disjunctions),
  and JavaScript runs the callback of a promise that has settled;
- in Branding, a request that can take its next step takes it (a lock is released by a
  commit or a rollback, so a transaction that waits gets its rows);
- in LoadGenerator, timers fire; nothing is assumed of the server, so requests may
  never answer.

Not fair: client requests, the stream or Stripe accepting anything, the success of a
worker's statement, every fault, a lease running out under its holder. For the Stripe relay `EventuallySettled`
needs one hypothesis more, that from some time on leases do not run out under
their holders. Without it two pods can take a row from each other for ever: each
outcome is refused by the fence, and no attempt is counted.

## What is proved

TLAPS proves, for every number of relays, workers, pods, webhooks, requests,
instances, events, messages, attempts, deliveries and faults, and for any videos,
buckets, keys, plans, configurations, files, sizes of parts and tiers:

| Theorem | Says |
|---|---|
| `Outbox_proofs!Inductive`, `TypeCorrect` | `Spec => []IInv`, `[]TypeOK` |
| `NoPhantomPublish` | `[]PublishedIsStored` |
| `DeadLetterAtLimit` | `[]DeadLetterExactlyAtLimit` |
| `OutcomesAreFinal` | the action property `OutcomeIsFinal` |
| `Refinement` | Outbox implements EventDelivery |
| `Video_proofs!Inductive`, `Exclusivity`, `ChargedOnce`, `ReadyMeansCompleted`, `CompletionIsFinal` | of TranscodeJob `IInv`, `OneOwner` with `OwnerIsProcessing`, `BilledOnce`, `ReadyIsCompleted`, `CompletedIsFinal`, when trigger requests do not overlap |
| `TypeCorrect`, `Carried`, `QueuedReachable` | of TranscodeJob `TypeOK`, `CarriedIInv`, `QueuedIsReachable`, however requests overlap |
| `Starts`, `OverlapIsBounded` | of TranscodeJob `StartsIInv`, `ChargedPerStart` and `RetriesAreLimited`, for any finite set of overlapping requests |
| `UploadInductive`, `ObjectsAreWhole`, `ReturnedIsStored`, `OutcomeFollows` | of SdkUpload `UploadIInv`, `ObjectIsWhole`, `ReturnedWasStored`, `OutcomeFollowsField` |
| `UsageBilling_proofs!Inductive`, `MeterOnce`, `AckMeansRecorded`, `NoPhantomMeter`, `StripeOutcomesAreFinal`, `Refinement` | `IInv`, `MeteredOnce`, `AckedIsRecorded`, `PublishedIsMetered`, `OutcomeIsFinal`, and that the Stripe relay implements EventDelivery |
| `Account_proofs!Inductive`, `PlansArrive`, `PlanCacheFollows`, `PagesInventNothing`, `TopUpIsShown` | `IInv`, `PlanIsReported`, `PlanCacheIsCurrent`, `ShownWasTrue`, `FundsAreShown` |
| `Branding_proofs!Inductive`, `TurnsLoseNothing`, `AssetsAreStored` | `IInv`, `LikeOneAtATime`, `AssetIsStored` |
| `DashboardCache_proofs!Inductive`, `DeletedRowsGo`, `CreatedBucketsStay`, `NotFoundMeansFailure` | `IInv`, `DeletedRowIsReplaced`, `CreatedBucketIsKept`, `NotFoundIsFailure` |
| `PlayerSession_proofs!Inductive`, `UniqueViews`, `SubtitlesOfTheUrl`, `SubtitlesOnlyNewer` | `IInv`, `SubtitlesMatch`, and the action properties `UniqueViewsRespectLock` and `NeverOlderSubtitles` |
| `LoadGenerator_proofs!Inductive`, `ReportsAddUp`, `LimitHolds`, `WorkloadInductive`, `WorkloadWhole` | `IInv`, `ReportAddsUp`, `StaysBelowLimit`, `WorkloadIInv`, `WorkloadIsWhole` |

Assumptions are the `ASSUME`s of the modules: limits are naturals (attempts,
batch size, deliveries, tick rates and the concurrency limit at least 1), the
marks for "nothing" (NULL, None, Blank) are none of the values they stand beside,
a set that names part of another is a subset of it, and the instances of a benchmark
are finitely many. Every inductive invariant was an invariant of a TLC run before it
was proved; the runs keep only what says something about the code, so types and
strengthenings are now in the theorems. With these, every safety property of the
passing runs is a theorem.

*Outbox.* `PublishedIsStored` alone is not inductive: the step that could break it is
a relay that marks an event it knows to be stored. So `IInv` adds that an `ok`
outcome stands for a stored copy. `DeadLetterExactlyAtLimit` needs that the attempts
a relay computes from, those its claim returned, are still the row's attempts when the
statement is applied. That is `HolderIsCurrent`: whoever's token is on the row works
from current knowledge. It is what the fence buys: each claim and each outcome
changes the token, so a relay that lost the row fails the fence. `OutcomeIsFinal` then
follows from `HolderIsCurrent` (a row with a holder is `publishing`, hence not settled).
The refinement maps pending, publishing and failed to `owed`; each relay step is one
abstract step or a stutter, `MarkPublished` being a `Settle` of the owned events.

*TranscodeJob.* `IInv` says the owner has the job in `processing` (or in `completed`
after a commit reported as failed), so the claim, which takes only `queued` jobs,
cannot produce a second one; a request that is to restart the job has the job in
`failed`. The latter holds only while requests do not overlap: the theorem has the
hypothesis `Serialized`, and the run transcode_race shows it is needed. `BilledOnce`
follows because a job that is not completed has been charged only by such commits.

`QueuedIsReachable` needs no such hypothesis, but its own invariant, `CarriedIInv`: a
queued job has an owed event, one that was given up, or a *carrier*, a message no slot
has acted on, with no more deliveries than it was `lost` before a claim and is received
now. The deliveries are
what makes it inductive: a message is used up without a claim only by a refusal, after
which the job is not queued, or by losses, which the property names. A retry that queues the job anew always
owes a new event, so it does not matter which carriers the earlier life of the job left.

What the overlap of requests can cost is `StartsIInv`: only a queued job is claimed and
only a claim leads to a charge, so charges, slots that may still charge and a queued
job together are no more than the starts; and a retry has read `attempt` below the
limit, so the limit is overshot by the retries then under way, one fewer than requests
may run at once. Together they are the weaker promise left where transcode_race shows
`Exclusive` violated: two workers at once, but never more charges than starts.

*SdkUpload.* `ObjectIsWhole` depends on all that came before the join: `Progress` says
that the parts put are the first ones of the list, in order and each with the slice of
its number, that the storage holds what the client believes it put, and that the rest
of the list is still to come; `UnderWay` that requests agree with rows and multipart
uploads. Then a list the storage accepts has the file's parts and no others: with a
number that cannot be read the list is refused, and otherwise the slices,
`n * PartSize` apart with a shorter last one, are joined to the file
(`JoinedIsFile`). `OutcomeFollowsField` has the converse: a list made without a failure is
`Joinable` if its numbers can be read, because all parts but the last are full and the
last is not empty; and a list that is joined could be read (`JoinableIsReadable`).
`ReturnedWasStored` holds with the types and `UnderWay`: rows stay deleted, and a
cleanup is under way only for a deleted row.

*UsageBilling.* As Outbox, and for `MeteredOnce` that every request, on the wire or
carried out, has the event's id as key and belongs to a recorded row.

*Account.* `HookInv`: every handler holds a reported plan, and while `inOrder` holds
each of them the newest, so that whichever writes last writes it; a renewal that began
once no change was waiting to be written has read it. `CacheInv`: a reader that no
update has overtaken has the row's plan, and between an update and its eviction
(`Evicting`) nothing is said of Redis. `CopiesInv`: every copy, in sessions, answers and
pages, is an earlier row's (balances only grow from `Opening`). `AloneInv`: a top-up
with no other request under way is answered with the balance of the row. The ghosts
`inOrder`, `aged` and `alone` say which overlapping the properties exclude; that each is
needed is a behaviour of the model.

*Branding.* `TurnsInv`: as long as requests take turns, the one inside its transaction
holds all active rows. `MergeInv`: what it is to write is what it makes of the watermark
as one step. `StoreInv` holds however requests overlap: who carries the asset has
stored it.

*DashboardCache.* A deleted row can be in the list only while the query is marked
invalid or an answer older than the deletion is in (`VideosOK`), and a page that is on
screen with an invalid query is fetching or has failed (`FetchOK`): together the row
goes. `BucketsOK` does the same for a bucket written locally, whose query stays
invalid until an answer replaces it. `ClaimsHold` links what pages have reported to
what the server did, `JobsOK` says that the jobs query has never had an answer.

*PlayerSession.* `LoadingIsRequest`, the flag is the request under way, keeps loads in
sequence. `LockIsKnown`: the refs know of a fresh entry of the shown video unless
another tab wrote it since. `SubtitlesMatch` is inductive with `UrlIsLoaded`: the effect
of the URL before is cleaned up before the next one starts, so only the conversion of
the present URL can still reach the track.

*LoadGenerator.* `CountersAddUp` relates the five counters in every state, not only at
a report; `TierProgress` says a tier is dispatched in full before it drains, and
`FilesAreOfEnded` that the wrapper holds only files of processes that ended. For
`WorkloadIsWhole`, `WorkloadIInv` adds that the one file of a distributed instance is
the report of the tier it is at, and of the last tier once it has finished.

*Recursive functions.* `Total` adds over the set of instances and `FlattenSeq` joins a
list of parts. That each is what it is meant to be, for every number of instances and
parts, is proved without an induction theorem: a set of naturals that is not empty has
a least member (`LeastNat`), so there would be a smallest set, or a shortest prefix,
for which the equation fails, and the step of the recursion refutes it.

## Where the code and its documents disagree

Two disagreements are counterexamples of a run and entries of `findings`:

- **transcode_race**: two requests read the failed job, the first restarts it, a worker
  claims it, the second resets it to queued, and another worker claims it too.
- **upload_field**: the API answers the number of a part as `part_number`
  (videos/handler.go:323), the SDK reads `partNumber` or `PartNumber` (uploadFile.ts:20).
  So the list it completes a multipart upload with has no numbers, the storage refuses
  it, and the upload throws although no request failed; `javascript.mdx:40` promises a key.

The models have the following behaviours too. None is claimed as a property; where a
property comes near one, its statement says what it excludes.

Server:

- Publish, timeout, publish again: no message id lets the stream drop the copy.
  `docs/scaling/current-state.md:13` says exactly-once. What holds is at-least-once, and
  consumers are built for it.
- failJob has set the job to failed but not yet the video; a client restarts the job,
  another worker completes it, and then the second statement of failJob sets the ready
  video to failed. The same happens after a commit that was applied but reported as
  failed.
- A worker dies after the claim: all redeliveries are refused by the claim, and
  TriggerJob does nothing for a job in processing. Likewise the Nak that is to retry a
  failed job redelivers a message whose claim is refused, as failJob has just set the
  job to failed.
- The outbox gives an event of a transcode job up after its last attempt
  (outbox.go:222-224). The job stays queued for good, as TriggerJob does nothing for a
  queued job (transcode.go:64). So it does when every delivery of its message ended in
  an error of the claim or with its pod. `QueuedIsReachable` and `QueuedSettles` say that
  nothing else strands a queued job.
- A Nak without delay uses up MaxDeliver of a usage event within an outage of moments.
- An account cached before its first checkout has usage recorded without a Stripe row,
  for up to five minutes, and nothing adds the row later.
- An older change of a subscription that Stripe delivers after a newer one (its first
  delivery failed, say) puts the older plan back, and nothing corrects it:
  billing/service.go:193 does not compare `event.Created`. A renewal in one webhook
  writes back the plan it read before another's update. A plan read before an update is
  cached after its eviction. `PlanIsReported` and `PlanCacheIsCurrent` hold outside
  these cases.
- Overlapping branding requests lose one's asset or configuration, or leave two rows
  active; UploadAsset takes a failed read for an account without a watermark.

SDK uploads:

- A Buffer has no `size`: it is uploaded as an empty object, and an empty file asks for
  ten parts that the storage refuses. A multipart upload that failed is never aborted.
- A row that is deleted while its upload completes leaves its object behind.
- Every 404 is reported as "route not found", also that of a deleted video.

Dashboard:

- The home page caches API keys under `['api-keys']`, the others under `['apiKeys']`. The
  queries of home, video and media-convert throw on the SDK's class before any request,
  and "No transcode jobs yet" is what a failure looks like. The activity page fails to
  render on every answer of the API. There is no error boundary.
- "has been permanently deleted" (`buckets/[id]/page.tsx:146`) and "has been revoked
  permanently" (`keys/page.tsx:80`) are shown without a request.
- The usage page shows $0.00, as the API never sends its field; the status page says
  operational whatever happens (`status/page.tsx:38`); `["billing","subscription"]` is
  never invalidated, so the sidebar, which `billing/service.go:164` says reads the
  real-time plan, is up to five minutes behind. A top-up whose answer is lost is reported as failed.
- The branding page's upload is refused by the API and reported as done, and its load
  overwrites edits made before it was answered.

Player: a video switched to while a load is under way is never loaded, and its events go
out with the data of the one before; an event the API refuses still takes the view lock;
the heartbeat's time is kept over a switch; a video without subtitles keeps the track of
the one before, with a revoked blob; conversions that were given up keep their blob. With
this API none of the player's events is sent, as the playback answer has no
`analyticsToken`.

Load generators: an answer after the deadline writes to a stream that is being closed,
which ends the process and discards its result; requests that were given up stay under
way, so with those of the next tier the process exceeds the limit that each tier keeps;
each tier overwrites `result.json`; a result that cannot be copied is left out
of the sum without a word (`|| true`); the drains of the raw and hot-key scripts have no deadline.

### Statements that do not fit the migrations

On the schema `infra/postgres/migrations` creates, Postgres refuses these statements
every time. The models let each of them err as often as it likes, which includes
always; what follows says what the program then does.

- `UPDATE outbox_events ... WHERE t.id = u.id` (outbox.go:204-210) compares the `UUID` of
  010:2 with `unnest($1::text[])`. The error is logged only. An acknowledged event stays
  `publishing`, is claimed again after its minute and published again, for ever; as the
  oldest rows come first, a full batch of such rows keeps newer events from being
  published at all. The claim and the update of a failed event fit their columns.
  `EventuallyDelivered` therefore promises that the stream has stored the event, the
  outbox has given it up or it is crowded out in this way, and that the row is marked
  only if the update stops failing.
- `ON CONFLICT (event_id)` and `ON CONFLICT (usage_event_id)` (worker billing
  repository.go:56, :72) name no index: those of 022:6-8 and 025:8-10 are partial, and
  the clauses have no WHERE. Every usage event is Nak'ed until MaxDeliver and lost.
  `AckedIsRecorded` holds as nothing is acknowledged; `UsageIsRecorded` promises only
  that an event is recorded or its deliveries are used up.
- claimJob, updateJobProgress, updateCaptionsStatus and failJob (worker job/handler.go:532,
  :541, :546, :551, :557-558) compare `VARCHAR` ids (001:44, :83) with `::uuid`. No job is
  claimed: its message is refused MaxDeliver times and the job stays queued.
- finalize sets `progress` (handler.go:372); the column is `progress_percent` (001:85). A
  completion would be rolled back.

## What is only model-checked, and what is not modelled

Only model-checked: all liveness (`EventuallyDelivered`, `EventuallySettled`, `QueuedSettles`,
`UsageIsRecorded`, `UploadEnds`, `DrainEnds`, `SavingEnds`, both `LoadingEnds`), because
TLAPS does not do liveness under fairness here. Of several of them the part that is
safety, that there is always someone to take the next step, is proved:
`QueuedIsReachable` for `QueuedSettles`, `DeadLetterExactlyAtLimit` for
`EventuallyDelivered`, `AckedIsRecorded` for `UsageIsRecorded`, `UnderWay` for
`UploadEnds`, `LoadingIsRequest` for the player's `LoadingEnds`.

Not modelled: configuration, logging, metrics, telemetry, operator commands, the
sidecar, FFmpeg commands, the rendering of reports, and the components the plan below
still has to reach. Of the dashboard: team, settings, changelog, sign-in and toasts,
which keep nothing that other parts depend on; the objects of a bucket page and the
upload of the videos page, which always fails. Of accounts: customer creation,
suspension and the invoice list. Of the player: the country lookup, styles, icons and
the HLS settings. In the modelled components: durations (the one-minute lease masks the
shorter backoff of a failed outbox event, which needs a timed model), malformed
messages, which the producers do not write, and the two look-ups before TriggerJob.

## Plan

Done, in this order: EventDelivery; Outbox with its proofs; TranscodeJob, composed
with the promise of EventDelivery, with its proofs; UsageBilling with its proofs;
LoadGenerator, PlayerSession, DashboardCache, Account and Branding, each with its
proofs; SdkUpload; then the theorems about its objects, about the stream of
TranscodeJob without assumptions on the requests, and about the sums of LoadGenerator.

Next, most important first:

1. **HlsUpload** – the media phases of Process over several attempts: partial upload
   against the alreadyEncoded shortcut, captions and chapters on a retry.
   Property: a ready video has all its segments. 2 attempts, 3 objects.
2. **VideoLifecycle** – upload, soft delete, cleanup event (through EventDelivery),
   completion in between, objects and counters. Property: counters agree with rows,
   nothing is written for a deleted video. Proof: counter invariant.
3. **AuthCache** – API keys: local tier per pod, Redis, Postgres; a verification as read,
   fill, fill, against revoke as update, evict, evict. Abstract specification: a key
   that is valid, then not. 2 pods, 1 key.
4. **LastUsed** – debounce, Redis buffer, rename, flush, merge back, 2 pods.
5. **Customer creation** – in Account: checkout and the first usage of an account.
6. **RateLimit**, **Pagination**, **AbrLadder** – functions checked against reference
   definitions over bounded inputs.
7. Theorems: at most one effective flush of LastUsed; the counters of VideoLifecycle.

Each run answers one question, and their number stays near what it is: a new
module brings one run for its safety and liveness together.
