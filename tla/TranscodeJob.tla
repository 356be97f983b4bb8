---------------------------- MODULE TranscodeJob ----------------------------
(***************************************************************************)
(* The life of the transcode job of one video:                             *)
(*   - HandleCreateTranscodeJob / TriggerJob in the API pods               *)
(*     (src/server/api/internal/transcode/transcode.go),                   *)
(*   - the transcode.jobs stream with its durable consumer                 *)
(*     transcode_worker (src/server/api/cmd/nats-init/main.go),            *)
(*   - the pull consumer and Handler.Process in the worker pods            *)
(*     (src/server/worker/internal/job/{consumer,handler}.go).             *)
(*                                                                         *)
(* Every statement and every transaction is one step.  The rows of two     *)
(* videos never meet, so one video is modelled.  The outbox between API    *)
(* and stream is used through its abstract specification (EventDelivery):  *)
(* an owed event is stored at least once and maybe again, or given up as a *)
(* dead letter.  All messages of a video carry the same payload.           *)
(*                                                                         *)
(* A statement of the worker may err at any time and any number of times.  *)
(* On the migrations of this repository some always do: the claim and      *)
(* failJob compare the VARCHAR video_id with a uuid, the completion sets a *)
(* column that does not exist.                                             *)
(***************************************************************************)
EXTENDS Naturals, FiniteSets

CONSTANTS Triggers,     \* API requests that may run TriggerJob concurrently
          Workers,      \* slots of the worker pools
          MaxRetries,   \* TriggerJob: attempts >= 3
          MaxDeliver,   \* consumer: MaxDeliver (3)
          MaxMsgs,      \* bound on messages ever stored for the video
          MaxFaults     \* bound on crashes, lost commits and repeated messages

ASSUME TranscodeAssumption ==
  /\ IsFiniteSet(Workers)
  /\ MaxRetries \in Nat
  /\ MaxDeliver \in Nat \ {0}
  /\ MaxMsgs \in Nat
  /\ MaxFaults \in Nat

Msgs == 1..MaxMsgs

VARIABLES
  job,         \* transcode_jobs.status, "none" before the row exists
  attempt,     \* transcode_jobs.attempt
  video,       \* videos.status
  billed,      \* usage events committed with a completion
  unknown,     \* completions whose commit was applied but reported as failed
  request,     \* trigger: "idle", or "retry" once it has read a failed job
  owed,        \* committed transcode.jobs events the stream has not stored
  givenUp,     \* history of the last start: an event became a dead letter
  sent,        \* messages stored so far
  msg,         \* message: "absent", "ready", "out" (delivered) or "done"
  deliveries,  \* message: how often it was delivered
  slot,        \* worker slot: where its message stands in Process
  holds,       \* worker slot: the message it handles, 0 if none
  lost,        \* history of the last start: deliveries of a message that ended
               \* before a claim was tried
  abandoned,   \* history of it: a worker left the claimed job without an outcome
  faults       \* faults so far

jobVars == <<job, attempt, video, billed, unknown>>
apiVars == <<request, owed, givenUp>>
streamVars == <<sent, msg, deliveries>>
history == <<lost, abandoned>>
vars == <<job, attempt, video, billed, unknown, request, owed, givenUp, sent, msg, deliveries,
          slot, holds, lost, abandoned, faults>>

TypeOK ==
  /\ job \in {"none", "queued", "processing", "failed", "completed"}
  /\ attempt \in Nat
  /\ video \in {"queued", "processing", "ready", "failed"}
  /\ billed \in Nat /\ unknown \in Nat
  /\ request \in [Triggers -> {"idle", "retry"}]
  /\ owed \in Nat /\ givenUp \in BOOLEAN
  /\ sent \in 0..MaxMsgs
  /\ msg \in [Msgs -> {"absent", "ready", "out", "done"}]
  /\ deliveries \in [Msgs -> 0..MaxDeliver]
  /\ slot \in [Workers -> {"idle", "received", "claimed", "working", "failing",
                           "failing_video", "acking"}]
  /\ holds \in [Workers -> 0..MaxMsgs]
  /\ lost \in [Msgs -> Nat] /\ abandoned \in BOOLEAN
  /\ faults \in 0..MaxFaults

Init ==
  /\ job = "none" /\ attempt = 0 /\ video = "queued" /\ billed = 0 /\ unknown = 0
  /\ request = [t \in Triggers |-> "idle"]
  /\ owed = 0 /\ givenUp = FALSE /\ sent = 0
  /\ msg = [m \in Msgs |-> "absent"]
  /\ deliveries = [m \in Msgs |-> 0]
  /\ slot = [w \in Workers |-> "idle"]
  /\ holds = [w \in Workers |-> 0]
  /\ lost = [m \in Msgs |-> 0] /\ abandoned = FALSE
  /\ faults = 0

Fault == faults < MaxFaults /\ faults' = faults + 1
-----------------------------------------------------------------------------
(* TriggerJob: the insert meets no conflict, row and event commit together. *)
TriggerCreate(t) ==
  /\ request[t] = "idle" /\ job = "none"
  /\ job' = "queued"
  /\ owed' = owed + 1
  /\ UNCHANGED <<attempt, video, billed, unknown, request, givenUp, streamVars, slot, holds,
                 history, faults>>

\* Mutant: a completed job is restarted as well.
MayRetryCompleted == job \in {"failed", "completed"} /\ attempt < MaxRetries

(* The statuses TriggerJob restarts, and its limit. *)
MayRetry == job \notin {"none", "queued", "processing", "completed"} /\ attempt < MaxRetries

(* TriggerJob: the insert conflicts and the SELECT, which takes no lock,   *)
(* reads a job to retry.                                                   *)
TriggerRead(t) ==
  /\ request[t] = "idle" /\ MayRetry
  /\ request' = [request EXCEPT ![t] = "retry"]
  /\ UNCHANGED <<jobVars, owed, givenUp, streamVars, slot, holds, history, faults>>

\* The history begins anew with the event of a new start.
Forget == givenUp' = FALSE /\ lost' = [m \in Msgs |-> 0] /\ abandoned' = FALSE

\* Mutant: the event is recorded only when the row is created.
TriggerRetryNoEvent(t) ==
  /\ request[t] = "retry"
  /\ job' = "queued"
  /\ attempt' = attempt + 1
  /\ request' = [request EXCEPT ![t] = "idle"]
  /\ Forget
  /\ UNCHANGED <<video, billed, unknown, owed, streamVars, slot, holds, faults>>

(* TriggerJob: the update looks at the id only; it commits with the event. *)
TriggerRetry(t) ==
  /\ request[t] = "retry"
  /\ job' = "queued"
  /\ attempt' = attempt + 1
  /\ owed' = owed + 1
  /\ request' = [request EXCEPT ![t] = "idle"]
  /\ Forget
  /\ UNCHANGED <<video, billed, unknown, streamVars, slot, holds, faults>>

(* The transaction is rolled back by an error or the death of the pod. *)
TriggerAbort(t) ==
  /\ request[t] = "retry"
  /\ request' = [request EXCEPT ![t] = "idle"]
  /\ UNCHANGED <<jobVars, owed, givenUp, streamVars, slot, holds, history, faults>>
-----------------------------------------------------------------------------
(* The relay has the stream store an event: owed, or once more. *)
StoreMessage ==
  /\ sent < MaxMsgs
  /\ sent' = sent + 1
  /\ msg' = [msg EXCEPT ![sent + 1] = "ready"]
  /\ UNCHANGED <<jobVars, request, givenUp, deliveries, slot, holds, history>>

Relay ==
  /\ owed > 0
  /\ owed' = owed - 1
  /\ StoreMessage
  /\ UNCHANGED faults

(* The relay has used up its attempts: the event is a dead letter.  No     *)
(* crash is needed for that, MaxAttempts refused publishes are enough.     *)
GiveUp ==
  /\ owed > 0
  /\ owed' = owed - 1 /\ givenUp' = TRUE
  /\ UNCHANGED <<jobVars, request, streamVars, slot, holds, history, faults>>

(* An event is stored without being settled: again, or one given up.       *)
RelayAgain ==
  /\ job # "none"
  /\ StoreMessage
  /\ Fault
  /\ UNCHANGED owed

(* Fetch hands a message to a slot, or queues it for the slot in Submit. *)
Deliver(w, m) ==
  /\ slot[w] = "idle"
  /\ msg[m] = "ready" /\ deliveries[m] < MaxDeliver
  /\ msg' = [msg EXCEPT ![m] = "out"]
  /\ deliveries' = [deliveries EXCEPT ![m] = @ + 1]
  /\ slot' = [slot EXCEPT ![w] = "received"]
  /\ holds' = [holds EXCEPT ![w] = m]
  /\ UNCHANGED <<jobVars, apiVars, sent, history, faults>>

(* AckWait (30 minutes, while Process may take two hours and never reports *)
(* progress) passes: the message may be delivered again.                   *)
AckWaitExpires(m) ==
  /\ msg[m] = "out"
  /\ msg' = [msg EXCEPT ![m] = "ready"]
  /\ UNCHANGED <<jobVars, apiVars, sent, deliveries, slot, holds, history, faults>>

(* handleMessage returns: NakWithDelay on an error, Ack otherwise. *)
Release(w) ==
  /\ slot' = [slot EXCEPT ![w] = "idle"]
  /\ holds' = [holds EXCEPT ![w] = 0]
  /\ UNCHANGED <<apiVars, sent, deliveries>>

Nak(w) ==
  /\ msg' = [msg EXCEPT ![holds[w]] = IF @ = "out" THEN "ready" ELSE @]
  /\ Release(w)

Ack(w) ==
  /\ msg' = [msg EXCEPT ![holds[w]] = "done"]
  /\ Release(w)

Goto(w, s) == slot' = [slot EXCEPT ![w] = s] /\ UNCHANGED holds
-----------------------------------------------------------------------------
\* Mutant: the claim does not look at the status of the job.
ClaimAnyJob(w) ==
  /\ slot[w] = "received"
  /\ job' = "processing"
  /\ Goto(w, "claimed")
  /\ UNCHANGED <<attempt, video, billed, unknown, apiVars, streamVars, history, faults>>

(* claimJob: UPDATE transcode_jobs ... AND status = queued *)
ClaimJob(w) ==
  /\ slot[w] = "received"
  /\ job = "queued"
  /\ job' = "processing"
  /\ Goto(w, "claimed")
  /\ UNCHANGED <<attempt, video, billed, unknown, apiVars, streamVars, history, faults>>

(* claimJob: no row, "job not found in pending state or already claimed" *)
ClaimRefused(w) ==
  /\ slot[w] = "received" /\ job # "queued"
  /\ Nak(w)
  /\ UNCHANGED <<jobVars, history, faults>>

(* claimJob: UPDATE videos ... RETURNING account_id, bucket_id *)
ClaimVideo(w) ==
  /\ slot[w] = "claimed"
  /\ video' = "processing"
  /\ Goto(w, "working")
  /\ UNCHANGED <<job, attempt, billed, unknown, apiVars, streamVars, history, faults>>

(* What becomes of the messages and the job of slots that stop where they  *)
(* are.                                                                    *)
Leave(W) ==
  /\ lost' = [m \in Msgs |->
               lost[m] + Cardinality({w \in W : slot[w] = "received" /\ holds[w] = m})]
  /\ abandoned' = (abandoned \/ \E w \in W : slot[w] \in {"claimed", "working", "failing"})

(* One of claimJob's statements or MkdirTemp fails: Process returns the    *)
(* error without failJob.                                                  *)
StartError(w) ==
  /\ slot[w] \in {"received", "claimed", "working"}
  /\ Leave({w})
  /\ Nak(w)
  /\ UNCHANGED <<jobVars, faults>>

(* A phase fails or panics: download, probe, encode, upload, completion,   *)
(* or the transaction of the completion is refused.                        *)
PhaseFails(w) ==
  /\ slot[w] = "working"
  /\ Goto(w, "failing")
  /\ UNCHANGED <<jobVars, apiVars, streamVars, history, faults>>

(* completeJobWithBilling: video, job and usage event in one transaction.  *)
CompletedRows ==
  /\ video' = "ready"
  /\ job' = "completed"
  /\ billed' = billed + 1
  /\ UNCHANGED attempt

Complete(w) ==
  /\ slot[w] = "working"
  /\ CompletedRows
  /\ Goto(w, "acking")
  /\ UNCHANGED <<unknown, apiVars, streamVars, history, faults>>

(* The commit is applied, but its answer is lost: Process goes to failJob. *)
CompleteUnknown(w) ==
  /\ slot[w] = "working"
  /\ CompletedRows
  /\ unknown' = unknown + 1
  /\ Fault
  /\ Goto(w, "failing")
  /\ UNCHANGED <<apiVars, streamVars, history>>

AckDone(w) ==
  /\ slot[w] = "acking"
  /\ Ack(w)
  /\ UNCHANGED <<jobVars, history, faults>>

\* Mutant: only the video is marked failed.
FailJobSkipped(w) ==
  /\ slot[w] = "failing"
  /\ Goto(w, "failing_video")
  /\ UNCHANGED <<jobVars, apiVars, streamVars, history, faults>>

(* failJob, first statement: the status of the job, whatever it is now. *)
FailJob(w) ==
  /\ slot[w] = "failing"
  /\ job' = "failed"
  /\ Goto(w, "failing_video")
  /\ UNCHANGED <<attempt, video, billed, unknown, apiVars, streamVars, history, faults>>

(* failJob, second statement.  A recovered panic makes Process return nil, *)
(* so the message is acknowledged; an error makes it negative.             *)
FailVideo(w) ==
  /\ slot[w] = "failing_video"
  /\ video' = "failed"
  /\ (Nak(w) \/ Ack(w))
  /\ UNCHANGED <<job, attempt, billed, unknown, history, faults>>

(* A statement of failJob fails and its error is dropped: for one, ctx has *)
(* passed its two hours or was cancelled by the shutdown.                  *)
FailError(w) ==
  /\ \/ /\ slot[w] = "failing"
        /\ Goto(w, "failing_video")
        /\ abandoned' = TRUE
        /\ UNCHANGED <<apiVars, streamVars>>
     \/ slot[w] = "failing_video" /\ (Nak(w) \/ Ack(w)) /\ UNCHANGED abandoned
  /\ UNCHANGED <<jobVars, lost, faults>>

(* Worker pods die, with all their slots that are busy.  Start does not    *)
(* wait for its jobs at shutdown, so a rollout ends the same way.          *)
Crash(W) ==
  /\ \A w \in W : slot[w] # "idle"
  /\ Fault
  /\ Leave(W)
  /\ slot' = [w \in Workers |-> IF w \in W THEN "idle" ELSE slot[w]]
  /\ holds' = [w \in Workers |-> IF w \in W THEN 0 ELSE holds[w]]
  /\ UNCHANGED <<jobVars, apiVars, streamVars>>

ProcessStep(w) ==
  \/ ClaimJob(w) \/ ClaimRefused(w) \/ ClaimVideo(w) \/ PhaseFails(w) \/ Complete(w)
  \/ AckDone(w) \/ FailJob(w) \/ FailVideo(w)

Next ==
  \/ \E t \in Triggers : TriggerCreate(t) \/ TriggerRead(t) \/ TriggerRetry(t) \/ TriggerAbort(t)
  \/ Relay \/ GiveUp \/ RelayAgain
  \/ \E m \in Msgs : AckWaitExpires(m) \/ \E w \in Workers : Deliver(w, m)
  \/ \E w \in Workers : \/ ProcessStep(w) \/ StartError(w) \/ CompleteUnknown(w)
                        \/ FailError(w)
  \/ \E W \in (SUBSET Workers) \ {{}} : Crash(W)

Spec == Init /\ [][Next]_vars

(* The relay stores an event or gives it up, the stream delivers what it   *)
(* may, and every statement of a running Process ends, be it with an       *)
(* error.  Nothing makes a client trigger.                                 *)
Fairness ==
  /\ WF_vars(Relay \/ GiveUp)
  /\ \A w \in Workers : /\ WF_vars(ProcessStep(w) \/ StartError(w) \/ FailError(w))
                         /\ WF_vars(\E m \in Msgs : Deliver(w, m))
  /\ \A m \in Msgs : WF_vars(AckWaitExpires(m))

FairSpec == Spec /\ Fairness
-----------------------------------------------------------------------------
\* The slot works on the job on the strength of its claim.
Owner(w) == slot[w] \in {"claimed", "working", "failing"}

\* At most one worker processes the job, over redeliveries, duplicates, crashes
\* and retries by the client.
OneOwner == \A v, w \in Workers : Owner(v) /\ Owner(w) => v = w

\* While it does, the job stays in processing; only a completion whose commit
\* was reported as failed leaves the owner with a completed job.
OwnerIsProcessing ==
  \A w \in Workers : Owner(w) =>
    \/ job = "processing"
    \/ job = "completed" /\ slot[w] = "failing" /\ unknown > 0

\* The account is charged once for the video, unless a commit was applied
\* without the worker learning of it.
BilledOnce == billed <= 1 + unknown

\* A video is ready only with its job completed, with the same exception.
ReadyIsCompleted == video = "ready" => job = "completed" \/ unknown > 0

\* A message whose every delivery ended before its claim was tried.
Exhausted(m) == lost[m] >= MaxDeliver

\* A job that waits is waited for: an event is owed, a message can still be
\* delivered, or a slot has received one.  TriggerJob does nothing for a queued job
\* and could never bring it back.  Two things do strand it, and nothing else does: the
\* relay gave an event up, or a message was lost in all of its deliveries before a
\* claim, as every message is when the claim's statement always errs.
QueuedIsReachable ==
  job = "queued" =>
    \/ owed > 0
    \/ \E m \in Msgs : msg[m] \in {"ready", "out"} /\ deliveries[m] < MaxDeliver
    \/ \E w \in Workers : slot[w] = "received"
    \/ givenUp \/ \E m \in Msgs : Exhausted(m)

\* A completed job is final, with the same exception.
CompletedIsFinal == [][job = "completed" /\ job' # job => unknown > 0]_vars

\* Every queued job is claimed, unless it is stranded in one of these two ways; and
\* it ends as completed or failed, unless the worker that claimed it died or met an
\* error in a statement of the claim or of failJob.
QueuedSettles ==
  LET stranded == givenUp \/ \E m \in Msgs : Exhausted(m) IN
  /\ job = "queued" ~> job # "queued" \/ stranded
  /\ job = "queued" ~> job \in {"completed", "failed"} \/ stranded \/ abandoned

\* transcode.go:44 and handler.go:67: the job is created "idempotently to prevent
\* race conditions" and claimed atomically "to ensure exclusivity".
Exclusive == OneOwner

\* The inductive invariant behind OneOwner, BilledOnce and ReadyIsCompleted when
\* requests for the video do not overlap.
IInv ==
  /\ TypeOK
  /\ OneOwner
  /\ OwnerIsProcessing
  /\ ReadyIsCompleted
  /\ BilledOnce
  /\ \A t \in Triggers : request[t] = "retry" => job = "failed"
  /\ job # "completed" => billed <= unknown
  /\ \A w \in Workers : slot[w] = "failing" => billed <= unknown

(* The slots that have received a message and not acted on it.             *)
Receivers(m) == {w \in Workers : slot[w] = "received" /\ holds[w] = m}

(* A message that no slot has acted on, and that was delivered no more     *)
(* often than it was lost before a claim and is received now.              *)
Carrier(m) ==
  /\ msg[m] \in {"ready", "out"}
  /\ \A w \in Workers : holds[w] = m => slot[w] = "received"
  /\ deliveries[m] <= lost[m] + Cardinality(Receivers(m))

(* The books of the stream: no message is known before it is stored.       *)
StreamIsSound ==
  /\ \A m \in Msgs : m > sent => msg[m] = "absent" /\ deliveries[m] = 0
  /\ \A w \in Workers : holds[w] <= sent /\ (slot[w] = "idle" <=> holds[w] = 0)

\* The inductive invariant behind QueuedIsReachable, for requests that overlap as well:
\* whatever becomes of the job, a queued one has an event or a carrier, or its event
\* was given up.
CarriedIInv ==
  /\ TypeOK
  /\ StreamIsSound
  /\ job = "queued" => owed > 0 \/ givenUp \/ \E m \in Msgs : Carrier(m)

(* The slots that may still charge the account, and the requests that are  *)
(* to restart the job.                                                     *)
Chargers == {w \in Workers : slot[w] \in {"claimed", "working"}}
Retriers == {t \in Triggers : request[t] = "retry"}

\* However requests overlap, each start of the job lets one worker at most charge the
\* account: the charges, and the slots that may still make one, are no more than the
\* starts.
ChargedPerStart == Cardinality(Chargers) + billed <= 1 + attempt

\* TriggerJob's limit is overshot by the requests that read the attempts before it
\* was reached, one fewer than may run at once.
RetriesAreLimited == attempt > 0 => attempt < MaxRetries + Cardinality(Triggers)

\* The inductive invariant behind both: a start that no worker has claimed is the
\* queued job, and a request that is to restart the job read it below the limit.
StartsIInv ==
  /\ TypeOK
  /\ IsFiniteSet(Chargers)
  /\ Cardinality(Chargers) + billed + (IF job = "queued" THEN 1 ELSE 0)
       <= attempt + (IF job = "none" THEN 0 ELSE 1)
  /\ attempt > 0 \/ Retriers # {} =>
       Cardinality(Retriers) + attempt < MaxRetries + Cardinality(Triggers)
=============================================================================
