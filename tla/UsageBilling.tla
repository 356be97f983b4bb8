---------------------------- MODULE UsageBilling ----------------------------
(***************************************************************************)
(* From a usage event on the billing stream to a meter event at Stripe:    *)
(*   - ConsumeUsageEvents / getAccountCached / ReportUsage and the Stripe  *)
(*     relay of every worker pod                                           *)
(*     (src/server/worker/internal/billing/consumer.go),                   *)
(*   - their statements (.../billing/postgres/repository.go),              *)
(*   - the durable consumer billing_usage_worker (nats-init/main.go).      *)
(*                                                                         *)
(* All events belong to one account, which gets its Stripe customer at     *)
(* some time.  An event may be on the stream more than once, as the outbox *)
(* promises no more.  Statements, leases, backoffs and claim tokens are    *)
(* kept as in Outbox.  Stripe is external: it ignores a request whose      *)
(* idempotency key it has seen.                                            *)
(*                                                                         *)
(* Reading the account and recording the usage may err at any time and any *)
(* number of times.  On the migrations of this repository recording always *)
(* does: their unique indexes are partial, and ON CONFLICT finds none.     *)
(***************************************************************************)
EXTENDS Naturals, FiniteSets

CONSTANTS Pods,          \* the worker pods
          NumEvents,     \* usage events, numbered by created_at of their Stripe row
          NumCopies,     \* bound on the messages the stream holds of one event
          MaxDeliver,    \* consumer: MaxDeliver (5)
          MaxAttempts,   \* StartStripeRelay: maxAttempts
          BatchSize,     \* StartStripeRelay: batchSize
          Concurrency,   \* processStripeOutbox: concurrency
          MaxFaults,     \* bound on crashes, lost commits and failed statements of
                         \* the relay
          NoToken        \* claim_token IS NULL

ASSUME BillingAssumption ==
  /\ NumEvents \in Nat
  /\ NumCopies \in Nat
  /\ MaxDeliver \in Nat \ {0}
  /\ MaxAttempts \in Nat \ {0}
  /\ BatchSize \in Nat \ {0}
  /\ Concurrency \in Nat \ {0}
  /\ MaxFaults \in Nat
  /\ NoToken \notin Pods

Events == 1..NumEvents
Msgs == Events \X (1..NumCopies)
EventOf(m) == m[1]

VARIABLES
  customer,    \* accounts.stripe_customer_id IS NOT NULL
  cache,       \* pod: the cached account, "none", "without" or "with" customer
  msg,         \* message: "absent", "ready", "out" (delivered) or "done"
  deliveries,  \* message: how often it was delivered
  task,        \* pod, message: where its goroutine stands
  failed,      \* history of a message: deliveries that ended in an error or
               \* with their pod
  usage,       \* events with a row in usage_events
  status,      \* stripe_outbox row: status, "absent" before the insert commits
  attempts,    \* stripe_outbox row: attempts
  lease,       \* stripe_outbox row: claimed_until is "none", "live" or "expired"
  backoff,     \* stripe_outbox row: next_attempt_at lies in the future
  token,       \* stripe_outbox row: claim_token
  work,        \* pod, event: where the event of the relay's batch stands
  snapshot,    \* pod, event: attempts as RETURNED by the claim
  late,        \* <<key, event>>: requests given up by their pod but still out
  metered,     \* <<key, event>>: requests Stripe has carried out
  faults       \* faults so far

account == <<customer, cache>>
consumer == <<msg, deliveries, task, failed>>
row == <<status, attempts, lease, backoff, token>>
relay == <<work, snapshot>>
stripe == <<late, metered>>
vars == <<customer, cache, msg, deliveries, task, failed, usage, status, attempts, lease,
          backoff, token, work, snapshot, late, metered, faults>>

View == {"without", "with"}
Work == {"none", "claimed", "sent", "err", "ok"}
NoTask == [m \in Msgs |-> "none"]
NoWork == [e \in Events |-> "none"]
NoSnapshot == [e \in Events |-> 0]

TypeOK ==
  /\ customer \in BOOLEAN
  /\ cache \in [Pods -> View \cup {"none"}]
  /\ msg \in [Msgs -> {"absent", "ready", "out", "done"}]
  /\ deliveries \in [Msgs -> 0..MaxDeliver]
  /\ task \in [Pods -> [Msgs -> View \cup {"none", "fetched", "recorded"}]]
  /\ failed \in [Msgs -> Nat]
  /\ usage \in SUBSET Events
  /\ status \in [Events -> {"absent", "pending", "publishing", "failed", "published",
                            "dead_letter"}]
  /\ attempts \in [Events -> 0..MaxAttempts]
  /\ lease \in [Events -> {"none", "live", "expired"}]
  /\ backoff \in [Events -> BOOLEAN]
  /\ token \in [Events -> Pods \cup {NoToken}]
  /\ work \in [Pods -> [Events -> Work]]
  /\ snapshot \in [Pods -> [Events -> 0..MaxAttempts]]
  /\ late \in SUBSET ((Events \cup Pods) \X Events)
  /\ metered \in SUBSET ((Events \cup Pods) \X Events)
  /\ faults \in 0..MaxFaults

Init ==
  /\ customer = FALSE
  /\ cache = [p \in Pods |-> "none"]
  /\ msg = [m \in Msgs |-> "absent"]
  /\ deliveries = [m \in Msgs |-> 0]
  /\ task = [p \in Pods |-> NoTask]
  /\ failed = [m \in Msgs |-> 0]
  /\ usage = {}
  /\ status = [e \in Events |-> "absent"]
  /\ attempts = [e \in Events |-> 0]
  /\ lease = [e \in Events |-> "none"]
  /\ backoff = [e \in Events |-> FALSE]
  /\ token = [e \in Events |-> NoToken]
  /\ work = [p \in Pods |-> NoWork]
  /\ snapshot = [p \in Pods |-> NoSnapshot]
  /\ late = {} /\ metered = {}
  /\ faults = 0

Fault == faults < MaxFaults /\ faults' = faults + 1
-----------------------------------------------------------------------------
(* UpdateStripeCustomerID: the account's first checkout or portal session. *)
UpdateStripeCustomerID ==
  /\ ~customer
  /\ customer' = TRUE
  /\ UNCHANGED <<cache, consumer, usage, row, relay, stripe, faults>>

(* The five minutes of a cached account pass, or it is evicted. *)
CacheExpires(p) ==
  /\ cache[p] # "none"
  /\ cache' = [cache EXCEPT ![p] = "none"]
  /\ UNCHANGED <<customer, consumer, usage, row, relay, stripe, faults>>

(* The outbox has the stream store the event, or store it again. *)
Arrive(m) ==
  /\ msg[m] = "absent"
  /\ msg' = [msg EXCEPT ![m] = "ready"]
  /\ UNCHANGED <<account, deliveries, task, failed, usage, row, relay, stripe, faults>>

(* Fetch returns a batch.  The pod fetches again only after wg.Wait(). *)
Fetch(p, batch) ==
  /\ task[p] = NoTask /\ batch # {}
  /\ \A m \in batch : msg[m] = "ready" /\ deliveries[m] < MaxDeliver
  /\ msg' = [m \in Msgs |-> IF m \in batch THEN "out" ELSE msg[m]]
  /\ deliveries' = [m \in Msgs |-> IF m \in batch THEN deliveries[m] + 1 ELSE deliveries[m]]
  /\ task' = [task EXCEPT ![p] = [m \in Msgs |-> IF m \in batch THEN "fetched" ELSE "none"]]
  /\ UNCHANGED <<account, failed, usage, row, relay, stripe, faults>>

(* AckWait (30 seconds) passes while the message is being handled, or after *)
(* its pod died.                                                            *)
AckWaitExpires(m) ==
  /\ msg[m] = "out"
  /\ msg' = [msg EXCEPT ![m] = "ready"]
  /\ UNCHANGED <<account, deliveries, task, failed, usage, row, relay, stripe, faults>>

SetTask(p, m, t) == task' = [task EXCEPT ![p][m] = t]

\* Mutant: a failure terminates the message.
NakTerm(p, m) ==
  /\ msg' = [msg EXCEPT ![m] = IF @ = "out" THEN "done" ELSE @]
  /\ SetTask(p, m, "none")
  /\ failed' = [failed EXCEPT ![m] = @ + 1]
  /\ UNCHANGED deliveries

(* m.Nak(), without delay *)
Nak(p, m) ==
  /\ msg' = [msg EXCEPT ![m] = IF @ = "out" THEN "ready" ELSE @]
  /\ SetTask(p, m, "none")
  /\ failed' = [failed EXCEPT ![m] = @ + 1]
  /\ UNCHANGED deliveries

(* getAccountCached: from the cache, else from the database into the cache. *)
GetAccountCached(p, m) ==
  /\ task[p][m] = "fetched"
  /\ LET acc == IF cache[p] # "none" THEN cache[p]
                     ELSE IF customer THEN "with" ELSE "without" IN
     /\ cache' = [cache EXCEPT ![p] = acc]
     /\ SetTask(p, m, acc)
  /\ UNCHANGED <<customer, msg, deliveries, failed, usage, row, relay, stripe, faults>>

(* The account cannot be read, or nothing of ReportUsage is committed. *)
ReportUsageError(p, m) ==
  /\ \/ task[p][m] = "fetched" /\ cache[p] = "none"
     \/ task[p][m] \in View
  /\ Nak(p, m)
  /\ UNCHANGED <<account, usage, row, relay, stripe, faults>>

\* Mutant: a row written again starts over.
RecordRowsAnew(p, m) ==
  /\ usage' = usage \cup {EventOf(m)}
  /\ status' = IF task[p][m] = "with"
               THEN [status EXCEPT ![EventOf(m)] = "pending"] ELSE status

(* RecordUsageAndStripeEvent: both inserts are ON CONFLICT DO NOTHING. *)
RecordRows(p, m) ==
  /\ usage' = usage \cup {EventOf(m)}
  /\ status' = IF task[p][m] = "with" /\ status[EventOf(m)] = "absent"
               THEN [status EXCEPT ![EventOf(m)] = "pending"] ELSE status

ReportUsage(p, m) ==
  /\ task[p][m] \in View
  /\ RecordRows(p, m)
  /\ SetTask(p, m, "recorded")
  /\ UNCHANGED <<account, msg, deliveries, failed, attempts, lease, backoff, token, relay,
                 stripe, faults>>

(* The commit is applied, but its answer is lost. *)
ReportUsageUnknown(p, m) ==
  /\ task[p][m] \in View
  /\ RecordRows(p, m)
  /\ Fault
  /\ Nak(p, m)
  /\ UNCHANGED <<account, attempts, lease, backoff, token, relay, stripe>>

Ack(p, m) ==
  /\ task[p][m] = "recorded"
  /\ msg' = [msg EXCEPT ![m] = "done"]
  /\ SetTask(p, m, "none")
  /\ UNCHANGED <<account, deliveries, failed, usage, row, relay, stripe, faults>>
-----------------------------------------------------------------------------
\* Mutant: rows left in publishing by a pod that died are not looked for.
ClaimableNoReclaim(e) ==
  /\ status[e] \in {"pending", "failed"} /\ ~backoff[e]
  /\ attempts[e] < MaxAttempts

(* The WHERE clause of ClaimStripeOutboxEvents. *)
Claimable(e) ==
  /\ \/ status[e] \in {"pending", "failed"} /\ ~backoff[e]
     \/ status[e] = "publishing" /\ lease[e] = "expired"
  /\ attempts[e] < MaxAttempts

(* Rows an outcome statement of another pod may hold locked meanwhile. *)
Lockable(p) == {e \in Events : \E q \in Pods \ {p} : work[q][e] \in {"ok", "err"}}

(* ORDER BY created_at ... SKIP LOCKED LIMIT BatchSize *)
Oldest(S) == {e \in S : Cardinality({d \in S : d < e}) < BatchSize}

Batches(p) ==
  {Oldest({e \in Events : Claimable(e)} \ locked) : locked \in SUBSET Lockable(p)} \ {{}}

ClaimRows(p, batch) ==
  /\ status' = [e \in Events |-> IF e \in batch THEN "publishing" ELSE status[e]]
  /\ lease' = [e \in Events |-> IF e \in batch THEN "live" ELSE lease[e]]
  /\ token' = [e \in Events |-> IF e \in batch THEN p ELSE token[e]]
  /\ attempts' = attempts
  /\ UNCHANGED <<account, consumer, usage, backoff, stripe>>

Claim(p) ==
  /\ work[p] = NoWork
  /\ \E batch \in Batches(p) :
       /\ ClaimRows(p, batch)
       /\ work' = [work EXCEPT ![p] =
                     [e \in Events |-> IF e \in batch THEN "claimed" ELSE "none"]]
       /\ snapshot' = [snapshot EXCEPT ![p] =
                     [e \in Events |-> IF e \in batch THEN attempts'[e] ELSE 0]]
  /\ UNCHANGED faults

(* The claim commits but its result is lost. *)
ClaimLost(p) ==
  /\ work[p] = NoWork
  /\ \E batch \in Batches(p) : ClaimRows(p, batch)
  /\ Fault
  /\ UNCHANGED relay

SetWork(p, e, w) == work' = [work EXCEPT ![p][e] = w]

(* A goroutine calls meterevent.New; it keeps its slot until it returns. *)
Send(p, e) ==
  /\ work[p][e] = "claimed"
  /\ Cardinality({d \in Events : work[p][d] \in {"sent", "err"}}) < Concurrency
  /\ SetWork(p, e, "sent")
  /\ UNCHANGED <<account, consumer, usage, row, snapshot, stripe, faults>>

\* Mutant: the key is drawn by the claim, so a retry is a new request.
IdempotencyKeyOfClaim(p, e) == p

(* The idempotency key is the id of the usage event. *)
IdempotencyKey(p, e) == e

Request(p, e) == <<IdempotencyKey(p, e), e>>

SendOk(p, e) ==
  /\ work[p][e] = "sent"
  /\ metered' = metered \cup {Request(p, e)}
  /\ SetWork(p, e, "ok")
  /\ UNCHANGED <<account, consumer, usage, row, snapshot, late, faults>>

(* Stripe refuses the request. *)
SendErr(p, e) ==
  /\ work[p][e] = "sent"
  /\ SetWork(p, e, "err")
  /\ UNCHANGED <<account, consumer, usage, row, snapshot, stripe, faults>>

(* The call times out (80 seconds, the lease is 30) or its answer is lost. *)
SendTimeout(p, e) ==
  /\ work[p][e] = "sent"
  /\ late' = late \cup {Request(p, e)}
  /\ SetWork(p, e, "err")
  /\ UNCHANGED <<account, consumer, usage, row, snapshot, metered, faults>>

LateMeter(r) ==
  /\ r \in late
  /\ metered' = metered \cup {r}
  /\ late' = late \ {r}
  /\ UNCHANGED <<account, consumer, usage, row, relay, faults>>

LateLoss(r) ==
  /\ r \in late
  /\ late' = late \ {r}
  /\ UNCHANGED <<account, consumer, usage, row, relay, metered, faults>>
-----------------------------------------------------------------------------
\* Mutant: outcomes are recorded by id alone.
NoFence(p, e) == TRUE

(* The fence: WHERE id = $5 AND claim_token = $6 *)
Owns(p, e) == token[e] = p

FailedStatus(n) == IF n >= MaxAttempts THEN "dead_letter" ELSE "failed"

EndWork(p, e) ==
  /\ SetWork(p, e, "none")
  /\ snapshot' = [snapshot EXCEPT ![p][e] = 0]
  /\ UNCHANGED <<account, consumer, usage, stripe>>

(* The goroutine of the failed request records it at once. *)
MarkStripeEventFailed(p, e) ==
  /\ work[p][e] = "err"
  /\ IF Owns(p, e)
     THEN LET newAttempts == snapshot[p][e] + 1 IN
          /\ attempts' = [attempts EXCEPT ![e] = newAttempts]
          /\ status' = [status EXCEPT ![e] = FailedStatus(newAttempts)]
          /\ backoff' = [backoff EXCEPT ![e] = TRUE]
          /\ token' = [token EXCEPT ![e] = NoToken]
     ELSE UNCHANGED <<attempts, status, backoff, token>>
  /\ EndWork(p, e)
  /\ UNCHANGED <<lease, faults>>

MarkStripeEventFailedError(p, e) ==
  /\ work[p][e] = "err"
  /\ Fault
  /\ EndWork(p, e)
  /\ UNCHANGED row

(* wg.Wait() has returned and something was reported. *)
BatchDone(p) == work[p] # NoWork /\ \A e \in Events : work[p][e] \in {"none", "ok"}

PublishedEvents(p) == {e \in Events : work[p][e] = "ok"}

(* processStripeOutbox returns and StartStripeRelay waits for the next tick. *)
Return(p) ==
  /\ work' = [work EXCEPT ![p] = NoWork]
  /\ snapshot' = [snapshot EXCEPT ![p] = NoSnapshot]
  /\ UNCHANGED <<account, consumer, usage, stripe>>

MarkStripeEventsPublished(p) ==
  /\ BatchDone(p)
  /\ LET marked == {e \in PublishedEvents(p) : Owns(p, e)} IN
     /\ status' = [e \in Events |-> IF e \in marked THEN "published" ELSE status[e]]
     /\ token' = [e \in Events |-> IF e \in marked THEN NoToken ELSE token[e]]
  /\ Return(p)
  /\ UNCHANGED <<attempts, lease, backoff, faults>>

MarkStripeEventsPublishedError(p) ==
  /\ BatchDone(p)
  /\ Fault
  /\ Return(p)
  /\ UNCHANGED row
-----------------------------------------------------------------------------
(* The worker pod dies, with its goroutines, its relay and its cache. *)
Crash(p) ==
  /\ task[p] # NoTask \/ work[p] # NoWork
  /\ Fault
  /\ cache' = [cache EXCEPT ![p] = "none"]
  /\ task' = [task EXCEPT ![p] = NoTask]
  /\ failed' = [m \in Msgs |-> IF task[p][m] # "none" THEN failed[m] + 1 ELSE failed[m]]
  /\ work' = [work EXCEPT ![p] = NoWork]
  /\ snapshot' = [snapshot EXCEPT ![p] = NoSnapshot]
  /\ late' = late \cup {Request(p, e) : e \in {d \in Events : work[p][d] = "sent"}}
  /\ UNCHANGED <<customer, msg, deliveries, usage, row, metered>>

Held(e) == \E p \in Pods : Owns(p, e) /\ work[p][e] # "none"

LeasePasses(e) ==
  /\ lease[e] = "live"
  /\ lease' = [lease EXCEPT ![e] = "expired"]
  /\ UNCHANGED <<account, consumer, usage, status, attempts, backoff, token, relay,
                 stripe, faults>>

(* claimed_until passes; under its holder when a call to Stripe is slow.  *)
LeaseExpires(e) == ~Held(e) /\ LeasePasses(e)

LeaseOverrun(e) == Held(e) /\ LeasePasses(e)

(* next_attempt_at passes. *)
BackoffElapses(e) ==
  /\ backoff[e]
  /\ backoff' = [backoff EXCEPT ![e] = FALSE]
  /\ UNCHANGED <<account, consumer, usage, status, attempts, lease, token, relay,
                 stripe, faults>>

SendEnds(p, e) == SendOk(p, e) \/ SendErr(p, e) \/ SendTimeout(p, e)

Next ==
  \/ UpdateStripeCustomerID
  \/ \E m \in Msgs : Arrive(m) \/ AckWaitExpires(m)
  \/ \E p \in Pods : \/ CacheExpires(p) \/ Crash(p)
                     \/ \E batch \in SUBSET Msgs : Fetch(p, batch)
  \/ \E p \in Pods, m \in Msgs : \/ GetAccountCached(p, m) \/ ReportUsage(p, m)
                                 \/ ReportUsageError(p, m) \/ ReportUsageUnknown(p, m)
                                 \/ Ack(p, m)
  \/ \E p \in Pods : \/ Claim(p) \/ ClaimLost(p)
                     \/ MarkStripeEventsPublished(p) \/ MarkStripeEventsPublishedError(p)
  \/ \E p \in Pods, e \in Events : \/ Send(p, e) \/ SendEnds(p, e)
                                   \/ MarkStripeEventFailed(p, e)
                                   \/ MarkStripeEventFailedError(p, e)
  \/ \E r \in late : LateMeter(r) \/ LateLoss(r)
  \/ \E e \in Events : LeaseExpires(e) \/ LeaseOverrun(e) \/ BackoffElapses(e)

Spec == Init /\ [][Next]_vars

(* The loops of the pods keep running, statements and calls end, be it     *)
(* with an error, and time passes.  Nothing makes the database record a    *)
(* usage or Stripe accept a request.                                       *)
Fairness ==
  /\ \A p \in Pods : /\ WF_vars(\E batch \in SUBSET Msgs : Fetch(p, batch))
                     /\ WF_vars(Claim(p)) /\ WF_vars(MarkStripeEventsPublished(p))
  /\ \A p \in Pods, m \in Msgs :
       WF_vars(GetAccountCached(p, m) \/ ReportUsage(p, m) \/ ReportUsageError(p, m) \/ Ack(p, m))
  /\ \A p \in Pods, e \in Events :
       WF_vars(Send(p, e) \/ SendEnds(p, e) \/ MarkStripeEventFailed(p, e))
  /\ \A m \in Msgs : WF_vars(AckWaitExpires(m))
  /\ \A e \in Events : WF_vars(LeaseExpires(e)) /\ WF_vars(BackoffElapses(e))

FairSpec == Spec /\ Fairness
-----------------------------------------------------------------------------
Settled == {"published", "dead_letter"}

\* A usage event is metered once, over duplicate messages, redeliveries, lost
\* answers, requests that arrive after their pod gave them up, and pods that
\* report the same row because a lease ran out.
MeteredOnce == \A r, s \in metered : r[2] = s[2] => r = s

\* The consumer lets go of a message only once its usage is recorded.
AckedIsRecorded == \A m \in Msgs : msg[m] = "done" => EventOf(m) \in usage

\* A row says published only if Stripe has carried out its request.
PublishedIsMetered ==
  \A e \in Events : status[e] = "published" => \E r \in metered : r[2] = e

\* A row is given up exactly when its attempts are used up; a failed row with no
\* attempts left would match no claim again.
DeadLetterExactlyAtLimit ==
  \A e \in Events : attempts[e] = MaxAttempts <=> status[e] = "dead_letter"

\* The pod whose token is on the row works from the row's current attempts.
HolderIsCurrent ==
  \A p \in Pods, e \in Events :
    token[e] = p /\ work[p][e] # "none" =>
      status[e] = "publishing" /\ snapshot[p][e] = attempts[e]

\* What the consumer knows to be recorded is recorded, before the relay sees it.
ConsumerInv ==
  /\ AckedIsRecorded
  /\ \A p \in Pods, m \in Msgs : task[p][m] = "recorded" => EventOf(m) \in usage
  /\ \A e \in Events : status[e] # "absent" => e \in usage

\* The fence as in Outbox; besides, a request is made only for a recorded event
\* and always under the same key.
RelayInv ==
  /\ PublishedIsMetered
  /\ DeadLetterExactlyAtLimit
  /\ HolderIsCurrent
  /\ \A p \in Pods, e \in Events : work[p][e] = "ok" => \E r \in metered : r[2] = e
  /\ \A r \in late \cup metered : r = <<r[2], r[2]>> /\ status[r[2]] # "absent"
  /\ \A e \in Events : status[e] = "absent" => \A p \in Pods : work[p][e] = "none"
  /\ \A e \in Events : status[e] = "publishing" => lease[e] # "none"

\* The inductive invariant.
IInv == TypeOK /\ MeteredOnce /\ ConsumerInv /\ RelayInv

\* A recorded outcome is final: neither another pod nor a duplicate message
\* that meets the row reopens it.
OutcomeIsFinal ==
  [][\A e \in Events : status[e] \in Settled => status'[e] = status[e]]_vars

\* A usage event on the stream is recorded in the end, unless each of the MaxDeliver
\* deliveries of its message failed: those repeated while an earlier one is being
\* handled do not use it up.
UsageIsRecorded ==
  \A m \in Msgs : []<>(msg[m] = "absent" \/ EventOf(m) \in usage \/ failed[m] = MaxDeliver)

\* Every row is eventually published or dead-lettered, unless leases keep running
\* out under their holders: two pods may then take the row from each other for
\* ever, each outcome refused by the fence and no attempt counted.
EventuallySettled ==
  <>[][\A e \in Events : ~LeaseOverrun(e)]_vars =>
    \A e \in Events : []<>(status[e] \in Settled \cup {"absent"})

-----------------------------------------------------------------------------
(* The Stripe outbox implements EventDelivery, with Stripe as the stream.  *)
Fate == [e \in Events |-> IF status[e] \in {"pending", "publishing", "failed"}
                          THEN "owed" ELSE status[e]]

Metered == {r[2] : r \in metered}

Delivery == INSTANCE EventDelivery WITH fate <- Fate, failures <- attempts, stored <- Metered

\* Every step is a step of EventDelivery, or changes nothing of what it speaks about.
ImplementsEventDelivery == Delivery!EDSpec
=============================================================================
