------------------------------- MODULE Outbox -------------------------------
(***************************************************************************)
(* The transactional outbox: src/server/shared/outbox/outbox.go.           *)
(*                                                                         *)
(* InsertEvent writes a row of outbox_events in the caller's transaction.  *)
(* Every API pod runs a Relay whose processOutbox claims a batch of rows   *)
(* with a one-minute lease and a fresh claim token, publishes the batch to *)
(* JetStream, and records the outcomes in statements fenced by the token.  *)
(*                                                                         *)
(* Each SQL statement is one step.  Time is kept only as far as the        *)
(* statements look at it: whether claimed_until and next_attempt_at lie in *)
(* the future.  A claim token (gen_random_uuid()) is named by the relay    *)
(* that drew it: a relay handles one batch at a time and keeps no token of *)
(* an earlier one, so this tells apart exactly the tokens a relay can      *)
(* compare.                                                                *)
(*                                                                         *)
(* The statement that marks a batch published may err at any time and any  *)
(* number of times.  On the migrations of this repository it always does:  *)
(* it compares the uuid of a row with a text.                              *)
(***************************************************************************)
EXTENDS Naturals, FiniteSets

CONSTANTS Relays,        \* the API pods, each with its relay
          NumEvents,     \* events are numbered by created_at
          MaxAttempts,   \* NewRelay: maxAttempts
          BatchSize,     \* NewRelay: batchSize
          Concurrency,   \* NewRelay: publishConcurrency
          MaxFaults,     \* bound on crashes, lost claims, failures not recorded and
                         \* overrun leases
          NoToken        \* claim_token IS NULL

ASSUME OutboxAssumption ==
  /\ NumEvents \in Nat
  /\ MaxAttempts \in Nat \ {0}
  /\ BatchSize \in Nat \ {0}
  /\ Concurrency \in Nat \ {0}
  /\ MaxFaults \in Nat
  /\ NoToken \notin Relays

Events == 1..NumEvents

VARIABLES
  status,     \* row: status, "absent" before the insert commits
  attempts,   \* row: attempts
  lease,      \* row: claimed_until is "none" (NULL), "live" or "expired"
  backoff,    \* row: next_attempt_at lies in the future
  token,      \* row: claim_token
  pc,         \* relay: "idle", "publishing" or "recording"
  work,       \* relay, event: where the event of its batch stands
  snapshot,   \* relay, event: attempts as RETURNED by the claim
  late,       \* events with a message on the wire whose relay gave it up
  stored,     \* events the stream has stored, once or more often
  faults      \* faults so far

row == <<status, attempts, lease, backoff, token>>
relay == <<pc, work, snapshot>>
stream == <<late, stored>>
vars == <<status, attempts, lease, backoff, token, pc, work, snapshot,
          late, stored, faults>>

Status == {"absent", "pending", "publishing", "failed", "published", "dead_letter"}
Work == {"none", "claimed", "sent", "ok", "err"}
NoWork == [e \in Events |-> "none"]
NoSnapshot == [e \in Events |-> 0]

TypeOK ==
  /\ status \in [Events -> Status]
  /\ attempts \in [Events -> 0..MaxAttempts]
  /\ lease \in [Events -> {"none", "live", "expired"}]
  /\ backoff \in [Events -> BOOLEAN]
  /\ token \in [Events -> Relays \cup {NoToken}]
  /\ pc \in [Relays -> {"idle", "publishing", "recording"}]
  /\ work \in [Relays -> [Events -> Work]]
  /\ snapshot \in [Relays -> [Events -> 0..MaxAttempts]]
  /\ late \in SUBSET Events
  /\ stored \in SUBSET Events
  /\ faults \in 0..MaxFaults

Init ==
  /\ status = [e \in Events |-> "absent"]
  /\ attempts = [e \in Events |-> 0]
  /\ lease = [e \in Events |-> "none"]
  /\ backoff = [e \in Events |-> FALSE]
  /\ token = [e \in Events |-> NoToken]
  /\ pc = [r \in Relays |-> "idle"]
  /\ work = [r \in Relays |-> NoWork]
  /\ snapshot = [r \in Relays |-> NoSnapshot]
  /\ late = {}
  /\ stored = {}
  /\ faults = 0

Fault == faults < MaxFaults /\ faults' = faults + 1
-----------------------------------------------------------------------------
(* The caller of InsertEvent commits.  created_at is fixed when its        *)
(* transaction starts, so rows become visible in any order.                *)
InsertEvent(e) ==
  /\ status[e] = "absent"
  /\ status' = [status EXCEPT ![e] = "pending"]
  /\ UNCHANGED <<attempts, lease, backoff, token, relay, stream, faults>>

\* Mutant: rows left in publishing by a relay that died are not looked for.
ClaimableNoReclaim(e) ==
  /\ status[e] \in {"pending", "failed"} /\ lease[e] # "live"
  /\ ~backoff[e]
  /\ attempts[e] < MaxAttempts

(* The WHERE clause of the claim. *)
Claimable(e) ==
  /\ \/ status[e] \in {"pending", "failed"} /\ lease[e] # "live"
     \/ status[e] = "publishing" /\ lease[e] = "expired"
  /\ ~backoff[e]
  /\ attempts[e] < MaxAttempts

(* Rows an outcome statement of another relay may hold locked meanwhile.   *)
Lockable(r) == {e \in Events : \E q \in Relays \ {r} : work[q][e] \in {"ok", "err"}}

(* ORDER BY created_at ... SKIP LOCKED LIMIT BatchSize *)
Oldest(S) == {e \in S : Cardinality({d \in S : d < e}) < BatchSize}

Batches(r) ==
  {Oldest({e \in Events : Claimable(e)} \ locked) : locked \in SUBSET Lockable(r)} \ {{}}

(* SET claimed_until, status, claim_token *)
ClaimRows(r, batch) ==
  /\ status' = [e \in Events |-> IF e \in batch THEN "publishing" ELSE status[e]]
  /\ lease' = [e \in Events |-> IF e \in batch THEN "live" ELSE lease[e]]
  /\ token' = [e \in Events |-> IF e \in batch THEN r ELSE token[e]]
  /\ UNCHANGED <<attempts, backoff, stream>>

Claim(r) ==
  /\ pc[r] = "idle"
  /\ \E batch \in Batches(r) :
       /\ ClaimRows(r, batch)
       /\ pc' = [pc EXCEPT ![r] = "publishing"]
       /\ work' = [work EXCEPT ![r] =
                     [e \in Events |-> IF e \in batch THEN "claimed" ELSE "none"]]
       /\ snapshot' = [snapshot EXCEPT ![r] =
                     [e \in Events |-> IF e \in batch THEN attempts[e] ELSE 0]]
  /\ UNCHANGED faults

(* The claim commits but its result is lost (Query or Scan error): the     *)
(* relay returns and nobody works on the rows.                             *)
ClaimLost(r) ==
  /\ pc[r] = "idle"
  /\ \E batch \in Batches(r) : ClaimRows(r, batch)
  /\ Fault
  /\ UNCHANGED relay
-----------------------------------------------------------------------------
SetWork(r, e, w) == work' = [work EXCEPT ![r][e] = w]

(* A publishing goroutine gets its slot of the semaphore and calls PublishAsync. *)
Publish(r, e) ==
  /\ pc[r] = "publishing" /\ work[r][e] = "claimed"
  /\ Cardinality({d \in Events : work[r][d] = "sent"}) < Concurrency
  /\ SetWork(r, e, "sent")
  /\ UNCHANGED <<row, pc, snapshot, stream, faults>>

(* The stream stores the message and its acknowledgement arrives in time. *)
PublishOk(r, e) ==
  /\ pc[r] = "publishing" /\ work[r][e] = "sent"
  /\ SetWork(r, e, "ok")
  /\ stored' = stored \cup {e}
  /\ UNCHANGED <<row, pc, snapshot, late, faults>>

(* PublishAsync or the future reports an error: nothing was stored. *)
PublishErr(r, e) ==
  /\ pc[r] = "publishing" /\ work[r][e] \in {"claimed", "sent"}
  /\ SetWork(r, e, "err")
  /\ UNCHANGED <<row, pc, snapshot, stream, faults>>

(* pubCtx expires.  The message, or only its acknowledgement, is still out. *)
PublishTimeout(r, e) ==
  /\ pc[r] = "publishing" /\ work[r][e] = "sent"
  /\ SetWork(r, e, "err")
  /\ late' = late \cup {e}
  /\ UNCHANGED <<row, pc, snapshot, stored, faults>>

LateStore(e) ==
  /\ e \in late
  /\ stored' = stored \cup {e}
  /\ late' = late \ {e}
  /\ UNCHANGED <<row, relay, faults>>

LateLoss(e) ==
  /\ e \in late
  /\ late' = late \ {e}
  /\ UNCHANGED <<row, relay, stored, faults>>
-----------------------------------------------------------------------------
(* wg.Wait() has returned: every publish of the batch has its outcome. *)
BatchDone(r) == pc[r] = "publishing" /\ \A e \in Events : work[r][e] \notin {"claimed", "sent"}

OkEvents(r) == {e \in Events : work[r][e] = "ok"}

\* Mutant: outcomes are recorded by id alone.
NoFence(r, e) == TRUE

(* The fence: WHERE t.id = u.id AND t.claim_token = u.token *)
Owns(r, e) == token[e] = r

LeavePublishing(r) ==
  /\ pc' = [pc EXCEPT ![r] = "recording"]
  /\ work' = [work EXCEPT ![r] =
                [e \in Events |-> IF work[r][e] = "ok" THEN "none" ELSE work[r][e]]]
  /\ UNCHANGED <<snapshot, stream>>

MarkPublished(r) ==
  /\ BatchDone(r)
  /\ LET marked == {e \in OkEvents(r) : Owns(r, e)} IN
     /\ status' = [e \in Events |-> IF e \in marked THEN "published" ELSE status[e]]
     /\ token' = [e \in Events |-> IF e \in marked THEN NoToken ELSE token[e]]
  /\ LeavePublishing(r)
  /\ UNCHANGED <<attempts, lease, backoff, faults>>

(* The bulk update fails and is only logged; the failures are still recorded. *)
MarkPublishedError(r) ==
  /\ BatchDone(r) /\ OkEvents(r) # {}
  /\ LeavePublishing(r)
  /\ UNCHANGED <<row, faults>>

\* Mutant: one attempt too many before the dead letter.
FailedStatusLate(n) == IF n > MaxAttempts THEN "dead_letter" ELSE "failed"

FailedStatus(n) == IF n >= MaxAttempts THEN "dead_letter" ELSE "failed"

MarkFailed(r, e) ==
  /\ pc[r] = "recording" /\ work[r][e] = "err"
  /\ IF Owns(r, e)
     THEN LET newAttempts == snapshot[r][e] + 1 IN
          /\ attempts' = [attempts EXCEPT ![e] = newAttempts]
          /\ status' = [status EXCEPT ![e] = FailedStatus(newAttempts)]
          /\ backoff' = [backoff EXCEPT ![e] = TRUE]
          /\ token' = [token EXCEPT ![e] = NoToken]
     ELSE UNCHANGED <<attempts, status, backoff, token>>
  /\ SetWork(r, e, "none")
  /\ UNCHANGED <<lease, pc, snapshot, stream, faults>>

MarkFailedError(r, e) ==
  /\ pc[r] = "recording" /\ work[r][e] = "err"
  /\ Fault
  /\ SetWork(r, e, "none")
  /\ UNCHANGED <<row, pc, snapshot, stream>>

(* processOutbox returns and Start waits for the next tick. *)
Finish(r) ==
  /\ pc[r] = "recording" /\ work[r] = NoWork
  /\ pc' = [pc EXCEPT ![r] = "idle"]
  /\ snapshot' = [snapshot EXCEPT ![r] = NoSnapshot]
  /\ UNCHANGED <<row, work, stream, faults>>
-----------------------------------------------------------------------------
(* The process of a relay dies; what it had sent is still on the wire.  A  *)
(* shutdown (ctx cancelled) is no different: the publishes time out and    *)
(* every outcome statement fails.                                          *)
Crash(r) ==
  /\ pc[r] # "idle"
  /\ Fault
  /\ pc' = [pc EXCEPT ![r] = "idle"]
  /\ work' = [work EXCEPT ![r] = NoWork]
  /\ snapshot' = [snapshot EXCEPT ![r] = NoSnapshot]
  /\ late' = late \cup {e \in Events : work[r][e] = "sent"}
  /\ UNCHANGED <<row, stored>>

Held(e) == \E r \in Relays : Owns(r, e) /\ work[r][e] # "none"

(* The minute of a claim passes; under its holder only as a fault. *)
LeaseExpires(e) ==
  /\ lease[e] = "live" /\ ~Held(e)
  /\ lease' = [lease EXCEPT ![e] = "expired"]
  /\ UNCHANGED <<status, attempts, backoff, token, relay, stream, faults>>

LeaseOverrun(e) ==
  /\ lease[e] = "live" /\ Held(e)
  /\ Fault
  /\ lease' = [lease EXCEPT ![e] = "expired"]
  /\ UNCHANGED <<status, attempts, backoff, token, relay, stream>>

(* next_attempt_at passes. *)
BackoffElapses(e) ==
  /\ backoff[e]
  /\ backoff' = [backoff EXCEPT ![e] = FALSE]
  /\ UNCHANGED <<status, attempts, lease, token, relay, stream, faults>>

PublishEnds(r, e) == PublishOk(r, e) \/ PublishErr(r, e) \/ PublishTimeout(r, e)

Next ==
  \/ \E e \in Events : \/ InsertEvent(e) \/ LateStore(e) \/ LateLoss(e)
                       \/ LeaseExpires(e) \/ LeaseOverrun(e) \/ BackoffElapses(e)
  \/ \E r \in Relays : \/ Claim(r) \/ ClaimLost(r) \/ MarkPublished(r)
                       \/ MarkPublishedError(r) \/ Finish(r) \/ Crash(r)
  \/ \E r \in Relays, e \in Events : \/ Publish(r, e) \/ PublishEnds(r, e)
                                     \/ MarkFailed(r, e) \/ MarkFailedError(r, e)

Spec == Init /\ [][Next]_vars

(* The relay's loop keeps running, a publish is acknowledged, refused or   *)
(* timed out, and time passes.  Nothing makes the stream store a message,  *)
(* the bulk update succeed or a caller insert an event.                    *)
Fairness ==
  /\ \A r \in Relays : /\ WF_vars(Claim(r)) /\ WF_vars(MarkPublished(r) \/ MarkPublishedError(r))
                       /\ WF_vars(Finish(r))
  /\ \A r \in Relays, e \in Events : /\ WF_vars(Publish(r, e)) /\ WF_vars(PublishEnds(r, e))
                                     /\ WF_vars(MarkFailed(r, e))
  /\ \A e \in Events : WF_vars(LeaseExpires(e)) /\ WF_vars(BackoffElapses(e))

FairSpec == Spec /\ Fairness
-----------------------------------------------------------------------------
Settled == {"published", "dead_letter"}

\* A row says published only if the stream stored the event, whatever timed
\* out, crashed or was recorded by a relay that had lost its claim.
PublishedIsStored == \A e \in Events : status[e] = "published" => e \in stored

\* The attempt counter and the status agree: an event is given up exactly when
\* its attempts are used up.  A failed row with no attempts left would match no
\* claim again and be lost without a dead letter.
DeadLetterExactlyAtLimit ==
  \A e \in Events : attempts[e] = MaxAttempts <=> status[e] = "dead_letter"

\* An unsettled row is never out of reach of the claim for good: it waits for
\* a lease or a backoff that will pass.  A publishing row without a lease would
\* be invisible to every later claim.
UnsettledIsRecoverable ==
  \A e \in Events : status[e] = "publishing" => lease[e] # "none" /\ token[e] # NoToken

\* The relay whose token is on the row works from the row's current attempts:
\* nobody recorded an outcome between its claim and its own outcome.
HolderIsCurrent ==
  \A r \in Relays, e \in Events :
    token[e] = r /\ work[r][e] # "none" =>
      status[e] = "publishing" /\ snapshot[r][e] = attempts[e]

\* The inductive invariant: the fence makes the holder's knowledge current, an
\* ok outcome stands for a stored copy, and a relay at rest holds nothing.
IInv ==
  /\ TypeOK
  /\ PublishedIsStored
  /\ DeadLetterExactlyAtLimit
  /\ UnsettledIsRecoverable
  /\ HolderIsCurrent
  /\ \A r \in Relays, e \in Events : work[r][e] = "ok" => e \in stored
  /\ \A r \in Relays : pc[r] = "idle" => work[r] = NoWork
  /\ \A r \in Relays, e \in Events :
       work[r][e] \in {"claimed", "sent"} => pc[r] = "publishing"
  /\ \A e \in Events : status[e] = "absent" =>
       e \notin stored /\ e \notin late /\ \A r \in Relays : work[r][e] = "none"

\* A recorded outcome is final, also against a relay whose lease ran out
\* before it recorded its own.
OutcomeIsFinal ==
  [][\A e \in Events : status[e] \in Settled => status'[e] = status[e]]_vars

\* The relays cannot reach the event: older ones that wait fill their batch.
Crowded(e) ==
  Cardinality({d \in Events : d < e /\ status[d] \in {"pending", "publishing", "failed"}})
    >= BatchSize

\* Every recorded event eventually reaches the stream or becomes a dead letter,
\* whatever bounded number of crashes, lost claims and overrun leases occurs, but
\* for an event that stays crowded out: a row whose publish is not recorded is
\* reclaimed with each lease, ahead of every newer one.  If the bulk update at last
\* stops failing, every row is settled.
EventuallyDelivered ==
  /\ \A e \in Events :
       []<>(status[e] \in {"absent", "dead_letter"} \/ e \in stored \/ Crowded(e))
  /\ <>[][\A r \in Relays : ~MarkPublishedError(r)]_vars =>
       \A e \in Events : []<>(status[e] \in Settled \cup {"absent"})

-----------------------------------------------------------------------------
(* The outbox implements EventDelivery. *)
Fate == [e \in Events |-> IF status[e] \in {"pending", "publishing", "failed"}
                          THEN "owed" ELSE status[e]]

Delivery == INSTANCE EventDelivery WITH fate <- Fate, failures <- attempts

\* Every step of the relays is a step of EventDelivery, or changes nothing of
\* what it speaks about.
ImplementsEventDelivery == Delivery!EDSpec
=============================================================================
