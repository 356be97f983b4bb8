------------------------ MODULE UsageBilling_proofs ------------------------
(***************************************************************************)
(* Proofs about UsageBilling, for every number of pods, events, messages,  *)
(* deliveries, attempts and faults.  The invariant has a part for the      *)
(* consumer and one for the Stripe relay; most actions disturb only one of *)
(* them, and the frame lemmas carry the other.                             *)
(***************************************************************************)
EXTENDS UsageBilling, TLAPS

USE BillingAssumption

\* Requests under the event's own key are metered once.
LEMMA KeyedIsOnce == /\ RelayInv => MeteredOnce
                     /\ RelayInv' => MeteredOnce'
  BY DEF RelayInv, MeteredOnce

\* The relay's part does not speak of the consumer.
LEMMA RelayFrame ==
  ASSUME RelayInv, UNCHANGED <<row, relay, stripe>>
  PROVE  RelayInv'
  BY DEF RelayInv, row, relay, stripe, PublishedIsMetered, DeadLetterExactlyAtLimit, HolderIsCurrent

\* The consumer's part looks at the rows only for their existence.
LEMMA ConsumerFrame ==
  ASSUME ConsumerInv, UNCHANGED <<msg, deliveries, usage>>,
         \/ UNCHANGED task
         \/ \E p \in Pods : task \in [Pods -> [Msgs -> View \cup {"none", "fetched", "recorded"}]]
                            /\ task' = [task EXCEPT ![p] = NoTask],
         \A e \in Events : status[e] = "absent" => status'[e] = "absent"
  PROVE  ConsumerInv'
  BY DEF ConsumerInv, AckedIsRecorded, NoTask

LEMMA InitIInv == Init => IInv
<1> SUFFICES ASSUME Init PROVE IInv
  OBVIOUS
<1>1. TypeOK
  <2>1. NoTask \in [Msgs -> View \cup {"none", "fetched", "recorded"}]
    BY DEF NoTask
  <2>2. task \in [Pods -> [Msgs -> View \cup {"none", "fetched", "recorded"}]]
    BY <2>1 DEF Init
  <2>3. customer \in BOOLEAN /\ cache \in [Pods -> View \cup {"none"}]
    BY DEF Init
  <2>4. /\ work \in [Pods -> [Events -> Work]]
        /\ snapshot \in [Pods -> [Events -> 0..MaxAttempts]]
    BY DEF Init, Work, NoWork, NoSnapshot
  <2>5. backoff \in [Events -> BOOLEAN]
    BY DEF Init
  <2>6. QED
    BY <2>2, <2>3, <2>4, <2>5 DEF Init, TypeOK
<1>2. ConsumerInv
  BY DEF Init, ConsumerInv, AckedIsRecorded, NoTask
<1>3. RelayInv
  BY DEF Init, RelayInv, PublishedIsMetered, DeadLetterExactlyAtLimit, HolderIsCurrent, NoWork
<1>4. QED
  BY <1>1, <1>2, <1>3, KeyedIsOnce DEF IInv
-----------------------------------------------------------------------------
(* The account and the consumer. *)

LEMMA AccountStep ==
  ASSUME IInv, UpdateStripeCustomerID \/ \E p \in Pods : CacheExpires(p)
  PROVE  IInv'
<1>1. UNCHANGED <<consumer, usage, row, relay, stripe, faults>>
  BY DEF UpdateStripeCustomerID, CacheExpires
<1>2. customer' \in BOOLEAN /\ cache' \in [Pods -> View \cup {"none"}]
  BY DEF UpdateStripeCustomerID, CacheExpires, IInv, TypeOK
<1>3. TypeOK'
  BY <1>1, <1>2 DEF IInv, TypeOK, consumer, row, relay, stripe
<1>4. ConsumerInv'
  BY <1>1, ConsumerFrame DEF IInv, consumer, row
<1>5. RelayInv'
  BY <1>1, RelayFrame DEF IInv
<1>6. QED
  BY <1>3, <1>4, <1>5, KeyedIsOnce DEF IInv

\* Handling a message moves it and its task, and records nothing.
LEMMA MessageStep ==
  ASSUME IInv,
         \/ \E m \in Msgs : Arrive(m) \/ AckWaitExpires(m)
         \/ \E p \in Pods, batch \in SUBSET Msgs : Fetch(p, batch)
         \/ \E p \in Pods, m \in Msgs :
              GetAccountCached(p, m) \/ ReportUsageError(p, m) \/ Ack(p, m)
  PROVE  IInv'
<1>1. UNCHANGED <<usage, row, relay, stripe>>
  BY DEF Arrive, AckWaitExpires, Fetch, GetAccountCached, ReportUsageError, Ack
<1>2. RelayInv'
  BY <1>1, RelayFrame DEF IInv
<1>3. CASE \E m \in Msgs : Arrive(m) \/ AckWaitExpires(m)
  <2>1. TypeOK'
    BY <1>1, <1>3 DEF IInv, TypeOK, Arrive, AckWaitExpires, account, row, relay, stripe
  <2>2. ConsumerInv'
    BY <1>1, <1>3 DEF IInv, TypeOK, ConsumerInv, AckedIsRecorded, Arrive, AckWaitExpires, row
  <2>3. QED
    BY <1>2, <2>1, <2>2, KeyedIsOnce DEF IInv
<1>4. CASE \E p \in Pods, batch \in SUBSET Msgs : Fetch(p, batch)
  <2>1. PICK p \in Pods, batch \in SUBSET Msgs : Fetch(p, batch)
    BY <1>4
  <2>2. TypeOK'
    <3>1. deliveries' \in [Msgs -> 0..MaxDeliver]
      BY <2>1 DEF Fetch, IInv, TypeOK
    <3>2. QED
      BY <1>1, <2>1, <3>1 DEF IInv, TypeOK, Fetch, account, row, relay, stripe
  <2>3. ConsumerInv'
    BY <1>1, <2>1 DEF IInv, TypeOK, ConsumerInv, AckedIsRecorded, Fetch, row
  <2>4. QED
    BY <1>2, <2>2, <2>3, KeyedIsOnce DEF IInv
<1>5. CASE \E p \in Pods, m \in Msgs :
        GetAccountCached(p, m) \/ ReportUsageError(p, m) \/ Ack(p, m)
  <2>1. PICK p \in Pods, m \in Msgs :
          GetAccountCached(p, m) \/ ReportUsageError(p, m) \/ Ack(p, m)
    BY <1>5
  <2>2. PICK t \in View \cup {"none"} : task' = [task EXCEPT ![p][m] = t]
    BY <2>1 DEF GetAccountCached, ReportUsageError, Ack, Nak, SetTask, View, IInv, TypeOK
  <2>3. /\ msg' \in [Msgs -> {"absent", "ready", "out", "done"}]
        /\ deliveries' = deliveries
        /\ \A n \in Msgs : msg'[n] = "done" => msg[n] = "done" \/ EventOf(n) \in usage
    <3>1. CASE GetAccountCached(p, m)
      BY <3>1 DEF GetAccountCached, IInv, TypeOK
    <3>2. CASE ReportUsageError(p, m)
      BY <3>2 DEF ReportUsageError, Nak, IInv, TypeOK
    <3>3. CASE Ack(p, m)
      BY <3>3 DEF Ack, IInv, TypeOK, ConsumerInv
    <3>4. QED
      BY <2>1, <3>1, <3>2, <3>3
  <2>4. /\ customer' = customer /\ faults' \in 0..MaxFaults
        /\ cache' \in [Pods -> View \cup {"none"}]
        /\ failed' \in [Msgs -> Nat]
    <3>1. failed' = failed \/ failed' = [failed EXCEPT ![m] = @ + 1]
      BY <2>1 DEF GetAccountCached, ReportUsageError, Ack, Nak
    <3>2. QED
      <4>1. failed' \in [Msgs -> Nat]
        BY <3>1 DEF IInv, TypeOK
      <4>2. customer' = customer /\ faults' \in 0..MaxFaults
        BY <2>1 DEF GetAccountCached, ReportUsageError, Ack, account, IInv, TypeOK
      <4>3. cache' \in [Pods -> View \cup {"none"}]
        <5>1. CASE GetAccountCached(p, m)
          <6>1. PICK acc \in View : cache' = [cache EXCEPT ![p] = acc]
            BY <5>1 DEF GetAccountCached, View, IInv, TypeOK
          <6>2. QED
            BY <6>1 DEF IInv, TypeOK
        <5>2. CASE cache' = cache
          BY <5>2 DEF IInv, TypeOK
        <5>3. QED
          BY <2>1, <5>1, <5>2 DEF ReportUsageError, Ack, account
      <4>4. QED
        BY <4>1, <4>2, <4>3
  <2>5. TypeOK'
    BY <1>1, <2>2, <2>3, <2>4 DEF IInv, TypeOK, row, relay, stripe
  <2>6. ConsumerInv'
    BY <1>1, <2>2, <2>3 DEF IInv, TypeOK, ConsumerInv, AckedIsRecorded, View, row
  <2>7. QED
    BY <1>2, <2>5, <2>6, KeyedIsOnce DEF IInv
<1>6. QED
  BY <1>3, <1>4, <1>5

\* Recording adds the usage, and a pending row where there is none.
LEMMA Recorded ==
  ASSUME IInv, NEW p \in Pods, NEW m \in Msgs, RecordRows(p, m)
  PROVE  \E e \in Events :
           /\ e = EventOf(m)
           /\ usage' = usage \cup {e}
           /\ \/ status' = status
              \/ status[e] = "absent" /\ status' = [status EXCEPT ![e] = "pending"]
<1>1. EventOf(m) \in Events
  BY DEF Msgs, EventOf
<1>2. QED
  BY <1>1 DEF RecordRows

LEMMA ReportUsageStep ==
  ASSUME IInv, NEW p \in Pods, NEW m \in Msgs, ReportUsage(p, m) \/ ReportUsageUnknown(p, m)
  PROVE  IInv'
<1>1. PICK e \in Events :
        /\ e = EventOf(m)
        /\ usage' = usage \cup {e}
        /\ \/ status' = status
           \/ status[e] = "absent" /\ status' = [status EXCEPT ![e] = "pending"]
  BY Recorded DEF ReportUsage, ReportUsageUnknown
<1>2. /\ UNCHANGED <<account, deliveries, attempts, lease, backoff, token, relay, stripe>>
      /\ faults' \in 0..MaxFaults
  BY DEF ReportUsage, ReportUsageUnknown, Nak, Fault, IInv, TypeOK
<1>3. PICK t \in {"none", "recorded"} : task' = [task EXCEPT ![p][m] = t]
  BY DEF ReportUsage, ReportUsageUnknown, Nak, SetTask
<1>4. /\ msg' \in [Msgs -> {"absent", "ready", "out", "done"}]
      /\ \A n \in Msgs : msg'[n] = "done" => msg[n] = "done"
  BY DEF ReportUsage, ReportUsageUnknown, Nak, IInv, TypeOK
<1>5. TypeOK'
  <2>1. status' \in [Events -> {"absent", "pending", "publishing", "failed", "published",
                               "dead_letter"}]
    BY <1>1 DEF IInv, TypeOK
  <2>2. task' \in [Pods -> [Msgs -> View \cup {"none", "fetched", "recorded"}]]
    BY <1>3 DEF IInv, TypeOK
  <2>3. failed' \in [Msgs -> Nat]
    <3>1. failed' = failed \/ failed' = [failed EXCEPT ![m] = @ + 1]
      BY DEF ReportUsage, ReportUsageUnknown, Nak
    <3>2. QED
      BY <3>1 DEF IInv, TypeOK
  <2>4. QED
    BY <1>1, <1>2, <1>4, <2>1, <2>2, <2>3 DEF IInv, TypeOK, account, relay, stripe
<1>6. ConsumerInv'
  BY <1>1, <1>3, <1>4 DEF IInv, TypeOK, ConsumerInv, AckedIsRecorded
<1>7. CASE status' = status
  BY <1>2, <1>5, <1>6, <1>7, RelayFrame, KeyedIsOnce DEF IInv, row, relay, stripe
<1>8. CASE status[e] = "absent" /\ status' = [status EXCEPT ![e] = "pending"]
  <2>1. \A d \in Events : status'[d] = IF d = e THEN "pending" ELSE status[d]
    BY <1>8 DEF IInv, TypeOK
  <2>2. UNCHANGED <<attempts, lease, backoff, token, work, snapshot, late, metered>>
    BY <1>2 DEF relay, stripe
  <2>3. PublishedIsMetered' /\ DeadLetterExactlyAtLimit' /\ HolderIsCurrent'
    BY <1>8, <2>1, <2>2
       DEF IInv, RelayInv, PublishedIsMetered, DeadLetterExactlyAtLimit, HolderIsCurrent
  <2>4. \A r \in late \cup metered : status'[r[2]] # "absent"
    BY <1>8, <2>1 DEF IInv, TypeOK, RelayInv
  <2>5. RelayInv'
    BY <1>8, <2>1, <2>2, <2>3, <2>4 DEF IInv, RelayInv
  <2>6. QED
    BY <1>5, <1>6, <2>5, KeyedIsOnce DEF IInv
<1>9. QED
  BY <1>1, <1>7, <1>8
-----------------------------------------------------------------------------
(* The Stripe relay. *)

\* A batch holds only rows that match the claim.
LEMMA BatchIsClaimable ==
  ASSUME NEW p \in Pods, NEW batch \in Batches(p)
  PROVE  /\ batch \subseteq Events
         /\ \A e \in batch : Claimable(e)
  BY DEF Batches, Oldest

\* A claimed row is committed, unsettled and has an attempt left.
LEMMA ClaimableIsOpen ==
  ASSUME IInv, NEW e \in Events, Claimable(e)
  PROVE  /\ status[e] \in {"pending", "failed", "publishing"}
         /\ attempts[e] # MaxAttempts
<1>1. status[e] \in {"pending", "failed", "publishing"} /\ attempts[e] < MaxAttempts
  BY Zenon DEF Claimable
<1>2. attempts[e] \in Nat /\ MaxAttempts \in Nat
  BY BillingAssumption DEF IInv, TypeOK
<1>3. QED
  BY <1>1, <1>2

\* What the claim does to the rows, whether or not the pod learns of it.
LEMMA Claimed ==
  ASSUME IInv, NEW p \in Pods, NEW batch \in Batches(p), ClaimRows(p, batch)
  PROVE  /\ batch \subseteq Events
         /\ \A e \in Events : e \in batch =>
              status[e] \notin {"absent", "published", "dead_letter"} /\ attempts[e] # MaxAttempts
         /\ \A e \in Events : /\ status'[e] = IF e \in batch THEN "publishing" ELSE status[e]
                              /\ lease'[e] = IF e \in batch THEN "live" ELSE lease[e]
                              /\ token'[e] = IF e \in batch THEN p ELSE token[e]
         /\ status' \in [Events -> {"absent", "pending", "publishing", "failed", "published",
                                    "dead_letter"}]
         /\ lease' \in [Events -> {"none", "live", "expired"}]
         /\ token' \in [Events -> Pods \cup {NoToken}]
         /\ UNCHANGED <<customer, cache, msg, deliveries, task, failed, usage, attempts, backoff, late,
                       metered>>
<1>1. batch \subseteq Events /\ \A e \in batch : Claimable(e)
  BY BatchIsClaimable
<1>2. \A e \in Events : e \in batch =>
        status[e] \notin {"absent", "published", "dead_letter"} /\ attempts[e] # MaxAttempts
  BY <1>1, ClaimableIsOpen
<1>3. QED
  BY <1>1, <1>2 DEF ClaimRows, account, consumer, stripe, IInv, TypeOK

LEMMA ClaimStep ==
  ASSUME IInv, NEW p \in Pods, Claim(p) \/ ClaimLost(p)
  PROVE  IInv'
<1>1. PICK batch \in Batches(p) :
        /\ ClaimRows(p, batch)
        /\ work[p] = NoWork
        /\ \/ /\ work' = [work EXCEPT ![p] =
                     [e \in Events |-> IF e \in batch THEN "claimed" ELSE "none"]]
              /\ snapshot' = [snapshot EXCEPT ![p] =
                     [e \in Events |-> IF e \in batch THEN attempts'[e] ELSE 0]]
              /\ faults' = faults
           \/ UNCHANGED <<work, snapshot>> /\ Fault
  BY DEF Claim, ClaimLost, relay
<1>2. /\ batch \subseteq Events
      /\ \A e \in Events : e \in batch =>
           status[e] \notin {"absent", "published", "dead_letter"} /\ attempts[e] # MaxAttempts
      /\ \A e \in Events : /\ status'[e] = IF e \in batch THEN "publishing" ELSE status[e]
                           /\ lease'[e] = IF e \in batch THEN "live" ELSE lease[e]
                           /\ token'[e] = IF e \in batch THEN p ELSE token[e]
      /\ status' \in [Events -> {"absent", "pending", "publishing", "failed", "published",
                                 "dead_letter"}]
      /\ lease' \in [Events -> {"none", "live", "expired"}]
      /\ token' \in [Events -> Pods \cup {NoToken}]
      /\ UNCHANGED <<customer, cache, msg, deliveries, task, failed, usage, attempts, backoff, late,
                       metered>>
  BY <1>1, Claimed
<1>3. \A e \in Events : work[p][e] = "none"
  BY <1>1 DEF NoWork
<1>4. /\ work' \in [Pods -> [Events -> Work]]
      /\ snapshot' \in [Pods -> [Events -> 0..MaxAttempts]]
      /\ faults' \in 0..MaxFaults
      /\ \A q \in Pods, e \in Events : q # p =>
           work'[q][e] = work[q][e] /\ snapshot'[q][e] = snapshot[q][e]
      /\ \A e \in Events : work'[p][e] # "none" =>
           e \in batch /\ work'[p][e] = "claimed" /\ snapshot'[p][e] = attempts[e]
  <2>1. CASE UNCHANGED <<work, snapshot>> /\ Fault
    BY <1>3, <2>1 DEF IInv, TypeOK, Fault
  <2>2. CASE /\ work' = [work EXCEPT ![p] =
                     [e \in Events |-> IF e \in batch THEN "claimed" ELSE "none"]]
             /\ snapshot' = [snapshot EXCEPT ![p] =
                     [e \in Events |-> IF e \in batch THEN attempts'[e] ELSE 0]]
             /\ faults' = faults
    <3>1. attempts' = attempts /\ attempts \in [Events -> 0..MaxAttempts]
      BY <1>2 DEF IInv, TypeOK
    <3>2. work' \in [Pods -> [Events -> Work]]
      BY <2>2 DEF IInv, TypeOK, Work
    <3>3. snapshot' \in [Pods -> [Events -> 0..MaxAttempts]]
      BY <2>2, <3>1 DEF IInv, TypeOK
    <3>4. QED
      BY <2>2, <3>1, <3>2, <3>3 DEF IInv, TypeOK
  <2>3. QED
    BY <1>1, <2>1, <2>2
<1>5. TypeOK'
  BY <1>2, <1>4 DEF IInv, TypeOK
<1>6. ConsumerInv'
  BY <1>2 DEF IInv, ConsumerInv, AckedIsRecorded
<1>7. PublishedIsMetered' /\ DeadLetterExactlyAtLimit'
  BY <1>2 DEF IInv, RelayInv, PublishedIsMetered, DeadLetterExactlyAtLimit
<1>8. HolderIsCurrent'
  <2> SUFFICES ASSUME NEW q \in Pods, NEW e \in Events, token'[e] = q, work'[q][e] # "none"
               PROVE  status'[e] = "publishing" /\ snapshot'[q][e] = attempts'[e]
    BY DEF HolderIsCurrent
  <2>1. CASE q = p
    BY <1>2, <1>4, <2>1
  <2>2. CASE q # p
    <3>1. work[q][e] # "none" /\ e \notin batch
      BY <1>2, <1>4, <2>2
    <3>2. status[e] = "publishing" /\ snapshot[q][e] = attempts[e]
      BY <1>2, <3>1 DEF IInv, RelayInv, HolderIsCurrent
    <3>3. QED
      BY <1>2, <1>4, <2>2, <3>1, <3>2
  <2>3. QED
    BY <2>1, <2>2
<1>9. \A r \in late \cup metered : status'[r[2]] # "absent"
  BY <1>2 DEF IInv, TypeOK, RelayInv
<1>10. \A q \in Pods, e \in Events : work'[q][e] = "ok" => work[q][e] = "ok"
  BY <1>4
<1>11. \A e \in Events : status'[e] = "absent" => \A q \in Pods : work'[q][e] = "none"
  BY <1>2, <1>4 DEF IInv, RelayInv
<1>12. \A e \in Events : status'[e] = "publishing" => lease'[e] # "none"
  BY <1>2 DEF IInv, RelayInv
<1>13. RelayInv'
  BY <1>2, <1>7, <1>8, <1>9, <1>10, <1>11, <1>12 DEF IInv, RelayInv
<1>14. QED
  BY <1>5, <1>6, <1>13, KeyedIsOnce DEF IInv

\* A request carries its event's own key.
LEMMA KeyedRequest ==
  ASSUME NEW p \in Pods, NEW e \in Events
  PROVE  /\ Request(p, e) \in (Events \cup Pods) \X Events
         /\ Request(p, e)[2] = e
         /\ Request(p, e) = <<Request(p, e)[2], Request(p, e)[2]>>
  BY DEF Request, IdempotencyKey

\* The calls to Stripe touch neither rows nor consumer; an ok outcome is metered.
LEMMA CallStep ==
  ASSUME IInv, NEW p \in Pods, NEW e \in Events, Send(p, e) \/ SendEnds(p, e)
  PROVE  IInv'
<1>1. UNCHANGED <<account, consumer, usage, row, snapshot, faults>>
  BY DEF Send, SendEnds, SendOk, SendErr, SendTimeout
<1>2. PICK w \in {"sent", "ok", "err"} :
        /\ work' = [work EXCEPT ![p][e] = w]
        /\ w = "ok" => metered' = metered \cup {Request(p, e)}
        /\ work[p][e] # "none"
  BY DEF Send, SendEnds, SendOk, SendErr, SendTimeout, SetWork
<1>3. /\ late' \in SUBSET ((Events \cup Pods) \X Events)
      /\ metered' \in SUBSET ((Events \cup Pods) \X Events)
      /\ metered \subseteq metered'
      /\ \A r \in late' \cup metered' : r \in late \cup metered \/ r = Request(p, e)
  BY KeyedRequest DEF Send, SendEnds, SendOk, SendErr, SendTimeout, stripe, IInv, TypeOK
<1>4. work' \in [Pods -> [Events -> Work]]
  BY <1>2 DEF IInv, TypeOK, Work
<1>5. TypeOK'
  BY <1>1, <1>3, <1>4 DEF IInv, TypeOK, account, consumer, row
<1>6. ConsumerInv'
  BY <1>1, ConsumerFrame DEF IInv, consumer, row
<1>7. /\ UNCHANGED <<status, attempts, lease, token, snapshot>>
      /\ \A q \in Pods, d \in Events :
           /\ work'[q][d] = IF q = p /\ d = e THEN w ELSE work[q][d]
           /\ work'[q][d] # "none" => work[q][d] # "none"
  BY <1>1, <1>2 DEF IInv, TypeOK, row
<1>8. PublishedIsMetered' /\ DeadLetterExactlyAtLimit' /\ HolderIsCurrent'
  BY <1>3, <1>7
     DEF IInv, RelayInv, PublishedIsMetered, DeadLetterExactlyAtLimit, HolderIsCurrent
<1>9. \A q \in Pods, d \in Events : work'[q][d] = "ok" => \E r \in metered' : r[2] = d
  <2>1. w = "ok" => \E r \in metered' : r[2] = e
    BY <1>2, KeyedRequest
  <2>2. QED
    BY <1>3, <1>7, <2>1 DEF IInv, RelayInv
<1>10. \A r \in late' \cup metered' : r = <<r[2], r[2]>> /\ status[r[2]] # "absent"
  <2>1. status[e] # "absent"
    BY <1>2 DEF IInv, RelayInv
  <2>2. QED
    BY <1>3, <2>1, KeyedRequest DEF IInv, RelayInv
<1>11. \A d \in Events : status[d] = "absent" => \A q \in Pods : work'[q][d] = "none"
  BY <1>7 DEF IInv, RelayInv
<1>12. RelayInv'
  BY <1>7, <1>8, <1>9, <1>10, <1>11 DEF IInv, RelayInv
<1>13. QED
  BY <1>5, <1>6, <1>12, KeyedIsOnce DEF IInv

\* A request that is still out is carried out, or lost.
LEMMA LateStep ==
  ASSUME IInv, NEW r \in late, LateMeter(r) \/ LateLoss(r)
  PROVE  IInv'
<1>1. UNCHANGED <<account, consumer, usage, row, relay, faults>>
  BY DEF LateMeter, LateLoss
<1>2. /\ late' \subseteq late
      /\ metered \subseteq metered' /\ metered' \subseteq metered \cup late
  BY DEF LateMeter, LateLoss
<1>3. TypeOK'
  BY <1>1, <1>2 DEF IInv, TypeOK, account, consumer, row, relay
<1>4. ConsumerInv'
  BY <1>1, ConsumerFrame DEF IInv, consumer, row
<1>5. PublishedIsMetered' /\ DeadLetterExactlyAtLimit' /\ HolderIsCurrent'
  BY <1>1, <1>2
     DEF IInv, RelayInv, PublishedIsMetered, DeadLetterExactlyAtLimit, HolderIsCurrent, row, relay
<1>6. RelayInv'
  BY <1>1, <1>2, <1>5 DEF IInv, RelayInv, row, relay
<1>7. QED
  BY <1>3, <1>4, <1>6, KeyedIsOnce DEF IInv

\* The row a failure is recorded for under the token is in publishing, below the
\* limit, and the attempt is counted from its current value.
LEMMA FailedRow ==
  ASSUME IInv, NEW p \in Pods, NEW e \in Events, MarkStripeEventFailed(p, e), Owns(p, e)
  PROVE  /\ status[e] = "publishing"
         /\ attempts[e] \in Nat /\ attempts[e] < MaxAttempts
         /\ attempts' = [attempts EXCEPT ![e] = attempts[e] + 1]
         /\ status' = [status EXCEPT ![e] = FailedStatus(attempts[e] + 1)]
         /\ backoff' = [backoff EXCEPT ![e] = TRUE]
         /\ token' = [token EXCEPT ![e] = NoToken]
<1>1. status[e] = "publishing" /\ snapshot[p][e] = attempts[e]
  BY DEF MarkStripeEventFailed, Owns, IInv, RelayInv, HolderIsCurrent
<1>2. attempts[e] \in 0..MaxAttempts /\ attempts[e] # MaxAttempts
  BY <1>1 DEF IInv, TypeOK, RelayInv, DeadLetterExactlyAtLimit
<1>3. attempts[e] \in Nat /\ attempts[e] < MaxAttempts
  BY <1>2, BillingAssumption
<1>4. QED
  BY <1>1, <1>3 DEF MarkStripeEventFailed

\* Ending work on a row only takes knowledge away.
LEMMA WorkEnds ==
  ASSUME IInv, UNCHANGED <<status, attempts, lease, token, metered>>,
         \A r \in late' :
           \/ r \in late
           \/ \E p \in Pods, e \in Events : r = Request(p, e) /\ status[e] # "absent",
         \A p \in Pods, e \in Events :
           \/ work'[p][e] = "none"
           \/ work'[p][e] = work[p][e] /\ snapshot'[p][e] = snapshot[p][e]
  PROVE  RelayInv'
<1>1. PublishedIsMetered' /\ DeadLetterExactlyAtLimit' /\ HolderIsCurrent'
  BY DEF IInv, RelayInv, PublishedIsMetered, DeadLetterExactlyAtLimit, HolderIsCurrent
<1>2. \A r \in late' \cup metered : r = <<r[2], r[2]>> /\ status[r[2]] # "absent"
  BY KeyedRequest DEF IInv, RelayInv
<1>3. QED
  BY <1>1, <1>2 DEF IInv, RelayInv

LEMMA MarkFailedStep ==
  ASSUME IInv, NEW p \in Pods, NEW e \in Events, MarkStripeEventFailed(p, e)
  PROVE  IInv'
<1>1. /\ work[p][e] = "err"
      /\ work' = [work EXCEPT ![p][e] = "none"]
      /\ snapshot' = [snapshot EXCEPT ![p][e] = 0]
      /\ UNCHANGED <<account, consumer, usage, lease, stripe, faults>>
  BY DEF MarkStripeEventFailed, EndWork, SetWork
<1>2. /\ work' \in [Pods -> [Events -> Work]]
      /\ snapshot' \in [Pods -> [Events -> 0..MaxAttempts]]
      /\ \A q \in Pods, d \in Events :
           \/ work'[q][d] = "none"
           \/ work'[q][d] = work[q][d] /\ snapshot'[q][d] = snapshot[q][d]
  BY <1>1 DEF IInv, TypeOK, Work
<1>3. CASE Owns(p, e)
  <2>1. /\ status[e] = "publishing"
        /\ attempts[e] \in Nat /\ attempts[e] < MaxAttempts
        /\ attempts' = [attempts EXCEPT ![e] = attempts[e] + 1]
        /\ status' = [status EXCEPT ![e] = FailedStatus(attempts[e] + 1)]
        /\ backoff' = [backoff EXCEPT ![e] = TRUE]
        /\ token' = [token EXCEPT ![e] = NoToken]
    BY <1>3, FailedRow
  <2>2. /\ attempts[e] + 1 \in 0..MaxAttempts
        /\ (attempts[e] + 1 = MaxAttempts) <=> (FailedStatus(attempts[e] + 1) = "dead_letter")
        /\ FailedStatus(attempts[e] + 1) \in {"dead_letter", "failed"}
    BY <2>1, BillingAssumption DEF FailedStatus
  <2>3. \A d \in Events :
          /\ status'[d] = IF d = e THEN FailedStatus(attempts[e] + 1) ELSE status[d]
          /\ attempts'[d] = IF d = e THEN attempts[e] + 1 ELSE attempts[d]
          /\ token'[d] = IF d = e THEN NoToken ELSE token[d]
    BY <2>1 DEF IInv, TypeOK
  <2>4. TypeOK'
    <3>1. backoff' \in [Events -> BOOLEAN]
      BY <2>1, Zenon DEF IInv, TypeOK
    <3>2. attempts' \in [Events -> 0..MaxAttempts]
      BY <2>1, <2>2 DEF IInv, TypeOK
    <3>3. status' \in [Events -> {"absent", "pending", "publishing", "failed", "published",
                                 "dead_letter"}]
      BY <2>1, <2>2 DEF IInv, TypeOK
    <3>4. QED
      BY <1>1, <1>2, <2>1, <3>1, <3>2, <3>3 DEF IInv, TypeOK, account, consumer, stripe
  <2>5. ConsumerInv'
    BY <1>1, <2>1, <2>3, ConsumerFrame DEF IInv, consumer
  <2>6. PublishedIsMetered' /\ DeadLetterExactlyAtLimit'
    BY <1>1, <2>2, <2>3
       DEF IInv, RelayInv, PublishedIsMetered, DeadLetterExactlyAtLimit, stripe
  <2>7. HolderIsCurrent'
    BY <1>2, <2>3 DEF IInv, RelayInv, HolderIsCurrent
  <2>8. \A r \in late \cup metered : status'[r[2]] # "absent"
    BY <2>2, <2>3 DEF IInv, TypeOK, RelayInv
  <2>9. \A d \in Events : status'[d] = "absent" => \A q \in Pods : work'[q][d] = "none"
    BY <1>2, <2>2, <2>3 DEF IInv, RelayInv
  <2>10. \A d \in Events : status'[d] = "publishing" => lease[d] # "none"
    BY <2>2, <2>3 DEF IInv, RelayInv
  <2>11. \A q \in Pods, d \in Events : work'[q][d] = "ok" => \E r \in metered : r[2] = d
    BY <1>2 DEF IInv, RelayInv
  <2>12. RelayInv'
    BY <1>1, <2>6, <2>7, <2>8, <2>9, <2>10, <2>11 DEF IInv, RelayInv, stripe
  <2>13. QED
    BY <2>4, <2>5, <2>12, KeyedIsOnce DEF IInv
<1>4. CASE ~Owns(p, e)
  <2>1. UNCHANGED <<attempts, status, backoff, token>>
    BY <1>4 DEF MarkStripeEventFailed
  <2>2. TypeOK'
    BY <1>1, <1>2, <2>1 DEF IInv, TypeOK, account, consumer, stripe
  <2>3. ConsumerInv'
    BY <1>1, <2>1, ConsumerFrame DEF IInv, consumer
  <2>4. RelayInv'
    <3>1. UNCHANGED <<status, attempts, lease, token, metered>> /\ late' = late
      BY <1>1, <2>1 DEF stripe
    <3>2. QED
      BY <1>2, <3>1, WorkEnds
  <2>5. QED
    BY <2>2, <2>3, <2>4, KeyedIsOnce DEF IInv
<1>5. QED
  BY <1>3, <1>4

LEMMA WorkEndsStep ==
  ASSUME IInv, NEW p \in Pods,
         \/ \E e \in Events : MarkStripeEventFailedError(p, e)
         \/ MarkStripeEventsPublishedError(p)
         \/ Crash(p)
  PROVE  IInv'
<1>1. /\ UNCHANGED <<customer, msg, deliveries, usage, row, metered>>
      /\ faults' \in 0..MaxFaults
  BY DEF MarkStripeEventFailedError, MarkStripeEventsPublishedError, Crash, EndWork, Return,
         account, consumer, stripe, Fault, IInv, TypeOK
<1>2. /\ work' \in [Pods -> [Events -> Work]]
      /\ snapshot' \in [Pods -> [Events -> 0..MaxAttempts]]
      /\ \A q \in Pods, d \in Events :
           \/ work'[q][d] = "none"
           \/ work'[q][d] = work[q][d] /\ snapshot'[q][d] = snapshot[q][d]
  <2>1. CASE \E e \in Events : MarkStripeEventFailedError(p, e)
    <3>1. PICK e \in Events : /\ work' = [work EXCEPT ![p][e] = "none"]
                              /\ snapshot' = [snapshot EXCEPT ![p][e] = 0]
      BY <2>1 DEF MarkStripeEventFailedError, EndWork, SetWork
    <3>2. QED
      BY <3>1 DEF Work, IInv, TypeOK
  <2>2. CASE MarkStripeEventsPublishedError(p) \/ Crash(p)
    <3>1. /\ work' = [work EXCEPT ![p] = NoWork]
          /\ snapshot' = [snapshot EXCEPT ![p] = NoSnapshot]
      BY <2>2 DEF MarkStripeEventsPublishedError, Crash, Return
    <3>2. NoWork \in [Events -> Work] /\ NoSnapshot \in [Events -> 0..MaxAttempts]
      BY BillingAssumption DEF NoWork, NoSnapshot, Work
    <3>3. QED
      BY <3>1, <3>2 DEF NoWork, IInv, TypeOK
  <2>3. QED
    BY <2>1, <2>2
<1>3. /\ late' \in SUBSET ((Events \cup Pods) \X Events)
      /\ \A r \in late' :
           \/ r \in late
           \/ \E q \in Pods, e \in Events : r = Request(q, e) /\ status[e] # "absent"
  <2>1. CASE Crash(p)
    <3>1. late' = late \cup {Request(p, e) : e \in {d \in Events : work[p][d] = "sent"}}
      BY <2>1 DEF Crash
    <3>2. \A d \in Events : work[p][d] = "sent" => status[d] # "absent"
      BY DEF IInv, RelayInv
    <3>3. QED
      BY <3>1, <3>2, KeyedRequest DEF IInv, TypeOK
  <2>2. CASE ~Crash(p)
    BY <2>2 DEF MarkStripeEventFailedError, MarkStripeEventsPublishedError, EndWork, Return,
                stripe, IInv, TypeOK
  <2>3. QED
    BY <2>1, <2>2
<1>4. /\ cache' \in [Pods -> View \cup {"none"}]
      /\ UNCHANGED task \/ task' = [task EXCEPT ![p] = NoTask]
  BY DEF MarkStripeEventFailedError, MarkStripeEventsPublishedError, Crash, EndWork, Return,
         account, consumer, IInv, TypeOK
<1>5. task' \in [Pods -> [Msgs -> View \cup {"none", "fetched", "recorded"}]]
  <2>1. NoTask \in [Msgs -> View \cup {"none", "fetched", "recorded"}]
    BY DEF NoTask
  <2>2. QED
    BY <1>4, <2>1 DEF IInv, TypeOK
<1>6. failed' \in [Msgs -> Nat]
  <2>1. CASE Crash(p)
    BY <2>1 DEF Crash, IInv, TypeOK
  <2>2. CASE ~Crash(p)
    BY <2>2 DEF MarkStripeEventFailedError, MarkStripeEventsPublishedError, EndWork, Return,
                consumer, IInv, TypeOK
  <2>3. QED
    BY <2>1, <2>2
<1>7. TypeOK'
  BY <1>1, <1>2, <1>3, <1>4, <1>5, <1>6 DEF IInv, TypeOK, row
<1>8. ConsumerInv'
  BY <1>1, <1>4, ConsumerFrame DEF IInv, TypeOK, row
<1>9. RelayInv'
  <2>1. UNCHANGED <<status, attempts, lease, token, metered>>
    BY <1>1 DEF row
  <2>2. QED
    BY <1>2, <1>3, <2>1, WorkEnds
<1>10. QED
  BY <1>7, <1>8, <1>9, KeyedIsOnce DEF IInv

\* The rows a pod marks published are in publishing, and Stripe has carried out
\* their requests.
LEMMA MarkedRows ==
  ASSUME IInv, NEW p \in Pods, MarkStripeEventsPublished(p)
  PROVE  \E marked \in SUBSET Events :
           /\ \A e \in marked : status[e] = "publishing" /\ \E r \in metered : r[2] = e
           /\ status' = [e \in Events |-> IF e \in marked THEN "published" ELSE status[e]]
           /\ token' = [e \in Events |-> IF e \in marked THEN NoToken ELSE token[e]]
           /\ UNCHANGED <<attempts, lease, backoff, stripe>>
<1> DEFINE marked == {e \in PublishedEvents(p) : Owns(p, e)}
<1>1. marked \in SUBSET Events
  BY DEF PublishedEvents
<1>2. \A e \in marked : status[e] = "publishing" /\ \E r \in metered : r[2] = e
  BY DEF IInv, RelayInv, HolderIsCurrent, PublishedEvents, Owns
<1>3. /\ status' = [e \in Events |-> IF e \in marked THEN "published" ELSE status[e]]
      /\ token' = [e \in Events |-> IF e \in marked THEN NoToken ELSE token[e]]
      /\ UNCHANGED <<attempts, lease, backoff, stripe>>
  BY DEF MarkStripeEventsPublished, Return
<1>4. QED
  BY <1>1, <1>2, <1>3

LEMMA MarkPublishedStep ==
  ASSUME IInv, NEW p \in Pods, MarkStripeEventsPublished(p)
  PROVE  IInv'
<1>1. PICK marked \in SUBSET Events :
        /\ \A e \in marked : status[e] = "publishing" /\ \E r \in metered : r[2] = e
        /\ status' = [e \in Events |-> IF e \in marked THEN "published" ELSE status[e]]
        /\ token' = [e \in Events |-> IF e \in marked THEN NoToken ELSE token[e]]
        /\ UNCHANGED <<attempts, lease, backoff, stripe>>
  BY MarkedRows
<1>2. /\ work' = [work EXCEPT ![p] = NoWork]
      /\ snapshot' = [snapshot EXCEPT ![p] = NoSnapshot]
      /\ UNCHANGED <<account, consumer, usage, faults>>
  BY DEF MarkStripeEventsPublished, Return
<1>3. /\ work' \in [Pods -> [Events -> Work]]
      /\ snapshot' \in [Pods -> [Events -> 0..MaxAttempts]]
      /\ \A q \in Pods, d \in Events :
           \/ work'[q][d] = "none"
           \/ work'[q][d] = work[q][d] /\ snapshot'[q][d] = snapshot[q][d]
  <2>1. NoWork \in [Events -> Work] /\ NoSnapshot \in [Events -> 0..MaxAttempts]
    BY BillingAssumption DEF NoWork, NoSnapshot, Work
  <2>2. QED
    BY <1>2, <2>1 DEF NoWork, IInv, TypeOK
<1>4. \A e \in Events : /\ status'[e] = IF e \in marked THEN "published" ELSE status[e]
                       /\ token'[e] = IF e \in marked THEN NoToken ELSE token[e]
  BY <1>1
<1>5. TypeOK'
  BY <1>1, <1>2, <1>3 DEF IInv, TypeOK, account, consumer, stripe
<1>6. ConsumerInv'
  BY <1>1, <1>2, <1>4, ConsumerFrame DEF IInv, consumer
<1>7. PublishedIsMetered' /\ DeadLetterExactlyAtLimit'
  BY <1>1, <1>4 DEF IInv, TypeOK, RelayInv, PublishedIsMetered, DeadLetterExactlyAtLimit, stripe
<1>8. HolderIsCurrent'
  BY <1>1, <1>3, <1>4 DEF IInv, RelayInv, HolderIsCurrent
<1>9. \A r \in late \cup metered : status'[r[2]] # "absent"
  BY <1>4 DEF IInv, TypeOK, RelayInv
<1>10. \A e \in Events : status'[e] = "absent" => \A q \in Pods : work'[q][e] = "none"
  BY <1>3, <1>4 DEF IInv, RelayInv
<1>11. \A q \in Pods, e \in Events : work'[q][e] = "ok" => work[q][e] = "ok"
  BY <1>3
<1>12. RelayInv'
  BY <1>1, <1>4, <1>7, <1>8, <1>9, <1>10, <1>11 DEF IInv, RelayInv, stripe
<1>13. QED
  BY <1>5, <1>6, <1>12, KeyedIsOnce DEF IInv

LEMMA TimeStep ==
  ASSUME IInv, NEW e \in Events, LeaseExpires(e) \/ LeaseOverrun(e) \/ BackoffElapses(e)
  PROVE  IInv'
<1>1. /\ UNCHANGED <<account, consumer, usage, status, attempts, token, relay, stripe, faults>>
      /\ lease' \in [Events -> {"none", "live", "expired"}]
      /\ \A d \in Events : lease[d] # "none" => lease'[d] # "none"
  BY DEF LeaseExpires, LeaseOverrun, LeasePasses, BackoffElapses, IInv, TypeOK
<1>2. backoff' \in [Events -> BOOLEAN]
  BY Zenon DEF LeaseExpires, LeaseOverrun, LeasePasses, BackoffElapses, IInv, TypeOK
<1>3. TypeOK'
  BY <1>1, <1>2 DEF IInv, TypeOK, account, consumer, relay, stripe
<1>4. ConsumerInv'
  BY <1>1, ConsumerFrame DEF IInv, consumer
<1>5. RelayInv'
  BY <1>1 DEF IInv, RelayInv, PublishedIsMetered, DeadLetterExactlyAtLimit, HolderIsCurrent,
              relay, stripe
<1>6. QED
  BY <1>3, <1>4, <1>5, KeyedIsOnce DEF IInv

LEMMA NextIInv == IInv /\ [Next]_vars => IInv'
<1> SUFFICES ASSUME IInv, [Next]_vars
             PROVE  IInv'
  OBVIOUS
<1>1. CASE UNCHANGED vars
  <2>1. UNCHANGED <<account, consumer, usage, row, relay, stripe, faults>>
    BY <1>1 DEF vars, account, consumer, row, relay, stripe
  <2>2. TypeOK'
    BY <2>1 DEF IInv, TypeOK, account, consumer, row, relay, stripe
  <2>3. ConsumerInv'
    BY <2>1, ConsumerFrame DEF IInv, consumer, row
  <2>4. QED
    BY <2>1, <2>2, <2>3, RelayFrame, KeyedIsOnce DEF IInv
<1>2. CASE Next
  BY <1>2, AccountStep, MessageStep, ReportUsageStep, ClaimStep, CallStep, LateStep,
     MarkFailedStep, WorkEndsStep, MarkPublishedStep, TimeStep DEF Next
<1>3. QED
  BY <1>1, <1>2

\* The invariant of consumer and relay holds throughout.
THEOREM Inductive == Spec => []IInv
  BY InitIInv, NextIInv, PTL DEF Spec

\* A usage event is metered once.
THEOREM MeterOnce == Spec => []MeteredOnce
<1>1. IInv => MeteredOnce
  BY DEF IInv
<1>2. QED
  BY Inductive, <1>1, PTL

\* A message is let go of only once its usage is recorded.
THEOREM AckMeansRecorded == Spec => []AckedIsRecorded
<1>1. IInv => AckedIsRecorded
  BY DEF IInv, ConsumerInv
<1>2. QED
  BY Inductive, <1>1, PTL

\* A row says published only if Stripe has carried out its request.
THEOREM NoPhantomMeter == Spec => []PublishedIsMetered
<1>1. IInv => PublishedIsMetered
  BY DEF IInv, RelayInv
<1>2. QED
  BY Inductive, <1>1, PTL
-----------------------------------------------------------------------------
(* The refinement. *)

\* What a step does to the rows and to the requests carried out.
LEMMA RowSteps ==
  ASSUME IInv, [Next]_vars
  PROVE  \/ UNCHANGED <<status, attempts, metered>>
         \/ \E e \in Events : /\ status[e] = "absent" /\ status' = [status EXCEPT ![e] = "pending"]
                             /\ UNCHANGED <<attempts, metered>>
         \/ /\ \A e \in Events : \/ status'[e] = status[e]
                                 \/ /\ status[e] \in {"pending", "failed", "publishing"}
                                    /\ status'[e] = "publishing"
            /\ status' \in [Events -> {"absent", "pending", "publishing", "failed", "published",
                                       "dead_letter"}]
            /\ UNCHANGED <<attempts, metered>>
         \/ \E r \in (Events \cup Pods) \X Events :
              /\ status[r[2]] # "absent" /\ metered' = metered \cup {r}
              /\ UNCHANGED <<status, attempts>>
         \/ \E p \in Pods : MarkStripeEventsPublished(p)
         \/ \E p \in Pods, e \in Events : MarkStripeEventFailed(p, e) /\ Owns(p, e)
<1>1. CASE UNCHANGED vars
  BY <1>1 DEF vars
<1>2. CASE \/ UpdateStripeCustomerID \/ \E p \in Pods : CacheExpires(p)
           \/ \E m \in Msgs : Arrive(m) \/ AckWaitExpires(m)
           \/ \E p \in Pods, batch \in SUBSET Msgs : Fetch(p, batch)
           \/ \E p \in Pods, m \in Msgs :
                GetAccountCached(p, m) \/ ReportUsageError(p, m) \/ Ack(p, m)
  BY <1>2 DEF UpdateStripeCustomerID, CacheExpires, Arrive, AckWaitExpires, Fetch,
              GetAccountCached, ReportUsageError, Ack, row, stripe
<1>3. CASE \E p \in Pods, m \in Msgs : ReportUsage(p, m) \/ ReportUsageUnknown(p, m)
  BY <1>3, Recorded DEF ReportUsage, ReportUsageUnknown, stripe
<1>4. CASE \E p \in Pods : Claim(p) \/ ClaimLost(p)
  <2>1. PICK p \in Pods : \E batch \in Batches(p) : ClaimRows(p, batch)
    BY <1>4 DEF Claim, ClaimLost
  <2>2. PICK batch \in Batches(p) : ClaimRows(p, batch)
    BY <2>1
  <2>3. \A e \in Events : e \in batch => status[e] \in {"pending", "failed", "publishing"}
    BY BatchIsClaimable, ClaimableIsOpen
  <2>4. QED
    BY <2>2, <2>3, Claimed
<1>5. CASE \E p \in Pods, e \in Events : Send(p, e) \/ SendEnds(p, e)
  <2>1. PICK p \in Pods, e \in Events : Send(p, e) \/ SendEnds(p, e)
    BY <1>5
  <2>2. UNCHANGED <<status, attempts>>
    BY <2>1 DEF Send, SendEnds, SendOk, SendErr, SendTimeout, row
  <2>3. metered' = metered \/ metered' = metered \cup {Request(p, e)}
    BY <2>1 DEF Send, SendEnds, SendOk, SendErr, SendTimeout, stripe
  <2>4. status[e] # "absent"
    BY <2>1 DEF Send, SendEnds, SendOk, SendErr, SendTimeout, IInv, RelayInv
  <2>5. QED
    BY <2>2, <2>3, <2>4, KeyedRequest
<1>6. CASE \E r \in late : LateMeter(r) \/ LateLoss(r)
  BY <1>6 DEF LateMeter, LateLoss, row, IInv, TypeOK, RelayInv
<1>7. CASE \E p \in Pods, e \in Events : MarkStripeEventFailed(p, e)
  BY <1>7 DEF MarkStripeEventFailed, EndWork, stripe
<1>8. CASE \E p \in Pods : \/ Crash(p) \/ MarkStripeEventsPublishedError(p)
                          \/ \E e \in Events : MarkStripeEventFailedError(p, e)
  BY <1>8 DEF Crash, MarkStripeEventsPublishedError, MarkStripeEventFailedError, EndWork, Return,
              row, stripe
<1>9. CASE \E e \in Events : LeaseExpires(e) \/ LeaseOverrun(e) \/ BackoffElapses(e)
  BY <1>9 DEF LeaseExpires, LeaseOverrun, LeasePasses, BackoffElapses, stripe
<1>10. CASE \E p \in Pods : MarkStripeEventsPublished(p)
  BY <1>10
<1>11. QED
  BY <1>1, <1>2, <1>3, <1>4, <1>5, <1>6, <1>7, <1>8, <1>9, <1>10 DEF Next

\* A recorded outcome is final.
THEOREM StripeOutcomesAreFinal == Spec => OutcomeIsFinal
<1>1. IInv /\ [Next]_vars => [\A e \in Events : status[e] \in Settled => status'[e] = status[e]]_vars
  <2> SUFFICES ASSUME IInv, [Next]_vars, NEW e \in Events, status[e] \in Settled
               PROVE  status'[e] = status[e]
    OBVIOUS
  <2>1. CASE \E p \in Pods : MarkStripeEventsPublished(p)
    BY <2>1, MarkedRows DEF Settled
  <2>2. CASE \E p \in Pods, d \in Events : MarkStripeEventFailed(p, d) /\ Owns(p, d)
    <3>1. PICK p \in Pods, d \in Events : MarkStripeEventFailed(p, d) /\ Owns(p, d)
      BY <2>2
    <3>2. status[d] = "publishing" /\ status' = [status EXCEPT ![d] = FailedStatus(attempts[d] + 1)]
      BY <3>1, FailedRow
    <3>3. e # d
      BY <3>2 DEF Settled
    <3>4. QED
      BY <3>2, <3>3 DEF IInv, TypeOK
  <2>3. CASE \E d \in Events : status[d] = "absent" /\ status' = [status EXCEPT ![d] = "pending"]
    BY <2>3 DEF IInv, TypeOK, Settled
  <2>4. CASE \A d \in Events : \/ status'[d] = status[d]
                             \/ status[d] \in {"pending", "failed", "publishing"}
    BY <2>4 DEF Settled
  <2>5. QED
    BY <2>1, <2>2, <2>3, <2>4, RowSteps
<1>2. QED
  BY Inductive, <1>1, PTL DEF Spec, OutcomeIsFinal

\* Marking rows published is a Settle step.
LEMMA MarkPublishedRefines ==
  ASSUME IInv, NEW p \in Pods, MarkStripeEventsPublished(p)
  PROVE  Delivery!EDNext
<1>1. PICK marked \in SUBSET Events :
        /\ \A e \in marked : status[e] = "publishing" /\ \E r \in metered : r[2] = e
        /\ status' = [e \in Events |-> IF e \in marked THEN "published" ELSE status[e]]
        /\ UNCHANGED <<attempts, stripe>>
  BY MarkedRows
<1>2. marked \in SUBSET {e \in Events : Fate[e] = "owed" /\ e \in Metered}
  BY <1>1 DEF Fate, Metered
<1>3. Fate' = [e \in Events |-> IF e \in marked THEN "published" ELSE Fate[e]]
  BY <1>1 DEF Fate
<1>4. Metered' = Metered /\ attempts' = attempts
  BY <1>1 DEF Metered, stripe
<1>5. Delivery!Settle
  BY <1>2, <1>3, <1>4 DEF Delivery!Settle
<1>6. QED
  BY <1>5 DEF Delivery!EDNext

\* Recording a failure under the token is a Fail step.
LEMMA MarkFailedRefines ==
  ASSUME IInv, NEW p \in Pods, NEW e \in Events, MarkStripeEventFailed(p, e), Owns(p, e)
  PROVE  Delivery!EDNext
<1>1. /\ status[e] = "publishing"
      /\ attempts[e] \in Nat /\ attempts[e] < MaxAttempts
      /\ attempts' = [attempts EXCEPT ![e] = attempts[e] + 1]
      /\ status' = [status EXCEPT ![e] = FailedStatus(attempts[e] + 1)]
  BY FailedRow
<1>2. attempts'[e] = attempts[e] + 1
  BY <1>1 DEF IInv, TypeOK
<1>3. (attempts[e] + 1 >= MaxAttempts) <=> (attempts[e] + 1 = MaxAttempts)
  BY <1>1, BillingAssumption
<1>4. Fate[e] = "owed"
  BY <1>1 DEF Fate
<1>5. Fate' = [Fate EXCEPT ![e] = IF attempts'[e] = MaxAttempts THEN "dead_letter" ELSE @]
  BY <1>1, <1>2, <1>3 DEF Fate, FailedStatus, IInv, TypeOK
<1>6. Metered' = Metered
  BY DEF MarkStripeEventFailed, EndWork, stripe, Metered
<1>7. Delivery!Fail(e)
  BY <1>1, <1>4, <1>5, <1>6 DEF Delivery!Fail
<1>8. QED
  BY <1>7 DEF Delivery!EDNext

\* A request carried out is a Store step.
LEMMA MeterRefines ==
  ASSUME IInv, NEW r \in (Events \cup Pods) \X Events, status[r[2]] # "absent",
         metered' = metered \cup {r}, UNCHANGED <<status, attempts>>
  PROVE  [Delivery!EDNext]_(Delivery!edVars)
<1>1. r[2] \in Events /\ Fate[r[2]] # "absent" /\ Fate' = Fate
  BY DEF Fate
<1>2. Metered' = Metered \cup {r[2]}
  BY DEF Metered
<1>3. Delivery!Store(r[2])
  BY <1>1, <1>2 DEF Delivery!Store
<1>4. QED
  BY <1>1, <1>3 DEF Delivery!EDNext

LEMMA StepRefines ==
  ASSUME IInv, [Next]_vars
  PROVE  [Delivery!EDNext]_(Delivery!edVars)
<1>1. CASE UNCHANGED <<status, attempts, metered>>
  BY <1>1 DEF Fate, Metered, Delivery!edVars
<1>2. CASE \E e \in Events : /\ status[e] = "absent" /\ status' = [status EXCEPT ![e] = "pending"]
                            /\ UNCHANGED <<attempts, metered>>
  <2>1. PICK e \in Events : /\ status[e] = "absent" /\ status' = [status EXCEPT ![e] = "pending"]
                            /\ UNCHANGED <<attempts, metered>>
    BY <1>2
  <2>2. Fate[e] = "absent" /\ Fate' = [Fate EXCEPT ![e] = "owed"] /\ UNCHANGED <<attempts, Metered>>
    BY <2>1 DEF Fate, Metered, IInv, TypeOK
  <2>3. Delivery!Commit(e)
    BY <2>2 DEF Delivery!Commit
  <2>4. QED
    BY <2>3 DEF Delivery!EDNext
<1>3. CASE /\ \A e \in Events : \/ status'[e] = status[e]
                               \/ /\ status[e] \in {"pending", "failed", "publishing"}
                                  /\ status'[e] = "publishing"
           /\ UNCHANGED <<attempts, metered>>
  <2>1. \A e \in Events :
          (IF status'[e] \in {"pending", "publishing", "failed"} THEN "owed" ELSE status'[e])
            = (IF status[e] \in {"pending", "publishing", "failed"} THEN "owed" ELSE status[e])
    BY <1>3
  <2>2. Fate' = Fate /\ Metered' = Metered
    BY <1>3, <2>1 DEF Fate, Metered
  <2>3. QED
    BY <1>3, <2>2 DEF Delivery!edVars
<1>4. CASE \E r \in (Events \cup Pods) \X Events :
             /\ status[r[2]] # "absent" /\ metered' = metered \cup {r}
             /\ UNCHANGED <<status, attempts>>
  BY <1>4, MeterRefines
<1>5. CASE \E p \in Pods : MarkStripeEventsPublished(p)
  BY <1>5, MarkPublishedRefines
<1>6. CASE \E p \in Pods, e \in Events : MarkStripeEventFailed(p, e) /\ Owns(p, e)
  BY <1>6, MarkFailedRefines
<1>7. QED
  BY <1>1, <1>2, <1>3, <1>4, <1>5, <1>6, RowSteps

\* The Stripe relay implements EventDelivery: a row is owed until Stripe has carried
\* out its request and it is settled, or given up after MaxAttempts failures.
THEOREM Refinement == Spec => ImplementsEventDelivery
<1>1. Init => Delivery!EDInit
  BY DEF Init, Delivery!EDInit, Fate, Metered
<1>2. IInv /\ [Next]_vars => [Delivery!EDNext]_(Delivery!edVars)
  BY StepRefines
<1>3. QED
  BY Inductive, <1>1, <1>2, PTL DEF Spec, ImplementsEventDelivery, Delivery!EDSpec
=============================================================================
