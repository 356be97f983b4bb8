--------------------------- MODULE Outbox_proofs ---------------------------
(***************************************************************************)
(* Proofs about Outbox, for every number of pods, events, attempts, batch  *)
(* size and faults.  IInv is inductive; the safety properties of the runs  *)
(* follow from it, and with it every step of the relays is a step of       *)
(* EventDelivery or changes nothing of what that speaks about.             *)
(***************************************************************************)
EXTENDS Outbox, TLAPS

USE OutboxAssumption

LEMMA InitIInv == Init => IInv
  BY DEF Init, IInv, TypeOK, Events, Status, Work, NoWork, NoSnapshot,
         PublishedIsStored, DeadLetterExactlyAtLimit, UnsettledIsRecoverable, HolderIsCurrent

\* A batch holds only rows that match the claim.
LEMMA BatchIsClaimable ==
  ASSUME NEW r \in Relays, NEW batch \in Batches(r)
  PROVE  /\ batch \subseteq Events
         /\ \A e \in batch : Claimable(e)
  BY DEF Batches, Oldest

\* A claimed row is committed, unsettled and has an attempt left.
LEMMA ClaimableIsOpen ==
  ASSUME IInv, NEW e \in Events, Claimable(e)
  PROVE  status[e] \notin {"absent", "published", "dead_letter"} /\ attempts[e] # MaxAttempts
<1>1. status[e] \in {"pending", "failed", "publishing"} /\ attempts[e] < MaxAttempts
  BY Zenon DEF Claimable
<1>2. attempts[e] \in Nat /\ MaxAttempts \in Nat
  BY OutboxAssumption DEF IInv, TypeOK
<1>3. QED
  BY <1>1, <1>2

LEMMA InsertEventStep ==
  ASSUME IInv, NEW e \in Events, InsertEvent(e)
  PROVE  IInv'
  BY DEF IInv, TypeOK, Status, NoWork, InsertEvent, relay, stream,
         PublishedIsStored, DeadLetterExactlyAtLimit, UnsettledIsRecoverable, HolderIsCurrent

LEMMA ClaimStep ==
  ASSUME IInv, NEW r \in Relays, Claim(r)
  PROVE  IInv'
<1>1. PICK batch \in Batches(r) :
        /\ pc[r] = "idle"
        /\ ClaimRows(r, batch)
        /\ pc' = [pc EXCEPT ![r] = "publishing"]
        /\ work' = [work EXCEPT ![r] =
                      [e \in Events |-> IF e \in batch THEN "claimed" ELSE "none"]]
        /\ snapshot' = [snapshot EXCEPT ![r] =
                      [e \in Events |-> IF e \in batch THEN attempts[e] ELSE 0]]
        /\ UNCHANGED faults
  BY DEF Claim
<1>2. batch \subseteq Events /\ \A e \in batch : Claimable(e)
  BY BatchIsClaimable
<1>3. TypeOK'
  BY <1>1, <1>2 DEF IInv, TypeOK, ClaimRows, Status, Work, stream
<1>4. \A e \in Events : e \in batch => /\ status[e] \notin {"absent", "published", "dead_letter"}
                                       /\ attempts[e] # MaxAttempts
  BY <1>2, ClaimableIsOpen
<1>5. /\ PublishedIsStored' /\ DeadLetterExactlyAtLimit' /\ UnsettledIsRecoverable'
  BY <1>1, <1>4 DEF IInv, TypeOK, ClaimRows, stream,
       PublishedIsStored, DeadLetterExactlyAtLimit, UnsettledIsRecoverable
<1>6. HolderIsCurrent'
  BY <1>1, <1>4 DEF IInv, TypeOK, ClaimRows, HolderIsCurrent
<1>7. QED
  BY <1>1, <1>3, <1>4, <1>5, <1>6 DEF IInv, TypeOK, ClaimRows, NoWork, stream

LEMMA ClaimLostStep ==
  ASSUME IInv, NEW r \in Relays, ClaimLost(r)
  PROVE  IInv'
<1>1. PICK batch \in Batches(r) : ClaimRows(r, batch)
  BY DEF ClaimLost
<1>2. batch \subseteq Events /\ \A e \in batch : Claimable(e)
  BY BatchIsClaimable
<1>3. pc[r] = "idle" /\ Fault /\ UNCHANGED relay
  BY DEF ClaimLost
<1>4. TypeOK'
  BY <1>1, <1>2, <1>3 DEF IInv, TypeOK, ClaimRows, Status, Fault, stream, relay
<1>5. \A e \in Events : e \in batch => /\ status[e] \notin {"absent", "published", "dead_letter"}
                                       /\ attempts[e] # MaxAttempts
  BY <1>2, ClaimableIsOpen
<1>6. \A e \in Events : work[r][e] = "none"
  BY <1>3 DEF IInv, NoWork
<1>7. PublishedIsStored' /\ DeadLetterExactlyAtLimit' /\ UnsettledIsRecoverable'
  BY <1>1, <1>5 DEF IInv, TypeOK, ClaimRows, stream,
       PublishedIsStored, DeadLetterExactlyAtLimit, UnsettledIsRecoverable
<1>8. HolderIsCurrent'
  BY <1>1, <1>3, <1>6 DEF IInv, TypeOK, ClaimRows, HolderIsCurrent, relay
<1>9. QED
  BY <1>1, <1>3, <1>4, <1>5, <1>7, <1>8 DEF IInv, TypeOK, ClaimRows, NoWork, stream, relay

LEMMA PublishStep ==
  ASSUME IInv, NEW r \in Relays, NEW e \in Events,
         Publish(r, e) \/ PublishEnds(r, e)
  PROVE  IInv'
<1>1. CASE Publish(r, e)
  BY <1>1 DEF IInv, TypeOK, Work, NoWork, Publish, SetWork, row, stream,
       PublishedIsStored, DeadLetterExactlyAtLimit, UnsettledIsRecoverable, HolderIsCurrent
<1>2. CASE PublishOk(r, e)
  BY <1>2 DEF IInv, TypeOK, Work, NoWork, PublishOk, SetWork, row,
       PublishedIsStored, DeadLetterExactlyAtLimit, UnsettledIsRecoverable, HolderIsCurrent
<1>3. CASE PublishErr(r, e)
  BY <1>3 DEF IInv, TypeOK, Work, NoWork, PublishErr, SetWork, row, stream,
       PublishedIsStored, DeadLetterExactlyAtLimit, UnsettledIsRecoverable, HolderIsCurrent
<1>4. CASE PublishTimeout(r, e)
  BY <1>4 DEF IInv, TypeOK, Work, NoWork, PublishTimeout, SetWork, row,
       PublishedIsStored, DeadLetterExactlyAtLimit, UnsettledIsRecoverable, HolderIsCurrent
<1>5. QED
  BY <1>1, <1>2, <1>3, <1>4 DEF PublishEnds

LEMMA LateStep ==
  ASSUME IInv, NEW e \in Events, LateStore(e) \/ LateLoss(e)
  PROVE  IInv'
<1>1. CASE LateStore(e)
  <2>1. stored' = stored \cup {e} /\ late' = late \ {e}
    BY <1>1 DEF LateStore, IInv, TypeOK
  <2>2. UNCHANGED <<status, attempts, lease, backoff, token, pc, work, snapshot, faults>>
    BY <1>1 DEF LateStore, row, relay
  <2>3. status[e] # "absent"
    BY <1>1 DEF LateStore, IInv
  <2>4. TypeOK'
    BY <2>1, <2>2 DEF IInv, TypeOK
  <2>5. QED
    BY <2>1, <2>2, <2>3, <2>4 DEF IInv, TypeOK, NoWork,
       PublishedIsStored, DeadLetterExactlyAtLimit, UnsettledIsRecoverable, HolderIsCurrent
<1>2. CASE LateLoss(e)
  BY <1>2 DEF IInv, TypeOK, LateLoss, row, relay, NoWork,
       PublishedIsStored, DeadLetterExactlyAtLimit, UnsettledIsRecoverable, HolderIsCurrent
<1>3. QED
  BY <1>1, <1>2

LEMMA MarkPublishedStep ==
  ASSUME IInv, NEW r \in Relays, MarkPublished(r)
  PROVE  IInv'
<1> DEFINE marked == {e \in OkEvents(r) : Owns(r, e)}
<1>1. /\ pc[r] = "publishing"
      /\ \A e \in Events : work[r][e] \notin {"claimed", "sent"}
      /\ status' = [e \in Events |-> IF e \in marked THEN "published" ELSE status[e]]
      /\ token' = [e \in Events |-> IF e \in marked THEN NoToken ELSE token[e]]
      /\ pc' = [pc EXCEPT ![r] = "recording"]
      /\ work' = [work EXCEPT ![r] =
                    [e \in Events |-> IF work[r][e] = "ok" THEN "none" ELSE work[r][e]]]
      /\ UNCHANGED <<snapshot, late, stored, attempts, lease, backoff, faults>>
  BY DEF MarkPublished, BatchDone, LeavePublishing, stream
<1>2. \A e \in Events : e \in marked <=> work[r][e] = "ok" /\ token[e] = r
  BY DEF OkEvents, Owns
<1>3. \A e \in Events : e \in marked => status[e] = "publishing" /\ e \in stored
  BY <1>2 DEF IInv, HolderIsCurrent
<1> HIDE DEF marked
<1>4. TypeOK'
  BY <1>1 DEF IInv, TypeOK, Status, Work
<1>5. PublishedIsStored' /\ DeadLetterExactlyAtLimit' /\ UnsettledIsRecoverable'
  BY <1>1, <1>3 DEF IInv, TypeOK, PublishedIsStored, DeadLetterExactlyAtLimit,
                    UnsettledIsRecoverable
<1>6. HolderIsCurrent'
  BY <1>1, <1>2 DEF IInv, TypeOK, HolderIsCurrent
<1>7. QED
  BY <1>1, <1>3, <1>4, <1>5, <1>6 DEF IInv, TypeOK, NoWork

LEMMA MarkPublishedErrorStep ==
  ASSUME IInv, NEW r \in Relays, MarkPublishedError(r)
  PROVE  IInv'
  BY DEF IInv, TypeOK, Work, NoWork, MarkPublishedError, BatchDone, OkEvents, Fault,
       LeavePublishing, row, stream,
       PublishedIsStored, DeadLetterExactlyAtLimit, UnsettledIsRecoverable, HolderIsCurrent

LEMMA MarkFailedStep ==
  ASSUME IInv, NEW r \in Relays, NEW e \in Events, MarkFailed(r, e)
  PROVE  IInv'
<1>1. /\ pc[r] = "recording" /\ work[r][e] = "err"
      /\ work' = [work EXCEPT ![r][e] = "none"]
      /\ UNCHANGED <<lease, pc, snapshot, late, stored, faults>>
  BY DEF MarkFailed, SetWork, stream
<1>2. CASE Owns(r, e)
  <2>1. token[e] = r /\ status[e] = "publishing" /\ snapshot[r][e] = attempts[e]
    BY <1>1, <1>2 DEF Owns, IInv, HolderIsCurrent
  <2>2. attempts[e] \in 0..MaxAttempts /\ attempts[e] # MaxAttempts
    BY <2>1 DEF IInv, TypeOK, DeadLetterExactlyAtLimit
  <2>3. /\ attempts' = [attempts EXCEPT ![e] = attempts[e] + 1]
        /\ status' = [status EXCEPT ![e] = FailedStatus(attempts[e] + 1)]
        /\ backoff' = [backoff EXCEPT ![e] = TRUE]
        /\ token' = [token EXCEPT ![e] = NoToken]
    BY <1>2, <2>1 DEF MarkFailed
  <2>4. attempts[e] + 1 \in 0..MaxAttempts
    BY <2>2, OutboxAssumption
  <2>5. (attempts[e] + 1 = MaxAttempts) <=> (FailedStatus(attempts[e] + 1) = "dead_letter")
    BY <2>4, OutboxAssumption DEF FailedStatus
  <2>6. FailedStatus(attempts[e] + 1) \in {"dead_letter", "failed"}
    BY DEF FailedStatus
  <2>7. backoff' \in [Events -> BOOLEAN]
    BY <2>3, Zenon DEF IInv, TypeOK
  <2>8. TypeOK'
    BY <1>1, <2>3, <2>4, <2>6, <2>7 DEF IInv, TypeOK, Status, Work
  <2>9. PublishedIsStored' /\ DeadLetterExactlyAtLimit' /\ UnsettledIsRecoverable'
    BY <1>1, <2>3, <2>5, <2>6 DEF IInv, TypeOK, PublishedIsStored,
         DeadLetterExactlyAtLimit, UnsettledIsRecoverable
  <2>10. HolderIsCurrent'
    BY <1>1, <2>1, <2>3 DEF IInv, TypeOK, HolderIsCurrent
  <2>11. QED
    BY <1>1, <2>1, <2>3, <2>6, <2>8, <2>9, <2>10 DEF IInv, TypeOK, NoWork
<1>3. CASE ~Owns(r, e)
  <2>1. UNCHANGED <<attempts, status, backoff, token>>
    BY <1>3 DEF MarkFailed
  <2>2. QED
    BY <1>1, <2>1 DEF IInv, TypeOK, Work, NoWork,
         PublishedIsStored, DeadLetterExactlyAtLimit, UnsettledIsRecoverable, HolderIsCurrent
<1>4. QED
  BY <1>2, <1>3

LEMMA RelayEndsStep ==
  ASSUME IInv, NEW r \in Relays,
         Finish(r) \/ Crash(r) \/ \E e \in Events : MarkFailedError(r, e)
  PROVE  IInv'
<1>1. CASE Finish(r)
  BY <1>1 DEF IInv, TypeOK, NoWork, NoSnapshot, Finish, row, stream,
       PublishedIsStored, DeadLetterExactlyAtLimit, UnsettledIsRecoverable, HolderIsCurrent
<1>2. CASE Crash(r)
  BY <1>2 DEF IInv, TypeOK, Work, NoWork, NoSnapshot, Crash, Fault, row,
       PublishedIsStored, DeadLetterExactlyAtLimit, UnsettledIsRecoverable, HolderIsCurrent
<1>3. CASE \E e \in Events : MarkFailedError(r, e)
  BY <1>3 DEF IInv, TypeOK, Work, NoWork, MarkFailedError, SetWork, Fault, row, stream,
       PublishedIsStored, DeadLetterExactlyAtLimit, UnsettledIsRecoverable, HolderIsCurrent
<1>4. QED
  BY <1>1, <1>2, <1>3

LEMMA TimeStep ==
  ASSUME IInv, NEW e \in Events,
         LeaseExpires(e) \/ LeaseOverrun(e) \/ BackoffElapses(e)
  PROVE  IInv'
<1>1. CASE LeaseExpires(e)
  BY <1>1 DEF IInv, TypeOK, NoWork, LeaseExpires, relay, stream,
       PublishedIsStored, DeadLetterExactlyAtLimit, UnsettledIsRecoverable, HolderIsCurrent
<1>2. CASE LeaseOverrun(e)
  BY <1>2 DEF IInv, TypeOK, NoWork, LeaseOverrun, Fault, relay, stream,
       PublishedIsStored, DeadLetterExactlyAtLimit, UnsettledIsRecoverable, HolderIsCurrent
<1>3. CASE BackoffElapses(e)
  <2>1. backoff' \in [Events -> BOOLEAN]
    BY <1>3, Zenon DEF BackoffElapses, IInv, TypeOK
  <2>2. UNCHANGED <<status, attempts, lease, token, relay, stream, faults>>
    BY <1>3 DEF BackoffElapses
  <2>3. QED
    BY <2>1, <2>2 DEF IInv, TypeOK, NoWork, relay, stream,
       PublishedIsStored, DeadLetterExactlyAtLimit, UnsettledIsRecoverable, HolderIsCurrent
<1>4. QED
  BY <1>1, <1>2, <1>3

LEMMA NextIInv == IInv /\ [Next]_vars => IInv'
<1> SUFFICES ASSUME IInv, [Next]_vars
             PROVE  IInv'
  OBVIOUS
<1>1. CASE UNCHANGED vars
  BY <1>1 DEF vars, IInv, TypeOK, NoWork,
       PublishedIsStored, DeadLetterExactlyAtLimit, UnsettledIsRecoverable, HolderIsCurrent
<1>2. CASE Next
  BY <1>2, InsertEventStep, ClaimStep, ClaimLostStep, PublishStep, LateStep, MarkPublishedStep,
     MarkPublishedErrorStep, MarkFailedStep, RelayEndsStep, TimeStep DEF Next
<1>3. QED
  BY <1>1, <1>2

\* IInv holds throughout: rows, relays and stream stay consistent with each other.
THEOREM Inductive == Spec => []IInv
  BY InitIInv, NextIInv, PTL DEF Spec

\* Type correctness.
THEOREM TypeCorrect == Spec => []TypeOK
<1>1. IInv => TypeOK
  BY DEF IInv
<1>2. QED
  BY Inductive, <1>1, PTL

\* A row says published only if the stream stored the event.
THEOREM NoPhantomPublish == Spec => []PublishedIsStored
<1>1. IInv => PublishedIsStored
  BY DEF IInv
<1>2. QED
  BY Inductive, <1>1, PTL

\* An event is given up exactly when its attempts are used up.
THEOREM DeadLetterAtLimit == Spec => []DeadLetterExactlyAtLimit
<1>1. IInv => DeadLetterExactlyAtLimit
  BY DEF IInv
<1>2. QED
  BY Inductive, <1>1, PTL

-----------------------------------------------------------------------------
(* What a step does to the rows, by action. *)

LEMMA RowSteps ==
  ASSUME IInv, [Next]_vars
  PROVE  \/ UNCHANGED <<status, attempts>>
         \/ \E e \in Events : InsertEvent(e)
         \/ \E r \in Relays, batch \in SUBSET Events :
              /\ \A e \in batch : Claimable(e)
              /\ ClaimRows(r, batch)
         \/ \E r \in Relays : MarkPublished(r)
         \/ \E r \in Relays, e \in Events : MarkFailed(r, e) /\ Owns(r, e)
<1>1. CASE UNCHANGED vars
  BY <1>1 DEF vars
<1>2. CASE \E e \in Events : InsertEvent(e)
  BY <1>2
<1>3. CASE \E r \in Relays : Claim(r) \/ ClaimLost(r)
  <2>1. PICK r \in Relays : \E batch \in Batches(r) : ClaimRows(r, batch)
    BY <1>3 DEF Claim, ClaimLost
  <2>2. PICK batch \in Batches(r) : ClaimRows(r, batch)
    BY <2>1
  <2>3. batch \in SUBSET Events /\ \A e \in batch : Claimable(e)
    BY BatchIsClaimable
  <2>4. QED
    BY <2>2, <2>3
<1>4. CASE \E r \in Relays : MarkPublished(r)
  BY <1>4
<1>5. CASE \E r \in Relays, e \in Events : MarkFailed(r, e)
  <2>1. PICK r \in Relays, e \in Events : MarkFailed(r, e)
    BY <1>5
  <2>2. CASE Owns(r, e)
    BY <2>1, <2>2
  <2>3. CASE ~Owns(r, e)
    BY <2>1, <2>3 DEF MarkFailed
  <2>4. QED
    BY <2>2, <2>3
<1>6. CASE \E r \in Relays, e \in Events :
        Publish(r, e) \/ PublishEnds(r, e) \/ MarkFailedError(r, e)
  BY <1>6 DEF Publish, PublishEnds, PublishOk, PublishErr, PublishTimeout, MarkFailedError, row
<1>7. CASE \E r \in Relays : MarkPublishedError(r) \/ Finish(r) \/ Crash(r)
  BY <1>7 DEF MarkPublishedError, Finish, Crash, row
<1>8. CASE \E e \in Events : \/ LateStore(e) \/ LateLoss(e) \/ LeaseExpires(e)
                              \/ LeaseOverrun(e) \/ BackoffElapses(e)
  BY <1>8 DEF LateStore, LateLoss, LeaseExpires, LeaseOverrun, BackoffElapses, row
<1>9. QED
  BY <1>1, <1>2, <1>3, <1>4, <1>5, <1>6, <1>7, <1>8 DEF Next

\* The rows MarkPublished marks are in publishing and stored.
LEMMA MarkedRows ==
  ASSUME IInv, NEW r \in Relays, MarkPublished(r)
  PROVE  \E marked \in SUBSET Events :
           /\ \A e \in marked : status[e] = "publishing" /\ e \in stored
           /\ status' = [e \in Events |-> IF e \in marked THEN "published" ELSE status[e]]
           /\ UNCHANGED <<attempts, stored>>
<1> DEFINE marked == {e \in OkEvents(r) : Owns(r, e)}
<1>1. marked \in SUBSET Events
  BY DEF OkEvents
<1>2. \A e \in marked : status[e] = "publishing" /\ e \in stored
  BY DEF IInv, HolderIsCurrent, OkEvents, Owns
<1>3. /\ status' = [e \in Events |-> IF e \in marked THEN "published" ELSE status[e]]
      /\ UNCHANGED <<attempts, stored>>
  BY DEF MarkPublished, LeavePublishing, stream
<1>4. QED
  BY <1>1, <1>2, <1>3

\* The row MarkFailed records under its token is in publishing, below the limit.
LEMMA FailedRow ==
  ASSUME IInv, NEW r \in Relays, NEW e \in Events, MarkFailed(r, e), Owns(r, e)
  PROVE  /\ status[e] = "publishing"
         /\ attempts[e] \in Nat /\ attempts[e] < MaxAttempts
         /\ attempts' = [attempts EXCEPT ![e] = @ + 1]
         /\ status' = [status EXCEPT ![e] = FailedStatus(attempts[e] + 1)]
         /\ UNCHANGED stored
<1>1. status[e] = "publishing" /\ snapshot[r][e] = attempts[e]
  BY DEF MarkFailed, Owns, IInv, HolderIsCurrent
<1>2. attempts[e] \in 0..MaxAttempts /\ attempts[e] # MaxAttempts
  BY <1>1 DEF IInv, TypeOK, DeadLetterExactlyAtLimit
<1>3. attempts[e] \in Nat /\ attempts[e] < MaxAttempts
  BY <1>2, OutboxAssumption
<1>4. QED
  BY <1>1, <1>3 DEF MarkFailed, stream

\* A recorded outcome is final, also against a relay whose lease ran out.
THEOREM OutcomesAreFinal == Spec => OutcomeIsFinal
<1>1. IInv /\ [Next]_vars => [\A e \in Events : status[e] \in Settled => status'[e] = status[e]]_vars
  <2> SUFFICES ASSUME IInv, [Next]_vars, NEW e \in Events, status[e] \in Settled
               PROVE  status'[e] = status[e]
    OBVIOUS
  <2>1. CASE UNCHANGED <<status, attempts>>
    BY <2>1
  <2>2. CASE \E d \in Events : InsertEvent(d)
    BY <2>2 DEF InsertEvent, IInv, TypeOK, Settled
  <2>3. CASE \E r \in Relays, batch \in SUBSET Events :
               (\A d \in batch : Claimable(d)) /\ ClaimRows(r, batch)
    <3>1. PICK r \in Relays, batch \in SUBSET Events :
            (\A d \in batch : Claimable(d)) /\ ClaimRows(r, batch)
      BY <2>3
    <3>2. e \notin batch
      BY <3>1, ClaimableIsOpen DEF Settled
    <3>3. QED
      BY <3>1, <3>2 DEF ClaimRows
  <2>4. CASE \E r \in Relays : MarkPublished(r)
    BY <2>4, MarkedRows DEF Settled
  <2>5. CASE \E r \in Relays, d \in Events : MarkFailed(r, d) /\ Owns(r, d)
    <3>1. PICK r \in Relays, d \in Events : MarkFailed(r, d) /\ Owns(r, d)
      BY <2>5
    <3>2. status[d] = "publishing" /\ status' = [status EXCEPT ![d] = FailedStatus(attempts[d] + 1)]
      BY <3>1, FailedRow
    <3>3. e # d
      BY <3>2 DEF Settled
    <3>4. QED
      BY <3>2, <3>3 DEF IInv, TypeOK
  <2>6. QED
    BY <2>1, <2>2, <2>3, <2>4, <2>5, RowSteps
<1>2. QED
  BY Inductive, <1>1, PTL DEF Spec, OutcomeIsFinal

-----------------------------------------------------------------------------
(* The refinement. *)

\* A step that leaves the fates, the attempts and the stored alone stutters.
LEMMA Stutters ==
  ASSUME Fate' = Fate, UNCHANGED <<attempts, stored>>
  PROVE  [Delivery!EDNext]_(Delivery!edVars)
  BY DEF Delivery!edVars

\* A stored copy is a Store step of EventDelivery.
LEMMA StoreRefines ==
  ASSUME IInv, NEW e \in Events, status[e] # "absent",
         stored' = stored \cup {e}, UNCHANGED <<status, attempts>>
  PROVE  Delivery!EDNext
<1>1. Fate[e] # "absent" /\ Fate' = Fate
  BY DEF Fate
<1>2. Delivery!Store(e)
  BY <1>1 DEF Delivery!Store
<1>3. QED
  BY <1>2 DEF Delivery!EDNext

\* Marking rows published is a Settle step.
LEMMA MarkPublishedRefines ==
  ASSUME IInv, NEW r \in Relays, MarkPublished(r)
  PROVE  Delivery!EDNext
<1>1. PICK marked \in SUBSET Events :
        /\ \A e \in marked : status[e] = "publishing" /\ e \in stored
        /\ status' = [e \in Events |-> IF e \in marked THEN "published" ELSE status[e]]
        /\ UNCHANGED <<attempts, stored>>
  BY MarkedRows
<1>2. marked \in SUBSET {e \in Events : Fate[e] = "owed" /\ e \in stored}
  BY <1>1 DEF Fate
<1>3. Fate' = [e \in Events |-> IF e \in marked THEN "published" ELSE Fate[e]]
  BY <1>1 DEF Fate
<1>4. Delivery!Settle
  BY <1>1, <1>2, <1>3 DEF Delivery!Settle
<1>5. QED
  BY <1>4 DEF Delivery!EDNext

\* Recording a failure under the token is a Fail step.
LEMMA MarkFailedRefines ==
  ASSUME IInv, NEW r \in Relays, NEW e \in Events, MarkFailed(r, e), Owns(r, e)
  PROVE  Delivery!EDNext
<1>1. /\ status[e] = "publishing"
      /\ attempts[e] \in Nat /\ attempts[e] < MaxAttempts
      /\ attempts' = [attempts EXCEPT ![e] = @ + 1]
      /\ status' = [status EXCEPT ![e] = FailedStatus(attempts[e] + 1)]
      /\ UNCHANGED stored
  BY FailedRow
<1>2. attempts'[e] = attempts[e] + 1
  BY <1>1 DEF IInv, TypeOK
<1>3. (attempts[e] + 1 >= MaxAttempts) <=> (attempts[e] + 1 = MaxAttempts)
  BY <1>1, OutboxAssumption
<1>4. Fate[e] = "owed"
  BY <1>1 DEF Fate
<1>5. Fate' = [Fate EXCEPT ![e] = IF attempts'[e] = MaxAttempts THEN "dead_letter" ELSE @]
  BY <1>1, <1>2, <1>3 DEF Fate, FailedStatus, IInv, TypeOK
<1>6. Delivery!Fail(e)
  BY <1>1, <1>4, <1>5 DEF Delivery!Fail
<1>7. QED
  BY <1>6 DEF Delivery!EDNext

\* Claiming rows leaves them owed.
LEMMA ClaimRowsRefines ==
  ASSUME IInv, NEW r \in Relays, NEW batch \in SUBSET Events,
         \A e \in batch : Claimable(e), ClaimRows(r, batch)
  PROVE  Fate' = Fate /\ UNCHANGED <<attempts, stored>>
<1>1. \A e \in batch : status[e] \in {"pending", "failed", "publishing"}
  BY Zenon DEF Claimable
<1>2. QED
  BY <1>1 DEF ClaimRows, Fate, stream

\* A committed row is a Commit step.
LEMMA InsertRefines ==
  ASSUME IInv, NEW e \in Events, InsertEvent(e)
  PROVE  Delivery!EDNext
<1>1. Fate[e] = "absent" /\ Fate' = [Fate EXCEPT ![e] = "owed"] /\ UNCHANGED <<attempts, stored>>
  BY DEF InsertEvent, Fate, IInv, TypeOK, stream
<1>2. Delivery!Commit(e)
  BY <1>1 DEF Delivery!Commit
<1>3. QED
  BY <1>2 DEF Delivery!EDNext

LEMMA StepRefines ==
  ASSUME IInv, [Next]_vars
  PROVE  [Delivery!EDNext]_(Delivery!edVars)
<1>1. CASE UNCHANGED <<status, attempts, stored>>
  BY <1>1, Stutters DEF Fate
<1>2. CASE \E e \in Events : InsertEvent(e)
  BY <1>2, InsertRefines
<1>3. CASE \E r \in Relays : Claim(r) \/ ClaimLost(r)
  <2>1. PICK r \in Relays : \E batch \in Batches(r) : ClaimRows(r, batch)
    BY <1>3 DEF Claim, ClaimLost
  <2>2. PICK batch \in Batches(r) : ClaimRows(r, batch)
    BY <2>1
  <2>3. batch \in SUBSET Events /\ \A e \in batch : Claimable(e)
    BY BatchIsClaimable
  <2>4. QED
    BY <2>2, <2>3, ClaimRowsRefines, Stutters
<1>4. CASE \E r \in Relays : MarkPublished(r)
  BY <1>4, MarkPublishedRefines
<1>5. CASE \E r \in Relays, e \in Events : MarkFailed(r, e)
  <2>1. PICK r \in Relays, e \in Events : MarkFailed(r, e)
    BY <1>5
  <2>2. CASE Owns(r, e)
    BY <2>1, <2>2, MarkFailedRefines
  <2>3. CASE ~Owns(r, e)
    BY <2>1, <2>3, Stutters DEF MarkFailed, Fate, stream
  <2>4. QED
    BY <2>2, <2>3
<1>6. CASE \E r \in Relays, e \in Events : PublishOk(r, e)
  <2>1. PICK r \in Relays, e \in Events : PublishOk(r, e)
    BY <1>6
  <2>2. status[e] # "absent"
    BY <2>1 DEF PublishOk, IInv
  <2>3. QED
    BY <2>1, <2>2, StoreRefines DEF PublishOk, row
<1>7. CASE \E e \in Events : LateStore(e)
  <2>1. PICK e \in Events : LateStore(e)
    BY <1>7
  <2>2. status[e] # "absent"
    BY <2>1 DEF LateStore, IInv
  <2>3. QED
    BY <2>1, <2>2, StoreRefines DEF LateStore, row
<1>8. CASE \E r \in Relays, e \in Events :
        Publish(r, e) \/ PublishErr(r, e) \/ PublishTimeout(r, e) \/ MarkFailedError(r, e)
  BY <1>8, <1>1 DEF Publish, PublishErr, PublishTimeout, MarkFailedError, row, stream
<1>9. CASE \E r \in Relays : MarkPublishedError(r) \/ Finish(r) \/ Crash(r)
  BY <1>9, <1>1 DEF MarkPublishedError, LeavePublishing, Finish, Crash, row, stream
<1>10. CASE \E e \in Events : \/ LateLoss(e) \/ LeaseExpires(e)
                               \/ LeaseOverrun(e) \/ BackoffElapses(e)
  BY <1>10, <1>1 DEF LateLoss, LeaseExpires, LeaseOverrun, BackoffElapses, row, stream
<1>11. CASE UNCHANGED vars
  BY <1>11, <1>1 DEF vars
<1>12. QED
  BY <1>2, <1>3, <1>4, <1>5, <1>6, <1>7, <1>8, <1>9, <1>10, <1>11 DEF Next, PublishEnds

\* The relays implement EventDelivery: an event is owed until it is stored and
\* settled, or given up after MaxAttempts counted failures.
THEOREM Refinement == Spec => ImplementsEventDelivery
<1>1. Init => Delivery!EDInit
  BY DEF Init, Delivery!EDInit, Fate
<1>2. IInv /\ [Next]_vars => [Delivery!EDNext]_(Delivery!edVars)
  BY StepRefines
<1>3. QED
  BY Inductive, <1>1, <1>2, PTL DEF Spec, ImplementsEventDelivery, Delivery!EDSpec
=============================================================================
