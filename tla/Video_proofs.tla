---------------------------- MODULE Video_proofs ----------------------------
(***************************************************************************)
(* Proofs about a video: the job that transcodes it (TranscodeJob), for    *)
(* every number of workers, messages, deliveries, retries and faults, and  *)
(* the upload of its file (SdkUpload), for every size of file, part and    *)
(* list of parts.                                                          *)
(*                                                                         *)
(* The ownership of the job needs requests that do not overlap: without    *)
(* that hypothesis OneOwner is false, because TriggerRetry then acts on a  *)
(* status that another request has changed since.  That a queued job has   *)
(* a message needs no hypothesis, nor does anything about uploads.         *)
(***************************************************************************)
EXTENDS TranscodeJob, SdkUpload, FiniteSetTheorems, SequenceTheorems,
        WellFoundedInduction, TLAPS

(***************************************************************************)
(* The job: who owns it, what it charges and what is final.                *)
(***************************************************************************)
USE TranscodeAssumption

\* Requests for one video come one at a time.
Serialized == \A t, u \in Triggers : t = u

LEMMA InitType == Init => TypeOK
<1> SUFFICES ASSUME Init PROVE TypeOK
  OBVIOUS
<1>1. /\ msg \in [Msgs -> {"absent", "ready", "out", "done"}]
      /\ deliveries \in [Msgs -> 0..MaxDeliver]
      /\ lost \in [Msgs -> Nat]
  BY DEF Init
<1>2. slot \in [Workers -> {"idle"}] /\ holds \in [Workers -> 0..MaxMsgs]
  BY DEF Init
<1>3. givenUp \in BOOLEAN /\ abandoned \in BOOLEAN
  BY Zenon DEF Init
<1>4. QED
  BY <1>1, <1>2, <1>3 DEF Init, TypeOK

LEMMA InitIInv == Init => IInv
  BY InitType DEF Init, IInv, OneOwner, OwnerIsProcessing, Owner, ReadyIsCompleted, BilledOnce

LEMMA ForgetType ==
  ASSUME Forget
  PROVE  givenUp' \in BOOLEAN /\ lost' \in [Msgs -> Nat] /\ abandoned' \in BOOLEAN
<1>1. givenUp' \in BOOLEAN /\ abandoned' \in BOOLEAN
  BY Zenon DEF Forget
<1>2. lost' \in [Msgs -> Nat]
  BY DEF Forget
<1>3. QED
  BY <1>1, <1>2

LEMMA TriggerStep ==
  ASSUME IInv, Serialized, NEW t \in Triggers,
         TriggerCreate(t) \/ TriggerRead(t) \/ TriggerRetry(t) \/ TriggerAbort(t)
  PROVE  IInv'
<1> USE DEF IInv, TypeOK, OneOwner, OwnerIsProcessing, Owner, ReadyIsCompleted, BilledOnce
<1>1. CASE TriggerCreate(t)
  BY <1>1 DEF TriggerCreate, streamVars, history, Serialized
<1>2. CASE TriggerRead(t)
  BY <1>2 DEF TriggerRead, MayRetry, jobVars, streamVars, history
<1>3. CASE TriggerRetry(t)
  BY <1>3, ForgetType DEF TriggerRetry, streamVars, Serialized
<1>4. CASE TriggerAbort(t)
  BY <1>4 DEF TriggerAbort, jobVars, streamVars, history
<1>5. QED
  BY <1>1, <1>2, <1>3, <1>4

LEMMA StreamStep ==
  ASSUME IInv,
         \/ Relay \/ GiveUp \/ RelayAgain
         \/ \E m \in Msgs : AckWaitExpires(m) \/ \E w \in Workers : Deliver(w, m)
  PROVE  IInv'
<1> USE DEF IInv, TypeOK, OneOwner, OwnerIsProcessing, Owner, ReadyIsCompleted, BilledOnce
<1>1. CASE Relay \/ RelayAgain
  <2>1. /\ sent \in Nat /\ sent < MaxMsgs /\ sent' = sent + 1
        /\ msg' = [msg EXCEPT ![sent + 1] = "ready"]
        /\ UNCHANGED <<job, attempt, video, billed, unknown, request, givenUp, deliveries, slot,
                       holds, lost, abandoned>>
    BY <1>1 DEF Relay, RelayAgain, StoreMessage, jobVars, history
  <2>2. owed' \in Nat /\ faults' \in 0..MaxFaults
    BY <1>1 DEF Relay, RelayAgain, Fault
  <2>3. sent' \in 0..MaxMsgs
    BY <2>1
  <2>4. msg' \in [Msgs -> {"absent", "ready", "out", "done"}]
    BY <2>1
  <2>5. QED
    BY <2>1, <2>2, <2>3, <2>4
<1>2. CASE \E m \in Msgs : AckWaitExpires(m)
  BY <1>2 DEF AckWaitExpires, jobVars, apiVars, history
<1>3. CASE \E m \in Msgs, w \in Workers : Deliver(w, m)
  BY <1>3 DEF Deliver, Msgs, jobVars, apiVars, history
<1>4. CASE GiveUp
  <2>1. givenUp' \in BOOLEAN
    BY <1>4, Zenon DEF GiveUp
  <2>2. QED
    BY <1>4, <2>1 DEF GiveUp, jobVars, streamVars, history
<1>5. QED
  BY <1>1, <1>2, <1>3, <1>4

LEMMA ClaimStep ==
  ASSUME IInv, NEW w \in Workers, ClaimJob(w) \/ ClaimVideo(w)
  PROVE  IInv'
<1> USE DEF IInv, TypeOK, OneOwner, OwnerIsProcessing, Owner, ReadyIsCompleted, BilledOnce
<1>1. CASE ClaimJob(w)
  <2>1. \A v \in Workers : ~Owner(v)
    BY <1>1 DEF ClaimJob
  <2>2. QED
    BY <1>1, <2>1 DEF ClaimJob, Goto, apiVars, streamVars, history
<1>2. CASE ClaimVideo(w)
  BY <1>2 DEF ClaimVideo, Goto, apiVars, streamVars, history
<1>3. QED
  BY <1>1, <1>2

\* The books of a slot that stops where it is.
LEMMA LeaveBooks ==
  ASSUME TypeOK, NEW W \in SUBSET Workers, Leave(W)
  PROVE  /\ lost' \in [Msgs -> Nat] /\ abandoned' \in BOOLEAN
         /\ \A m \in Msgs : /\ IsFiniteSet(Receivers(m) \cap W)
                            /\ lost'[m] = lost[m] + Cardinality(Receivers(m) \cap W)
<1>1. \A m \in Msgs : {w \in W : slot[w] = "received" /\ holds[w] = m} = Receivers(m) \cap W
  BY DEF Receivers
<1>2. \A m \in Msgs : IsFiniteSet(Receivers(m) \cap W) /\ Cardinality(Receivers(m) \cap W) \in Nat
  <2>1. \A m \in Msgs : Receivers(m) \cap W \in SUBSET Workers
    BY DEF Receivers
  <2>2. QED
    BY <2>1, FS_Subset, FS_CardinalityType
<1>3. lost' = [m \in Msgs |-> lost[m] + Cardinality(Receivers(m) \cap W)]
  BY <1>1 DEF Leave
<1>4. abandoned' \in BOOLEAN
  BY DEF Leave, TypeOK
<1>5. lost \in [Msgs -> Nat]
  BY DEF TypeOK
<1>6. QED
  BY <1>2, <1>3, <1>4, <1>5

\* The slots of W are free again, their messages left where they are.
Freed(W) ==
  /\ slot' = [w \in Workers |-> IF w \in W THEN "idle" ELSE slot[w]]
  /\ holds' = [w \in Workers |-> IF w \in W THEN 0 ELSE holds[w]]
  /\ UNCHANGED <<sent, deliveries>>

\* Giving a message back leaves the rows to the caller and frees the slot.
LEMMA GiveBack ==
  ASSUME TypeOK, NEW w \in Workers, Nak(w) \/ Ack(w)
  PROVE  /\ msg' \in [Msgs -> {"absent", "ready", "out", "done"}]
         /\ \A m \in Msgs : m # holds[w] => msg'[m] = msg[m]
         /\ Freed({w})
         /\ UNCHANGED <<request, owed, givenUp>>
<1>1. msg \in [Msgs -> {"absent", "ready", "out", "done"}]
      /\ slot = [v \in Workers |-> slot[v]] /\ holds = [v \in Workers |-> holds[v]]
  BY DEF TypeOK
<1>2. /\ slot' = [slot EXCEPT ![w] = "idle"]
      /\ holds' = [holds EXCEPT ![w] = 0]
      /\ UNCHANGED <<request, owed, givenUp, sent, deliveries>>
  BY DEF Nak, Ack, Release, apiVars
<1>3. Freed({w})
  BY <1>1, <1>2 DEF Freed
<1>4. msg' \in [Msgs -> {"absent", "ready", "out", "done"}]
      /\ \A m \in Msgs : m # holds[w] => msg'[m] = msg[m]
  BY <1>1 DEF Nak, Ack
<1>5. QED
  BY <1>2, <1>3, <1>4

LEMMA GiveBackStep ==
  ASSUME IInv, NEW w \in Workers,
         ClaimRefused(w) \/ StartError(w) \/ AckDone(w)
  PROVE  IInv'
<1>1. /\ UNCHANGED <<job, attempt, video, billed, unknown, faults>>
      /\ Nak(w) \/ Ack(w)
      /\ Leave({w}) \/ UNCHANGED <<lost, abandoned>>
  BY DEF ClaimRefused, StartError, AckDone, jobVars, history
<1>2. lost' \in [Msgs -> Nat] /\ abandoned' \in BOOLEAN
  BY <1>1, LeaveBooks DEF IInv, TypeOK
<1>3. QED
  BY <1>1, <1>2, GiveBack
     DEF IInv, TypeOK, OneOwner, OwnerIsProcessing, Owner, ReadyIsCompleted, BilledOnce, Freed

LEMMA CrashStep ==
  ASSUME IInv, NEW W \in SUBSET Workers, Crash(W)
  PROVE  IInv'
<1>1. /\ Freed(W)
      /\ UNCHANGED <<job, attempt, video, billed, unknown, request, owed, givenUp, msg>>
      /\ faults' \in 0..MaxFaults
  BY DEF Crash, Fault, Freed, IInv, TypeOK, jobVars, apiVars, streamVars
<1>2. lost' \in [Msgs -> Nat] /\ abandoned' \in BOOLEAN
  BY LeaveBooks DEF Crash, IInv
<1>3. QED
  BY <1>1, <1>2
     DEF IInv, TypeOK, OneOwner, OwnerIsProcessing, Owner, ReadyIsCompleted, BilledOnce, Freed

LEMMA PhaseStep ==
  ASSUME IInv, NEW w \in Workers, PhaseFails(w) \/ Complete(w) \/ CompleteUnknown(w)
  PROVE  IInv'
<1> USE DEF IInv, TypeOK, OneOwner, OwnerIsProcessing, Owner, ReadyIsCompleted, BilledOnce
<1>1. slot[w] = "working" /\ job = "processing" /\ billed <= unknown
  BY DEF PhaseFails, Complete, CompleteUnknown
<1>2. \A v \in Workers : Owner(v) => v = w
  BY <1>1
<1>3. CASE PhaseFails(w)
  BY <1>1, <1>3 DEF PhaseFails, Goto, jobVars, apiVars, streamVars, history
<1>4. CASE Complete(w)
  BY <1>1, <1>2, <1>4 DEF Complete, CompletedRows, Goto, apiVars, streamVars, history
<1>5. CASE CompleteUnknown(w)
  BY <1>1, <1>2, <1>5 DEF CompleteUnknown, CompletedRows, Goto, Fault, apiVars, streamVars, history
<1>6. QED
  BY <1>3, <1>4, <1>5

LEMMA FailStep ==
  ASSUME IInv, NEW w \in Workers, FailJob(w) \/ FailVideo(w) \/ FailError(w)
  PROVE  IInv'
<1> USE DEF IInv, TypeOK, OneOwner, OwnerIsProcessing, Owner, ReadyIsCompleted, BilledOnce
<1>1. CASE FailJob(w)
  <2>1. \A v \in Workers : Owner(v) => v = w
    BY <1>1 DEF FailJob
  <2>2. QED
    BY <1>1, <2>1 DEF FailJob, Goto, apiVars, streamVars, history
<1>2. CASE FailVideo(w)
  BY <1>2, GiveBack DEF FailVideo, Freed, history
<1>3. CASE FailError(w) /\ slot[w] = "failing"
  <2>1. abandoned' \in BOOLEAN
    BY <1>3, Zenon DEF FailError
  <2> QED
    BY <1>3, <2>1 DEF FailError, Goto, jobVars, apiVars, streamVars, history
<1>4. CASE FailError(w) /\ slot[w] = "failing_video"
  BY <1>4, GiveBack DEF FailError, Freed, jobVars
<1>5. QED
  BY <1>1, <1>2, <1>3, <1>4 DEF FailError

LEMMA NextIInv == IInv /\ Serialized /\ [Next]_vars => IInv'
<1> SUFFICES ASSUME IInv, Serialized, [Next]_vars
             PROVE  IInv'
  OBVIOUS
<1>1. CASE UNCHANGED vars
  BY <1>1 DEF vars, IInv, TypeOK, OneOwner, OwnerIsProcessing, Owner, ReadyIsCompleted, BilledOnce
<1>2. CASE Next
  BY <1>2, TriggerStep, StreamStep, ClaimStep, GiveBackStep, CrashStep, PhaseStep, FailStep
     DEF Next, ProcessStep
<1>3. QED
  BY <1>1, <1>2

\* With one request at a time the invariant holds throughout.
THEOREM Inductive == ASSUME Serialized PROVE Spec => []IInv
  BY InitIInv, NextIInv, PTL DEF Spec

\* At most one worker processes the job, and while it does the job is processing.
THEOREM Exclusivity == ASSUME Serialized PROVE Spec => [](OneOwner /\ OwnerIsProcessing)
<1>1. IInv => OneOwner /\ OwnerIsProcessing
  BY DEF IInv
<1>2. QED
  BY Inductive, <1>1, PTL

\* The video is charged once, but for commits the worker did not learn of.
THEOREM ChargedOnce == ASSUME Serialized PROVE Spec => []BilledOnce
<1>1. IInv => BilledOnce
  BY DEF IInv
<1>2. QED
  BY Inductive, <1>1, PTL

\* A ready video has a completed job, with the same exception.
THEOREM ReadyMeansCompleted == ASSUME Serialized PROVE Spec => []ReadyIsCompleted
<1>1. IInv => ReadyIsCompleted
  BY DEF IInv
<1>2. QED
  BY Inductive, <1>1, PTL

\* A completed job changes only after a commit the worker did not learn of: every
\* other statement on the job meets it queued, processing or failed.
LEMMA CompletedStays ==
  ASSUME IInv, [Next]_vars, job = "completed", unknown = 0
  PROVE  job' = job
<1>1. \A t \in Triggers : request[t] # "retry"
  BY DEF IInv
<1>2. \A w \in Workers : ~Owner(w)
  BY DEF IInv, OwnerIsProcessing, TypeOK
<1>3. CASE UNCHANGED vars
  BY <1>3 DEF vars
<1>4. CASE \E t \in Triggers : \/ TriggerCreate(t) \/ TriggerRead(t)
                              \/ TriggerRetry(t) \/ TriggerAbort(t)
  BY <1>1, <1>4 DEF TriggerCreate, TriggerRead, TriggerRetry, TriggerAbort, jobVars
<1>5. CASE \/ Relay \/ GiveUp \/ RelayAgain
           \/ \E m \in Msgs : AckWaitExpires(m) \/ \E w \in Workers : Deliver(w, m)
  BY <1>5 DEF Relay, GiveUp, RelayAgain, StoreMessage, AckWaitExpires, Deliver, jobVars
<1>6. CASE \E w \in Workers : \/ ClaimJob(w) \/ ClaimVideo(w) \/ PhaseFails(w) \/ Complete(w)
                             \/ CompleteUnknown(w) \/ FailJob(w)
  BY <1>2, <1>6
     DEF ClaimJob, ClaimVideo, PhaseFails, Complete, CompleteUnknown, FailJob, Owner, jobVars
<1>7. CASE \/ \E w \in Workers : \/ ClaimRefused(w) \/ StartError(w) \/ AckDone(w) \/ FailVideo(w)
                             \/ FailError(w)
            \/ \E W \in SUBSET Workers : Crash(W)
  BY <1>7 DEF ClaimRefused, StartError, AckDone, FailVideo, FailError, Crash, jobVars
<1>8. QED
  BY <1>3, <1>4, <1>5, <1>6, <1>7 DEF Next, ProcessStep

\* A completed job is final, with the same exception.
THEOREM CompletionIsFinal == ASSUME Serialized PROVE Spec => CompletedIsFinal
<1>1. IInv /\ [Next]_vars => [job = "completed" /\ job' # job => unknown > 0]_vars
  BY CompletedStays DEF IInv, TypeOK
<1>2. QED
  BY Inductive, <1>1, PTL DEF Spec, CompletedIsFinal

(***************************************************************************)
(* The stream: a queued job has a message that will reach a worker.        *)
(***************************************************************************)
LEMMA InitCarried == Init => CarriedIInv
<1> SUFFICES ASSUME Init PROVE CarriedIInv
  OBVIOUS
<1>1. TypeOK
  BY InitType
<1>2. StreamIsSound
  BY DEF Init, StreamIsSound, Msgs
<1>3. QED
  BY <1>1, <1>2 DEF CarriedIInv, Init

LEMMA ReceiversAreFinite ==
  ASSUME NEW m \in Msgs
  PROVE  IsFiniteSet(Receivers(m)) /\ Cardinality(Receivers(m)) \in Nat
<1>1. Receivers(m) \in SUBSET Workers
  BY DEF Receivers
<1>2. QED
  BY <1>1, FS_Subset, FS_CardinalityType

\* A step that changes rows, and at most where one slot stands that has claimed.
RowStep ==
  /\ UNCHANGED <<sent, msg, deliveries, holds>>
  /\ \/ UNCHANGED slot
     \/ \E w \in Workers :
          /\ slot[w] \notin {"idle", "received"}
          /\ \E s \in {"working", "failing", "failing_video", "acking"} :
               slot' = [slot EXCEPT ![w] = s]

LEMMA RowStepKeeps ==
  ASSUME TypeOK, StreamIsSound, RowStep
  PROVE  StreamIsSound' /\ (lost' = lost => \A m \in Msgs : Carrier(m) => Carrier(m)')
<1>1. \A w \in Workers : /\ slot'[w] = "idle" <=> slot[w] = "idle"
                         /\ slot'[w] = "received" <=> slot[w] = "received"
  BY DEF RowStep, TypeOK
<1>2. StreamIsSound'
  BY <1>1 DEF RowStep, StreamIsSound
<1>3. ASSUME lost' = lost, NEW m \in Msgs, Carrier(m) PROVE Carrier(m)'
  <2>1. Receivers(m)' = Receivers(m)
    BY <1>1 DEF RowStep, Receivers
  <2>2. QED
    BY <1>1, <1>3, <2>1 DEF Carrier, RowStep
<1>4. QED
  BY <1>2, <1>3

\* Slots that give their messages back, acknowledge them or lose them.
LEMMA ReleaseIsSound ==
  ASSUME TypeOK, StreamIsSound, NEW W \in SUBSET Workers, \A w \in W : slot[w] # "idle", Freed(W),
         \A m \in Msgs : (\A w \in W : m # holds[w]) => msg'[m] = msg[m]
  PROVE  StreamIsSound'
<1>1. /\ \A w \in Workers : holds[w] \in 0..MaxMsgs /\ holds[w] <= sent
      /\ sent \in Nat /\ sent' = sent /\ deliveries' = deliveries
  BY DEF StreamIsSound, TypeOK, Freed
<1>2. ASSUME NEW m \in Msgs, m > sent' PROVE msg'[m] = "absent" /\ deliveries'[m] = 0
  <2>1. \A w \in W : m # holds[w]
    BY <1>1, <1>2 DEF Msgs
  <2>2. QED
    BY <1>1, <1>2, <2>1 DEF StreamIsSound
<1>3. \A v \in Workers : holds'[v] <= sent' /\ (slot'[v] = "idle" <=> holds'[v] = 0)
  BY <1>1 DEF StreamIsSound, Freed
<1>4. QED
  BY <1>2, <1>3 DEF StreamIsSound

\* Slots that end their messages leave the carriers, and a delivery that one of them
\* had received and not acted on is counted as lost.
LEMMA ReleaseKeeps ==
  ASSUME TypeOK, StreamIsSound, NEW W \in SUBSET Workers, \A w \in W : slot[w] # "idle", Freed(W),
         \A m \in Msgs : (\A w \in W : m # holds[w]) => msg'[m] = msg[m],
         \A m \in Msgs : Carrier(m) => msg'[m] \in {"ready", "out"},
         \A m \in Msgs : lost'[m] = lost[m] + Cardinality(Receivers(m) \cap W)
  PROVE  StreamIsSound' /\ \A m \in Msgs : Carrier(m) => Carrier(m)'
<1>1. StreamIsSound'
  BY ReleaseIsSound
<1>2. ASSUME NEW m \in Msgs, Carrier(m) PROVE Carrier(m)'
  <2>1. deliveries'[m] = deliveries[m] /\ deliveries[m] \in Nat /\ lost[m] \in Nat
    BY DEF TypeOK, Freed
  <2>2. \A v \in Workers : holds'[v] = m => slot'[v] = "received"
    BY <1>2 DEF Carrier, Msgs, Freed
  <2>3. Receivers(m)' = Receivers(m) \ W
    BY DEF Receivers, Freed, Msgs
  <2>4. /\ Cardinality(Receivers(m) \cap W) \in Nat
        /\ Cardinality(Receivers(m) \ W) \in Nat
        /\ Cardinality(Receivers(m) \ W)
             = Cardinality(Receivers(m)) - Cardinality(Receivers(m) \cap W)
    BY ReceiversAreFinite, FS_Difference, FS_Intersection, FS_CardinalityType, FS_Subset
  <2>5. deliveries'[m] <= lost'[m] + Cardinality(Receivers(m)')
    BY <1>2, <2>1, <2>3, <2>4, ReceiversAreFinite DEF Carrier
  <2>6. QED
    BY <1>2, <2>2, <2>5 DEF Carrier
<1>3. QED
  BY <1>1, <1>2

LEMMA StoreKeeps ==
  ASSUME TypeOK, StreamIsSound, Relay \/ RelayAgain
  PROVE  StreamIsSound' /\ (\A m \in Msgs : Carrier(m) => Carrier(m)') /\ \E m \in Msgs : Carrier(m)'
<1>1. /\ sent \in Nat /\ sent + 1 \in Msgs /\ sent' = sent + 1
      /\ msg' = [msg EXCEPT ![sent + 1] = "ready"]
      /\ UNCHANGED <<slot, holds, deliveries, lost>>
  BY DEF Relay, RelayAgain, StoreMessage, TypeOK, Msgs, history
<1>2. \A w \in Workers : holds[w] \in Nat /\ holds[w] <= sent
  BY DEF StreamIsSound, TypeOK
<1>3. StreamIsSound'
  <2>1. \A m \in Msgs : m > sent' => msg'[m] = "absent" /\ deliveries'[m] = 0
    BY <1>1 DEF StreamIsSound, Msgs, TypeOK
  <2>2. \A v \in Workers : holds'[v] <= sent' /\ (slot'[v] = "idle" <=> holds'[v] = 0)
    BY <1>1, <1>2 DEF StreamIsSound
  <2>3. QED
    BY <1>1, <2>1, <2>2 DEF StreamIsSound
<1>4. \A m \in Msgs : Receivers(m)' = Receivers(m)
  BY <1>1 DEF Receivers
<1>5. ASSUME NEW m \in Msgs, Carrier(m) PROVE Carrier(m)'
  <2>1. m # sent + 1
    BY <1>1, <1>5 DEF Carrier, StreamIsSound
  <2>2. deliveries'[m] <= lost'[m] + Cardinality(Receivers(m)')
    BY <1>1, <1>4, <1>5 DEF Carrier
  <2>3. QED
    BY <1>1, <1>5, <2>1, <2>2 DEF Carrier, TypeOK
<1>6. PICK n \in Msgs : n = sent + 1
  BY <1>1
<1>7. Carrier(n)'
  <2>1. deliveries'[n] = 0 /\ msg'[n] = "ready"
    BY <1>1, <1>6 DEF StreamIsSound, TypeOK
  <2>2. \A w \in Workers : holds'[w] # n
    BY <1>1, <1>2, <1>6
  <2>3. Cardinality(Receivers(n)') \in Nat /\ lost'[n] \in Nat
    BY <1>1, <1>4, ReceiversAreFinite DEF TypeOK
  <2>4. QED
    BY <1>1, <2>1, <2>2, <2>3 DEF Carrier
<1>8. QED
  BY <1>3, <1>5, <1>7

LEMMA DeliverKeeps ==
  ASSUME TypeOK, StreamIsSound, NEW w \in Workers, NEW n \in Msgs, Deliver(w, n)
  PROVE  StreamIsSound' /\ \A m \in Msgs : Carrier(m) => Carrier(m)'
<1>1. /\ slot[w] = "idle" /\ msg[n] = "ready" /\ deliveries[n] < MaxDeliver
      /\ msg' = [msg EXCEPT ![n] = "out"]
      /\ deliveries' = [deliveries EXCEPT ![n] = deliveries[n] + 1]
      /\ slot' = [slot EXCEPT ![w] = "received"]
      /\ holds' = [holds EXCEPT ![w] = n]
      /\ UNCHANGED <<sent, lost>>
  BY DEF Deliver, history
<1>2. n <= sent /\ n # 0 /\ holds[w] = 0
  BY <1>1 DEF StreamIsSound, TypeOK, Msgs
<1>3. StreamIsSound'
  <2>1. \A m \in Msgs : m > sent' => msg'[m] = "absent" /\ deliveries'[m] = 0
    BY <1>1, <1>2 DEF StreamIsSound, TypeOK, Msgs
  <2>2. \A v \in Workers : holds'[v] <= sent' /\ (slot'[v] = "idle" <=> holds'[v] = 0)
    BY <1>1, <1>2 DEF StreamIsSound, TypeOK
  <2>3. QED
    BY <2>1, <2>2 DEF StreamIsSound
<1>4. ASSUME NEW m \in Msgs, Carrier(m) PROVE Carrier(m)'
  <2>1. deliveries[m] \in Nat /\ lost[m] \in Nat
    BY DEF TypeOK
  <2>2. msg'[m] \in {"ready", "out"} /\ \A v \in Workers : holds'[v] = m => slot'[v] = "received"
    BY <1>1, <1>4 DEF Carrier, TypeOK
  <2>3. CASE m = n
    <3>1. Receivers(m)' = Receivers(m) \cup {w} /\ w \notin Receivers(m)
      BY <1>1, <2>3 DEF Receivers, TypeOK
    <3>2. Cardinality(Receivers(m)') = Cardinality(Receivers(m)) + 1
      BY <3>1, ReceiversAreFinite, FS_AddElement
    <3>3. deliveries'[m] = deliveries[m] + 1
      BY <1>1, <2>3 DEF TypeOK
    <3>4. deliveries'[m] <= lost'[m] + Cardinality(Receivers(m)')
      BY <1>1, <1>4, <2>1, <3>2, <3>3, ReceiversAreFinite DEF Carrier
    <3>5. QED
      BY <2>2, <3>4 DEF Carrier
  <2>4. CASE m # n
    <3>1. Receivers(m)' = Receivers(m)
      BY <1>1, <2>4 DEF Receivers, TypeOK
    <3>2. deliveries'[m] = deliveries[m]
      BY <1>1, <2>4 DEF TypeOK
    <3>3. deliveries'[m] <= lost'[m] + Cardinality(Receivers(m)')
      BY <1>1, <1>4, <3>1, <3>2 DEF Carrier
    <3>4. QED
      BY <2>2, <3>3 DEF Carrier
  <2>5. QED
    BY <2>3, <2>4
<1>5. QED
  BY <1>3, <1>4

LEMMA AckWaitKeeps ==
  ASSUME TypeOK, StreamIsSound, NEW n \in Msgs, AckWaitExpires(n)
  PROVE  StreamIsSound' /\ \A m \in Msgs : Carrier(m) => Carrier(m)'
<1>1. /\ msg[n] = "out" /\ msg' = [msg EXCEPT ![n] = "ready"]
      /\ UNCHANGED <<sent, deliveries, slot, holds, lost>>
  BY DEF AckWaitExpires, history
<1>2. StreamIsSound'
  BY <1>1 DEF StreamIsSound, TypeOK
<1>3. \A m \in Msgs : Receivers(m)' = Receivers(m)
  BY <1>1 DEF Receivers
<1>4. QED
  BY <1>1, <1>2, <1>3 DEF Carrier, TypeOK

\* The claim uses its message up, and the job is queued no more.
LEMMA ClaimKeeps ==
  ASSUME TypeOK, StreamIsSound, NEW w \in Workers, ClaimJob(w)
  PROVE  StreamIsSound' /\ job' # "queued"
  BY DEF ClaimJob, Goto, streamVars, StreamIsSound, TypeOK

\* Where every step leaves the values of the variables.
LEMMA NextType == TypeOK /\ [Next]_vars => TypeOK'
<1> SUFFICES ASSUME TypeOK, [Next]_vars PROVE TypeOK'
  OBVIOUS
<1> USE DEF TypeOK
<1>1. CASE UNCHANGED vars
  BY <1>1 DEF vars
<1>2. CASE \E t \in Triggers : \/ TriggerCreate(t) \/ TriggerRead(t)
                              \/ TriggerRetry(t) \/ TriggerAbort(t)
  BY <1>2, ForgetType DEF TriggerCreate, TriggerRead, TriggerRetry, TriggerAbort, jobVars,
                          streamVars, history
<1>3. CASE Relay \/ RelayAgain
  <2>1. /\ sent \in Nat /\ sent < MaxMsgs /\ sent' = sent + 1
        /\ msg' = [msg EXCEPT ![sent + 1] = "ready"]
        /\ UNCHANGED <<job, attempt, video, billed, unknown, request, givenUp, deliveries, slot,
                       holds, lost, abandoned>>
    BY <1>3 DEF Relay, RelayAgain, StoreMessage, jobVars, history
  <2>2. owed' \in Nat /\ faults' \in 0..MaxFaults /\ sent' \in 0..MaxMsgs
    BY <1>3, <2>1 DEF Relay, RelayAgain, Fault
  <2>3. msg' \in [Msgs -> {"absent", "ready", "out", "done"}]
    BY <2>1
  <2>4. QED
    BY <2>1, <2>2, <2>3
<1>4. CASE \E m \in Msgs : AckWaitExpires(m) \/ \E w \in Workers : Deliver(w, m)
  <2>1. CASE \E m \in Msgs : AckWaitExpires(m)
    BY <2>1 DEF AckWaitExpires, jobVars, apiVars, history
  <2>2. ASSUME NEW m \in Msgs, NEW w \in Workers, Deliver(w, m) PROVE TypeOK'
    <3>1. /\ msg' \in [Msgs -> {"absent", "ready", "out", "done"}]
          /\ deliveries' \in [Msgs -> 0..MaxDeliver]
          /\ holds' \in [Workers -> 0..MaxMsgs]
      BY <2>2 DEF Deliver, Msgs
    <3>2. QED
      BY <2>2, <3>1 DEF Deliver, jobVars, apiVars, history
  <2>3. QED
    BY <1>4, <2>1, <2>2
<1>5. ASSUME NEW w \in Workers, \/ ProcessStep(w) \/ CompleteUnknown(w) \/ FailError(w)
                                \/ StartError(w)
      PROVE  TypeOK'
  <2>1. CASE \/ ClaimJob(w) \/ ClaimVideo(w) \/ PhaseFails(w) \/ Complete(w)
             \/ CompleteUnknown(w) \/ FailJob(w) \/ (FailError(w) /\ slot[w] = "failing")
    <3>1. abandoned' \in BOOLEAN
      BY <2>1, Zenon DEF ClaimJob, ClaimVideo, PhaseFails, Complete, CompleteUnknown, FailJob,
                         FailError, history
    <3>2. QED
      BY <2>1, <3>1 DEF ClaimJob, ClaimVideo, PhaseFails, Complete, CompleteUnknown, FailJob, FailError,
                CompletedRows, Goto, Fault, jobVars, apiVars, streamVars, history
  <2>2. CASE \/ ClaimRefused(w) \/ StartError(w) \/ AckDone(w) \/ FailVideo(w)
             \/ (FailError(w) /\ slot[w] = "failing_video")
    <3>1. Nak(w) \/ Ack(w)
      BY <2>2 DEF ClaimRefused, StartError, AckDone, FailVideo, FailError
    <3>2. /\ UNCHANGED <<job, attempt, billed, unknown, faults>>
          /\ video' \in {video, "failed"}
          /\ Leave({w}) \/ UNCHANGED <<lost, abandoned>>
      BY <2>2 DEF ClaimRefused, StartError, AckDone, FailVideo, FailError, jobVars, history
    <3>3. lost' \in [Msgs -> Nat] /\ abandoned' \in BOOLEAN
      BY <3>2, LeaveBooks
    <3>4. QED
      BY <3>1, <3>2, <3>3, GiveBack DEF Freed
  <2>3. QED
    BY <1>5, <2>1, <2>2 DEF ProcessStep, FailError
<1>6. ASSUME NEW W \in SUBSET Workers, Crash(W)
      PROVE  TypeOK'
  <2>1. lost' \in [Msgs -> Nat] /\ abandoned' \in BOOLEAN
    BY <1>6, LeaveBooks DEF Crash
  <2>2. QED
    BY <1>6, <2>1 DEF Crash, Fault, jobVars, apiVars, streamVars
<1>7. CASE GiveUp
  <2>1. givenUp' \in BOOLEAN
    BY <1>7, Zenon DEF GiveUp
  <2>2. QED
    BY <1>7, <2>1 DEF GiveUp, jobVars, streamVars, history
<1>8. QED
  BY <1>1, <1>2, <1>3, <1>4, <1>5, <1>6, <1>7 DEF Next

\* The variables keep their types, whether requests overlap or not.
THEOREM TypeCorrect == Spec => []TypeOK
<1>1. Init => TypeOK
  BY InitCarried DEF CarriedIInv
<1>2. QED
  BY <1>1, NextType, PTL DEF Spec

LEMMA NextCarried == CarriedIInv /\ [Next]_vars => CarriedIInv'
<1> SUFFICES ASSUME CarriedIInv, [Next]_vars PROVE CarriedIInv'
  OBVIOUS
<1>1. TypeOK /\ StreamIsSound /\ TypeOK' /\ owed \in Nat
  BY NextType DEF CarriedIInv, TypeOK
<1>2. ASSUME StreamIsSound', \A m \in Msgs : Carrier(m) => Carrier(m)',
             job' = job \/ job' # "queued", owed' = owed, givenUp' = givenUp
      PROVE  CarriedIInv'
  BY <1>1, <1>2 DEF CarriedIInv
<1>3. CASE UNCHANGED vars
  <2>1. StreamIsSound' /\ \A m \in Msgs : Carrier(m) => Carrier(m)'
    BY <1>1, <1>3 DEF vars, StreamIsSound, Carrier, Receivers
  <2>2. QED
    BY <1>2, <1>3, <2>1 DEF vars
<1>4. ASSUME NEW t \in Triggers,
             TriggerCreate(t) \/ TriggerRead(t) \/ TriggerRetry(t) \/ TriggerAbort(t)
      PROVE  CarriedIInv'
  <2>1. /\ RowStep
        /\ \/ UNCHANGED <<owed, job, givenUp, lost>>
           \/ owed' = owed + 1
    BY <1>4 DEF TriggerCreate, TriggerRead, TriggerRetry, TriggerAbort, RowStep, streamVars, jobVars,
                history
  <2>2. StreamIsSound' /\ (lost' = lost => \A m \in Msgs : Carrier(m) => Carrier(m)')
    BY <1>1, <2>1, RowStepKeeps
  <2>3. QED
    BY <1>1, <1>2, <2>1, <2>2 DEF CarriedIInv
<1>5. CASE Relay \/ RelayAgain
  BY <1>1, <1>5, StoreKeeps DEF CarriedIInv
<1>6. CASE GiveUp
  BY <1>1, <1>6 DEF GiveUp, CarriedIInv, StreamIsSound, streamVars
<1>7. CASE \E m \in Msgs : AckWaitExpires(m) \/ \E w \in Workers : Deliver(w, m)
  <2>1. StreamIsSound' /\ \A m \in Msgs : Carrier(m) => Carrier(m)'
    BY <1>1, <1>7, DeliverKeeps, AckWaitKeeps
  <2>2. job' = job /\ owed' = owed /\ givenUp' = givenUp
    BY <1>7 DEF AckWaitExpires, Deliver, jobVars, apiVars
  <2>3. QED
    BY <1>2, <2>1, <2>2
<1>8. ASSUME NEW w \in Workers, ClaimJob(w) PROVE CarriedIInv'
  BY <1>1, <1>8, ClaimKeeps DEF CarriedIInv
<1>9. ASSUME NEW w \in Workers,
             \/ ClaimVideo(w) \/ PhaseFails(w) \/ Complete(w) \/ CompleteUnknown(w) \/ FailJob(w)
             \/ (FailError(w) /\ slot[w] = "failing")
      PROVE  CarriedIInv'
  <2>1. /\ RowStep /\ UNCHANGED <<owed, givenUp, lost>>
        /\ job' # "queued" \/ job' = job
    BY <1>9 DEF ClaimVideo, PhaseFails, Complete, CompleteUnknown, CompletedRows, FailJob,
                FailError, RowStep, Goto, jobVars, apiVars, streamVars, history
  <2>2. StreamIsSound' /\ \A m \in Msgs : Carrier(m) => Carrier(m)'
    BY <1>1, <2>1, RowStepKeeps
  <2>3. QED
    BY <1>2, <2>1, <2>2
<1>10. ASSUME NEW w \in Workers, ClaimRefused(w) PROVE CarriedIInv'
  <2>1. slot[w] = "received" /\ Nak(w) /\ job # "queued" /\ job' = job
    BY <1>10 DEF ClaimRefused, jobVars
  <2>2. StreamIsSound'
    BY <1>1, <2>1, GiveBack, ReleaseIsSound
  <2>3. QED
    BY <1>1, <2>1, <2>2 DEF CarriedIInv
<1>11. ASSUME NEW w \in Workers,
              StartError(w) \/ AckDone(w) \/ FailVideo(w) \/ (FailError(w) /\ slot[w] = "failing_video")
       PROVE  CarriedIInv'
  <2>1. /\ job' = job /\ slot[w] # "idle"
        /\ Nak(w) \/ (Ack(w) /\ slot[w] # "received")
        /\ Leave({w}) \/ (lost' = lost /\ slot[w] # "received")
    BY <1>11 DEF StartError, AckDone, FailVideo, FailError, jobVars, history
  <2>2. ASSUME NEW m \in Msgs, Carrier(m) PROVE msg'[m] \in {"ready", "out"}
    <3>1. holds[w] = m => Nak(w)
      BY <2>1, <2>2 DEF Carrier
    <3>2. CASE holds[w] = m
      BY <1>1, <2>2, <3>1, <3>2 DEF Nak, Carrier, TypeOK
    <3>3. CASE holds[w] # m
      BY <1>1, <2>1, <2>2, <3>3, GiveBack DEF Carrier
    <3>4. QED
      BY <3>2, <3>3
  <2>3. ASSUME NEW m \in Msgs PROVE lost'[m] = lost[m] + Cardinality(Receivers(m) \cap {w})
    <3>1. CASE Leave({w})
      BY <1>1, <3>1, LeaveBooks
    <3>2. CASE lost' = lost /\ slot[w] # "received"
      <4>1. Receivers(m) \cap {w} = {} /\ lost[m] \in Nat
        BY <1>1, <3>2 DEF Receivers, TypeOK
      <4>2. QED
        BY <3>2, <4>1, FS_EmptySet
    <3>3. QED
      BY <2>1, <3>1, <3>2
  <2>4. StreamIsSound' /\ \A m \in Msgs : Carrier(m) => Carrier(m)'
    BY <1>1, <2>1, <2>2, <2>3, GiveBack, ReleaseKeeps
  <2>5. QED
    BY <1>1, <1>2, <2>1, <2>4, GiveBack
<1>12. ASSUME NEW W \in SUBSET Workers, Crash(W) PROVE CarriedIInv'
  <2>1. /\ \A w \in W : slot[w] # "idle"
        /\ Freed(W) /\ Leave(W)
        /\ UNCHANGED <<job, owed, givenUp, msg>>
    BY <1>12 DEF Crash, Freed, jobVars, apiVars, streamVars
  <2>2. \A m \in Msgs : lost'[m] = lost[m] + Cardinality(Receivers(m) \cap W)
    BY <1>1, <2>1, LeaveBooks
  <2>3. \A m \in Msgs : Carrier(m) => msg'[m] \in {"ready", "out"}
    BY <2>1 DEF Carrier
  <2>4. StreamIsSound' /\ \A m \in Msgs : Carrier(m) => Carrier(m)'
    BY <1>1, <2>1, <2>2, <2>3, ReleaseKeeps
  <2>5. QED
    BY <1>2, <2>1, <2>4
<1>13. QED
  BY <1>3, <1>4, <1>5, <1>6, <1>7, <1>8, <1>9, <1>10, <1>11, <1>12 DEF Next, ProcessStep, FailError

\* A queued job has an event or a carrier, unless its event was given up.
THEOREM Carried == Spec => []CarriedIInv
  BY InitCarried, NextCarried, PTL DEF Spec

\* A queued job is stranded by a dead letter or by a message that was lost in all of
\* its deliveries, and by nothing else: otherwise an event, a message or a slot can
\* still bring it to a worker.
THEOREM QueuedReachable == Spec => []QueuedIsReachable
<1>1. CarriedIInv => QueuedIsReachable
  <2> SUFFICES ASSUME CarriedIInv, job = "queued", ~givenUp, owed = 0,
                      \A m \in Msgs : ~Exhausted(m), \A w \in Workers : slot[w] # "received"
               PROVE  \E m \in Msgs : msg[m] \in {"ready", "out"} /\ deliveries[m] < MaxDeliver
    BY DEF QueuedIsReachable, CarriedIInv, TypeOK
  <2>1. PICK m \in Msgs : Carrier(m)
    BY DEF CarriedIInv
  <2>2. Cardinality(Receivers(m)) = 0
    <3>1. Receivers(m) = {}
      BY DEF Receivers
    <3>2. QED
      BY <3>1, FS_EmptySet
  <2>3. lost[m] \in Nat /\ deliveries[m] \in Nat /\ MaxDeliver \in Nat
    BY DEF CarriedIInv, TypeOK
  <2>4. QED
    BY <2>1, <2>2, <2>3 DEF Carrier, Exhausted
<1>2. QED
  BY <1>1, Carried, PTL

(***************************************************************************)
(* The starts: what overlapping requests can cost.                         *)
(***************************************************************************)
LEMMA InitStarts ==
  ASSUME Init, IsFiniteSet(Triggers)
  PROVE  StartsIInv
<1>1. TypeOK
  BY InitType
<1>2. Chargers = {} /\ Retriers = {}
  BY DEF Init, Chargers, Retriers
<1> QED
  BY <1>1, <1>2, FS_EmptySet DEF Init, StartsIInv

\* What a step does to the slots that may charge and to what has been charged.
LEMMA ChargersStep ==
  ASSUME TypeOK, [Next]_vars
  PROVE  \/ /\ Chargers' \subseteq Chargers /\ UNCHANGED <<billed, attempt>>
            /\ job' = job \/ job' \notin {"none", "queued"}
         \/ /\ Chargers' = Chargers /\ UNCHANGED billed /\ job' = "queued"
            /\ (job = "none" /\ attempt' = attempt) \/ attempt' = attempt + 1
         \/ /\ \E w \in Workers \ Chargers : Chargers' = Chargers \cup {w}
            /\ job = "queued" /\ job' = "processing" /\ UNCHANGED <<billed, attempt>>
         \/ /\ \E w \in Chargers : Chargers' = Chargers \ {w}
            /\ billed' = billed + 1 /\ job' = "completed" /\ UNCHANGED attempt
<1>1. CASE UNCHANGED vars
  BY <1>1 DEF vars, Chargers
<1>2. CASE \E t \in Triggers : \/ TriggerCreate(t) \/ TriggerRead(t)
                              \/ TriggerRetry(t) \/ TriggerAbort(t)
  BY <1>2 DEF TriggerCreate, TriggerRead, TriggerRetry, TriggerAbort, jobVars, Chargers
<1>3. CASE Relay \/ GiveUp \/ RelayAgain \/ \E m \in Msgs : AckWaitExpires(m)
  BY <1>3 DEF Relay, GiveUp, RelayAgain, StoreMessage, AckWaitExpires, jobVars, Chargers
<1>4. ASSUME NEW w \in Workers, NEW s, slot' = [slot EXCEPT ![w] = s], s \notin {"claimed", "working"}
      PROVE  Chargers' = Chargers \ {w}
  BY <1>4 DEF TypeOK, Chargers
<1>5. ASSUME NEW w \in Workers, NEW s, slot' = [slot EXCEPT ![w] = s], s \in {"claimed", "working"}
      PROVE  Chargers' = Chargers \cup {w}
  BY <1>5 DEF TypeOK, Chargers
<1>6. ASSUME NEW w \in Workers,
             \/ \E m \in Msgs : Deliver(w, m)
             \/ ClaimRefused(w) \/ PhaseFails(w) \/ AckDone(w) \/ FailJob(w) \/ FailVideo(w)
             \/ StartError(w) \/ FailError(w)
      PROVE  /\ \E s \in {"idle", "received", "failing", "failing_video"} : slot' = [slot EXCEPT ![w] = s]
             /\ UNCHANGED <<billed, attempt>>
             /\ job' = job \/ job' = "failed"
  BY <1>6 DEF Deliver, ClaimRefused, PhaseFails, AckDone, FailJob, FailVideo, StartError, FailError,
              Nak, Ack, Release, Goto, jobVars
<1>7. ASSUME NEW w \in Workers, ClaimJob(w)
      PROVE  /\ Chargers' = Chargers \cup {w} /\ w \notin Chargers
             /\ job = "queued" /\ job' = "processing" /\ UNCHANGED <<billed, attempt>>
  BY <1>5, <1>7 DEF ClaimJob, Goto, Chargers
<1>8. ASSUME NEW w \in Workers, ClaimVideo(w)
      PROVE  Chargers' = Chargers /\ UNCHANGED <<billed, attempt, job>>
  <2>1. slot[w] = "claimed" /\ slot' = [slot EXCEPT ![w] = "working"] /\ UNCHANGED <<billed, attempt, job>>
    BY <1>8 DEF ClaimVideo, Goto
  <2> QED
    BY <1>5, <2>1 DEF Chargers
<1>9. ASSUME NEW w \in Workers, Complete(w) \/ CompleteUnknown(w)
      PROVE  /\ Chargers' = Chargers \ {w} /\ w \in Chargers
             /\ billed' = billed + 1 /\ job' = "completed" /\ UNCHANGED attempt
  <2>1. /\ slot[w] = "working" /\ \E s \in {"acking", "failing"} : slot' = [slot EXCEPT ![w] = s]
        /\ billed' = billed + 1 /\ job' = "completed" /\ UNCHANGED attempt
    BY <1>9 DEF Complete, CompleteUnknown, CompletedRows, Goto
  <2> QED
    BY <1>4, <2>1 DEF Chargers
<1>10. ASSUME NEW W \in SUBSET Workers, Crash(W)
       PROVE  Chargers' \subseteq Chargers /\ UNCHANGED <<billed, attempt, job>>
  BY <1>10 DEF Crash, jobVars, Chargers
<1> QED
  BY <1>1, <1>2, <1>3, <1>4, <1>6, <1>7, <1>8, <1>9, <1>10 DEF Next, ProcessStep, Chargers

\* What a step does to the requests that are to restart the job.
LEMMA RetriersStep ==
  ASSUME TypeOK, [Next]_vars
  PROVE  \/ Retriers' \subseteq Retriers /\ attempt' = attempt
         \/ /\ \E t \in Triggers \ Retriers : Retriers' = Retriers \cup {t}
            /\ attempt < MaxRetries /\ attempt' = attempt
         \/ /\ \E t \in Retriers : Retriers' = Retriers \ {t}
            /\ attempt' = attempt + 1
<1>1. CASE UNCHANGED vars
  BY <1>1 DEF vars, Retriers
<1>2. ASSUME NEW t \in Triggers, TriggerCreate(t) \/ TriggerAbort(t)
      PROVE  Retriers' \subseteq Retriers /\ attempt' = attempt
  BY <1>2 DEF TriggerCreate, TriggerAbort, jobVars, Retriers, TypeOK
<1>3. ASSUME NEW t \in Triggers, TriggerRead(t)
      PROVE  /\ t \notin Retriers /\ Retriers' = Retriers \cup {t}
             /\ attempt < MaxRetries /\ attempt' = attempt
  BY <1>3 DEF TriggerRead, MayRetry, jobVars, Retriers, TypeOK
<1>4. ASSUME NEW t \in Triggers, TriggerRetry(t)
      PROVE  t \in Retriers /\ Retriers' = Retriers \ {t} /\ attempt' = attempt + 1
  BY <1>4 DEF TriggerRetry, Retriers, TypeOK
<1>5. ASSUME \/ Relay \/ GiveUp \/ RelayAgain
             \/ \E m \in Msgs : AckWaitExpires(m) \/ \E w \in Workers : Deliver(w, m)
             \/ \E w \in Workers : \/ ProcessStep(w) \/ StartError(w) \/ CompleteUnknown(w)
                                   \/ FailError(w)
             \/ \E W \in SUBSET Workers : Crash(W)
      PROVE  UNCHANGED <<request, attempt>>
  BY <1>5 DEF Relay, GiveUp, RelayAgain, StoreMessage, AckWaitExpires, Deliver, ProcessStep, ClaimJob,
              ClaimRefused, ClaimVideo, PhaseFails, Complete, AckDone, FailJob, FailVideo, StartError,
              CompleteUnknown, CompletedRows, FailError, Crash, Nak, Ack, Release, Goto, jobVars, apiVars
<1> QED
  BY <1>1, <1>2, <1>3, <1>4, <1>5 DEF Next, Retriers

LEMMA NextStarts ==
  ASSUME StartsIInv, [Next]_vars, IsFiniteSet(Triggers)
  PROVE  StartsIInv'
<1> DEFINE C == Cardinality(Chargers)
           R == Cardinality(Retriers)
<1>1. TypeOK /\ TypeOK'
  BY NextType DEF StartsIInv
<1>2. /\ attempt \in Nat /\ billed \in Nat /\ attempt' \in Nat /\ billed' \in Nat
      /\ job' \in {"none", "queued", "processing", "failed", "completed"}
  BY <1>1 DEF TypeOK
<1>3. IsFiniteSet(Chargers) /\ C \in Nat
  BY FS_CardinalityType DEF StartsIInv
<1>4. /\ IsFiniteSet(Chargers')
      /\ Cardinality(Chargers') + billed' + (IF job' = "queued" THEN 1 ELSE 0)
           <= attempt' + (IF job' = "none" THEN 0 ELSE 1)
  <2>1. C + billed + (IF job = "queued" THEN 1 ELSE 0) <= attempt + (IF job = "none" THEN 0 ELSE 1)
    BY DEF StartsIInv
  <2>2. CASE /\ Chargers' \subseteq Chargers /\ UNCHANGED <<billed, attempt>>
             /\ job' = job \/ job' \notin {"none", "queued"}
    <3>1. IsFiniteSet(Chargers') /\ Cardinality(Chargers') \in Nat /\ Cardinality(Chargers') <= C
      BY <1>3, <2>2, FS_Subset, FS_CardinalityType
    <3> QED
      BY <1>2, <1>3, <2>1, <2>2, <3>1
  <2>3. CASE /\ Chargers' = Chargers /\ UNCHANGED billed /\ job' = "queued"
             /\ (job = "none" /\ attempt' = attempt) \/ attempt' = attempt + 1
    BY <1>2, <1>3, <2>1, <2>3
  <2>4. CASE /\ \E w \in Workers \ Chargers : Chargers' = Chargers \cup {w}
             /\ job = "queued" /\ job' = "processing" /\ UNCHANGED <<billed, attempt>>
    <3>1. IsFiniteSet(Chargers') /\ Cardinality(Chargers') = C + 1
      BY <1>3, <2>4, FS_AddElement
    <3> QED
      BY <1>2, <1>3, <2>1, <2>4, <3>1
  <2>5. CASE /\ \E w \in Chargers : Chargers' = Chargers \ {w}
             /\ billed' = billed + 1 /\ job' = "completed" /\ UNCHANGED attempt
    <3>1. IsFiniteSet(Chargers') /\ Cardinality(Chargers') = C - 1
      BY <1>3, <2>5, FS_RemoveElement
    <3> QED
      BY <1>2, <1>3, <2>1, <2>5, <3>1
  <2> QED
    BY <1>1, <2>2, <2>3, <2>4, <2>5, ChargersStep
<1>5. attempt' > 0 \/ Retriers' # {} =>
        Cardinality(Retriers') + attempt' < MaxRetries + Cardinality(Triggers)
  <2>1. /\ \A S \in SUBSET Triggers : IsFiniteSet(S) /\ Cardinality(S) \in Nat
                                      /\ Cardinality(S) <= Cardinality(Triggers)
        /\ Retriers \subseteq Triggers /\ Retriers' \subseteq Triggers
        /\ Cardinality(Triggers) \in Nat /\ MaxRetries \in Nat
    BY FS_Subset, FS_CardinalityType, TranscodeAssumption DEF Retriers
  <2>2. attempt > 0 \/ Retriers # {} => R + attempt < MaxRetries + Cardinality(Triggers)
    BY DEF StartsIInv
  <2>3. CASE Retriers' \subseteq Retriers /\ attempt' = attempt
    <3>1. Cardinality(Retriers') <= R
      BY <2>1, <2>3, FS_Subset
    <3> QED
      BY <1>2, <2>1, <2>2, <2>3, <3>1
  <2>4. CASE /\ \E t \in Triggers \ Retriers : Retriers' = Retriers \cup {t}
             /\ attempt < MaxRetries /\ attempt' = attempt
    BY <1>2, <2>1, <2>4
  <2>5. CASE /\ \E t \in Retriers : Retriers' = Retriers \ {t}
             /\ attempt' = attempt + 1
    <3>1. Cardinality(Retriers') = R - 1 /\ Retriers # {}
      BY <2>1, <2>5, FS_RemoveElement
    <3> QED
      BY <1>2, <2>1, <2>2, <2>5, <3>1
  <2> QED
    BY <1>1, <2>3, <2>4, <2>5, RetriersStep
<1> QED
  BY <1>1, <1>4, <1>5 DEF StartsIInv

\* The starts of the job bound what workers charge and may still charge, and requests
\* to restart it have read it below the limit.
THEOREM Starts == ASSUME IsFiniteSet(Triggers) PROVE Spec => []StartsIInv
  BY InitStarts, NextStarts, PTL DEF Spec

\* However requests overlap, the account is charged at most once for each start of the
\* job, and a job is restarted no more often than TriggerJob's limit allows, but for
\* the requests, one fewer than may run at once, that had read it before.
THEOREM OverlapIsBounded ==
  ASSUME IsFiniteSet(Triggers)
  PROVE  Spec => [](ChargedPerStart /\ RetriesAreLimited)
<1>1. StartsIInv => ChargedPerStart /\ RetriesAreLimited
  <2> SUFFICES ASSUME StartsIInv PROVE ChargedPerStart /\ RetriesAreLimited
    OBVIOUS
  <2>1. attempt \in Nat /\ billed \in Nat /\ MaxRetries \in Nat
    BY TranscodeAssumption DEF StartsIInv, TypeOK
  <2>2. Cardinality(Chargers) \in Nat
    BY FS_CardinalityType DEF StartsIInv
  <2>3. ChargedPerStart
    BY <2>1, <2>2 DEF StartsIInv, ChargedPerStart
  <2>4. IsFiniteSet(Retriers) /\ Cardinality(Retriers) \in Nat /\ Cardinality(Triggers) \in Nat
    BY FS_Subset, FS_CardinalityType DEF Retriers
  <2>5. RetriesAreLimited
    BY <2>1, <2>4 DEF StartsIInv, RetriesAreLimited
  <2> QED
    BY <2>3, <2>5
<1>2. QED
  BY <1>1, Starts, PTL

HIDE TranscodeAssumption

(***************************************************************************)
(* The upload: parts, completed lists and the objects they become.         *)
(***************************************************************************)

\* Every set of naturals that is not empty has a least member, the form of
\* induction used for the recursive function FlattenSeq.
LEMMA LeastNat ==
  ASSUME NEW T, T \subseteq Nat, T # {}
  PROVE  \E n \in T : \A m \in T : n <= m
<1>1. PICK n \in T : \A m \in T : ~(<<m, n>> \in OpToRel(<, Nat))
  BY NatLessThanWellFounded, WFMin
<1>2. \A m \in T : ~(m < n)
  BY <1>1 DEF OpToRel
<1>3. \A a, b \in Nat : ~(b < a) => a <= b
  OBVIOUS
<1> QED
  BY <1>1, <1>2, <1>3

LEMMA PartConstants ==
  /\ PartSize \in Nat \ {0} /\ DefaultCount \in Nat \ {0} /\ MaxSize \in Nat
  BY UploadAssumption

LEMMA NoneIsNoRequest == \A r \in Requests : r # None
  BY UploadAssumption

\* Multiplication in the steps the parts need.
LEMMA Multiples ==
  ASSUME NEW p \in Nat \ {0}
  PROVE  /\ \A a \in Int : a * p \in Int /\ (a + 1) * p = a * p + p /\ (a - 1) * p = a * p - p
         /\ \A a \in Nat : a * p \in Nat
         /\ \A a, b \in Int : a <= b => a * p <= b * p
         /\ 0 * p = 0
<1>1. \A a \in Int : a * p \in Int /\ (a + 1) * p = a * p + p /\ (a - 1) * p = a * p - p
  OBVIOUS
<1>2. \A a \in Nat : a * p \in Nat
  OBVIOUS
<1>3. \A a, b \in Int : a <= b => a * p <= b * p
  OBVIOUS
<1> QED
  BY <1>1, <1>2, <1>3

\* Math.ceil: the least number of parts that hold z units.
LEMMA Ceiling ==
  ASSUME NEW z \in Nat, NEW p \in Nat \ {0}
  PROVE  LET t == (z + p - 1) \div p
         IN  t \in Nat /\ z <= t * p /\ (t - 1) * p < z /\ (z > 0 => t > 0)
<1> DEFINE a == z + p - 1
           t == a \div p
<1>1. a \in Nat
  OBVIOUS
<1>2. t \in Nat /\ t * p <= a /\ a < (t + 1) * p
  <2> HIDE DEF a
  <2> QED
    BY <1>1
<1> HIDE DEF t
<1>3. (t + 1) * p = t * p + p /\ (t - 1) * p = t * p - p /\ t * p \in Nat
  BY <1>2, Multiples
<1>4. z <= t * p /\ (t - 1) * p < z
  BY <1>2, <1>3
<1>5. z > 0 => t > 0
  BY <1>2, <1>3, <1>4, Multiples
<1> QED
  BY <1>2, <1>4, <1>5 DEF t

LEMMA CeilingGrows ==
  ASSUME NEW y \in Nat, NEW z \in Nat, y <= z, NEW p \in Nat \ {0}
  PROVE  (y + p - 1) \div p <= (z + p - 1) \div p
<1> DEFINE t == (y + p - 1) \div p
           w == (z + p - 1) \div p
<1>1. t \in Nat /\ (t - 1) * p < y /\ w \in Nat /\ z <= w * p
  BY Ceiling
<1> HIDE DEF t, w
<1>2. ASSUME ~(t <= w) PROVE FALSE
  <2>1. w <= t - 1
    BY <1>1, <1>2
  <2>2. w * p <= (t - 1) * p /\ w * p \in Int /\ (t - 1) * p \in Int
    BY <1>1, <2>1, Multiples
  <2> QED
    BY <1>1, <2>2
<1> QED
  BY <1>2 DEF t, w

\* The list of parts fits the numbers, and its parts hold the file.
LEMMA ListedParts ==
  ASSUME UploadTypeOK, NEW u \in Uploads
  PROVE  /\ Listed(u) \in Nat \ {0} /\ Listed(u) <= MaxParts /\ MaxParts \in Nat
         /\ size[u] <= Listed(u) * PartSize
         /\ size[u] > 0 => (Listed(u) - 1) * PartSize < size[u]
<1>1. size[u] \in Nat /\ size[u] <= MaxSize
  BY PartConstants DEF UploadTypeOK
<1>2. /\ TotalParts(u) \in Nat /\ size[u] <= TotalParts(u) * PartSize
      /\ (TotalParts(u) - 1) * PartSize < size[u] /\ (size[u] > 0 => TotalParts(u) > 0)
  BY <1>1, PartConstants, Ceiling DEF TotalParts
<1>3. TotalParts(u) <= (MaxSize + PartSize - 1) \div PartSize
  BY <1>1, PartConstants, CeilingGrows DEF TotalParts
<1>4. (MaxSize + PartSize - 1) \div PartSize \in Nat
  BY PartConstants, Ceiling
<1>5. MaxParts \in Nat /\ TotalParts(u) <= MaxParts /\ DefaultCount <= MaxParts
  <2> DEFINE m == (MaxSize + PartSize - 1) \div PartSize
  <2>1. m \in Nat /\ TotalParts(u) <= m /\ MaxParts = m + DefaultCount
    BY <1>3, <1>4 DEF MaxParts
  <2> HIDE DEF m
  <2> QED
    BY <1>2, <2>1, PartConstants
<1>6. CASE TotalParts(u) < 1
  <2>1. size[u] = 0
    BY <1>1, <1>2, <1>6
  <2>2. 0 <= DefaultCount * PartSize
    BY PartConstants, Multiples
  <2> QED
    BY <1>5, <1>6, <2>1, <2>2, PartConstants DEF Listed
<1>7. CASE ~(TotalParts(u) < 1)
  BY <1>2, <1>5, <1>7 DEF Listed
<1> QED
  BY <1>6, <1>7

LEMMA FileType ==
  ASSUME UploadTypeOK, NEW u \in Uploads
  PROVE  File(u) \in Seq(Units) /\ Len(File(u)) = size[u] /\ size[u] \in Nat /\ size[u] <= MaxSize
  BY PartConstants DEF UploadTypeOK, File, Units

LEMMA BeforeGrows ==
  ASSUME UploadTypeOK, NEW u \in Uploads, NEW n \in Nat
  PROVE  /\ Before(u, n) \in Nat /\ Before(u, n + 1) \in Nat
         /\ Before(u, n) <= Before(u, n + 1) /\ Before(u, n + 1) <= size[u]
         /\ Before(u, n + 1) <= Before(u, n) + PartSize
         /\ (n + 1) * PartSize <= size[u] => Before(u, n + 1) = Before(u, n) + PartSize
         /\ Before(u, 0) = 0
<1> DEFINE b == n * PartSize
<1>1. b \in Nat /\ (n + 1) * PartSize = b + PartSize /\ 0 * PartSize = 0
  BY PartConstants, Multiples
<1>2. size[u] \in Nat
  BY FileType
<1> HIDE DEF b
<1>3. Before(u, n) = IF b <= size[u] THEN b ELSE size[u]
  BY DEF Before, b
<1>4. Before(u, n + 1) = IF b + PartSize <= size[u] THEN b + PartSize ELSE size[u]
  BY <1>1 DEF Before
<1>5. Before(u, 0) = 0
  BY <1>1, <1>2 DEF Before
<1> QED
  BY <1>1, <1>2, <1>3, <1>4, <1>5, PartConstants

\* The slice of a part is what lies between the parts before it and after it.
LEMMA ChunkIsSlice ==
  ASSUME UploadTypeOK, NEW u \in Uploads, NEW n \in Nat, Readable
  PROVE  Chunk(u, n + 1) = SubSeq(File(u), Before(u, n) + 1, Before(u, n + 1))
<1> DEFINE b == n * PartSize
<1>1. b \in Nat /\ (n + 1) * PartSize = b + PartSize /\ (n + 1) - 1 = n
  BY PartConstants, Multiples
<1>2. size[u] \in Nat
  BY FileType
<1>3. Chunk(u, n + 1) = SubSeq(File(u), b + 1, Before(u, n + 1))
  BY <1>1 DEF Chunk, Before
<1> HIDE DEF b
<1>4. CASE b <= size[u]
  BY <1>3, <1>4 DEF Before, b
<1>5. CASE ~(b <= size[u])
  <2>1. Before(u, n) = size[u] /\ Before(u, n + 1) = size[u]
    BY <1>1, <1>2, <1>5, PartConstants DEF Before, b
  <2>2. SubSeq(File(u), b + 1, size[u]) = <<>>
    BY <1>1, <1>2, <1>5, SubSeqEmpty
  <2>3. SubSeq(File(u), size[u] + 1, size[u]) = <<>>
    BY <1>2, SubSeqEmpty
  <2> QED
    BY <1>3, <2>1, <2>2, <2>3
<1> QED
  BY <1>4, <1>5

LEMMA ChunkType ==
  ASSUME UploadTypeOK, NEW u \in Uploads, NEW n \in Nat
  PROVE  /\ Chunk(u, n + 1) \in Seq(Units)
         /\ Len(Chunk(u, n + 1)) = IF Readable THEN Before(u, n + 1) - Before(u, n) ELSE 0
<1>1. CASE Readable
  <2> DEFINE a == Before(u, n)
             c == Before(u, n + 1)
  <2>1. a \in Nat /\ c \in Nat /\ a <= c /\ c <= size[u]
    BY BeforeGrows
  <2>2. Chunk(u, n + 1) = SubSeq(File(u), a + 1, c)
    BY <1>1, ChunkIsSlice
  <2> HIDE DEF a, c
  <2>3. \A i \in (a + 1)..c : File(u)[i] \in Units
    BY <2>1, FileType
  <2>4. SubSeq(File(u), a + 1, c) \in Seq(Units)
        /\ Len(SubSeq(File(u), a + 1, c)) = IF a + 1 <= c THEN c - (a + 1) + 1 ELSE 0
    BY <2>1, <2>3, SubSeqProperties
  <2>5. Len(Chunk(u, n + 1)) = c - a
    BY <2>1, <2>2, <2>4
  <2> QED
    BY <1>1, <2>2, <2>4, <2>5 DEF a, c
<1>2. CASE ~Readable
  BY <1>2 DEF Chunk
<1> QED
  BY <1>1, <1>2

\* What FlattenSeq's recursion says of the function it is taken from.
Flattens(s, flat) ==
  flat = [i \in 1..Len(s) |-> IF i = 1 THEN s[i] ELSE flat[i - 1] \o s[i]]

LEMMA FlattenIs ==
  ASSUME NEW s, Len(s) # 0, \E flat : Flattens(s, flat)
  PROVE  \E flat : Flattens(s, flat) /\ FlattenSeq(s) = flat[Len(s)]
<1> DEFINE f == CHOOSE flat : Flattens(s, flat)
<1>1. Flattens(s, f)
  OBVIOUS
<1>2. FlattenSeq(s) = f[Len(s)]
  BY Zenon DEF FlattenSeq, Flattens
<1> QED
  BY <1>1, <1>2

\* Joined in order, the slices of the first n parts are the file before part n + 1.
LEMMA JoinedSlices ==
  ASSUME UploadTypeOK, NEW u \in Uploads, Readable, NEW n \in Nat \ {0}
  PROVE  FlattenSeq([i \in 1..n |-> Chunk(u, i)]) = SubSeq(File(u), 1, Before(u, n))
<1> DEFINE s == [i \in 1..n |-> Chunk(u, i)]
           part(i) == SubSeq(File(u), 1, Before(u, i))
<1>1. Len(s) = n /\ \A i \in 1..n : s[i] = Chunk(u, i)
  OBVIOUS
<1>2. part(1) = Chunk(u, 1)
  <2>1. Before(u, 0) = 0 /\ 0 + 1 = 1
    BY BeforeGrows
  <2>2. Chunk(u, 0 + 1) = SubSeq(File(u), Before(u, 0) + 1, Before(u, 0 + 1))
    BY ChunkIsSlice
  <2> QED
    BY <2>1, <2>2
<1>3. ASSUME NEW i \in 1..n, i # 1 PROVE part(i) = part(i - 1) \o Chunk(u, i)
  <2> DEFINE k == i - 1
             a == Before(u, k)
             c == Before(u, i)
  <2>1. k \in Nat /\ k + 1 = i
    BY <1>3
  <2>2. a \in Nat /\ c \in Nat /\ a <= c /\ c <= size[u]
    BY <2>1, BeforeGrows
  <2>3. Chunk(u, i) = SubSeq(File(u), a + 1, c)
    BY <2>1, ChunkIsSlice
  <2> HIDE DEF a, c
  <2>4. 1 \in 1..Len(File(u)) + 1 /\ a \in 1 - 1..Len(File(u)) /\ c \in a..Len(File(u))
    BY <2>2, FileType
  <2>5. SubSeq(File(u), 1, a) \o SubSeq(File(u), a + 1, c) = SubSeq(File(u), 1, c)
    BY <2>4, FileType, ConcatAdjacentSubSeq
  <2> QED
    BY <2>3, <2>5 DEF a, c
<1> HIDE DEF s, part
<1>4. Flattens(s, [i \in 1..n |-> part(i)])
  <2> DEFINE f == [i \in 1..n |-> part(i)]
  <2>1. ASSUME NEW i \in 1..n PROVE part(i) = IF i = 1 THEN s[i] ELSE f[i - 1] \o s[i]
    BY <1>1, <1>2, <1>3
  <2> QED
    BY <1>1, <2>1 DEF Flattens
<1>5. PICK flat : Flattens(s, flat) /\ FlattenSeq(s) = flat[n]
  BY <1>1, <1>4, FlattenIs
<1> DEFINE Bad == {i \in 1..n : flat[i] # part(i)}
<1>6. ASSUME Bad # {} PROVE FALSE
  <2>0. Bad \subseteq Nat
    OBVIOUS
  <2>1. PICK i \in Bad : \A j \in Bad : i <= j
    <3> HIDE DEF Bad
    <3> QED
      BY <1>6, <2>0, LeastNat
  <2>2. flat[i] = IF i = 1 THEN s[i] ELSE flat[i - 1] \o s[i]
    BY <1>1, <1>5 DEF Flattens
  <2>3. CASE i = 1
    BY <1>1, <1>2, <2>1, <2>2, <2>3
  <2>4. CASE i # 1
    <3>1. i - 1 \in 1..n /\ i - 1 \notin Bad
      BY <2>1, <2>4
    <3>2. flat[i - 1] = part(i - 1)
      BY <3>1
    <3> QED
      BY <1>1, <1>3, <2>1, <2>2, <2>4, <3>2
  <2> QED
    BY <2>3, <2>4
<1>7. flat[n] = part(n)
  BY <1>6
<1> QED
  BY <1>5, <1>7 DEF s, part

\* What the join finds: every listed part put, in order, and stored.
LEMMA AtJoin ==
  ASSUME UploadIInv, NEW u \in Uploads, wire[u] = "join"
  PROVE  /\ UploadTypeOK
         /\ Len(done[u]) = Listed(u) /\ DOMAIN done[u] = 1..Listed(u)
         /\ \A i \in 1..Listed(u) : /\ done[u][i] = [number |-> SentNumber(i), etag |-> Chunk(u, i)]
                                    /\ done[u][i].number = SentNumber(i)
                                    /\ done[u][i].etag = Chunk(u, i)
                                    /\ stored[u][i] = Chunk(u, i)
<1>1. UploadTypeOK /\ Progress
  BY DEF UploadIInv
<1>2. done[u] \in Seq([number : Numbers \cup {0}, etag : Seq(Units)])
  BY <1>1 DEF UploadTypeOK
<1>3. Len(done[u]) \in Nat /\ DOMAIN done[u] = 1..Len(done[u])
  BY <1>2
<1>4. todo[u] = <<>> /\ Len(done[u]) + Len(todo[u]) = Listed(u)
  BY <1>1 DEF Progress
<1>5. Len(done[u]) = Listed(u)
  BY <1>3, <1>4
<1>6. \A i \in 1..Len(done[u]) : /\ done[u][i] = [number |-> SentNumber(i), etag |-> Chunk(u, i)]
                                /\ stored[u][i] = Chunk(u, i)
  BY <1>1 DEF Progress
<1>7. ASSUME NEW i \in 1..Listed(u)
      PROVE  done[u][i].number = SentNumber(i) /\ done[u][i].etag = Chunk(u, i)
  <2>1. done[u][i] = [number |-> SentNumber(i), etag |-> Chunk(u, i)]
    BY <1>5, <1>6
  <2> QED
    BY <2>1
<1> QED
  BY <1>1, <1>3, <1>5, <1>6, <1>7

\* The storage takes a list only if the SDK could read the numbers of its parts.
LEMMA JoinableIsReadable ==
  ASSUME UploadIInv, NEW u \in Uploads, wire[u] = "join", Joinable(u)
  PROVE  Readable
<1>1. /\ UploadTypeOK /\ DOMAIN done[u] = 1..Listed(u)
      /\ \A i \in 1..Listed(u) : done[u][i].number = SentNumber(i)
  BY AtJoin
<1>2. Listed(u) \in Nat \ {0}
  BY <1>1, ListedParts
<1>3. SentNumber(1) \in Numbers
  BY <1>1, <1>2 DEF Joinable
<1> QED
  BY <1>3 DEF SentNumber, Numbers

\* A list of parts that the storage takes joins to the file.
LEMMA JoinedIsFile ==
  ASSUME UploadIInv, NEW u \in Uploads, wire[u] = "join", Joinable(u)
  PROVE  FlattenSeq([i \in DOMAIN done[u] |-> done[u][i].etag]) = File(u)
<1>1. /\ UploadTypeOK /\ DOMAIN done[u] = 1..Listed(u)
      /\ \A i \in 1..Listed(u) : done[u][i].number = SentNumber(i) /\ done[u][i].etag = Chunk(u, i)
  BY AtJoin
<1>2. Listed(u) \in Nat \ {0} /\ size[u] <= Listed(u) * PartSize
  BY <1>1, ListedParts
<1>3. Readable
  BY JoinableIsReadable
<1>4. [i \in DOMAIN done[u] |-> done[u][i].etag] = [i \in 1..Listed(u) |-> Chunk(u, i)]
  BY <1>1
<1>5. Before(u, Listed(u)) = size[u]
  <2>1. Listed(u) * PartSize \in Nat /\ size[u] \in Nat
    BY <1>1, <1>2, FileType, PartConstants, Multiples
  <2> QED
    BY <1>2, <2>1 DEF Before
<1>6. SubSeq(File(u), 1, Len(File(u))) = File(u)
  <2>1. File(u) \in Seq(Units) /\ Len(File(u)) \in Nat
    BY <1>1, FileType
  <2>2. /\ SubSeq(File(u), 1, Len(File(u))) \in Seq(Units)
        /\ Len(SubSeq(File(u), 1, Len(File(u)))) = Len(File(u))
        /\ \A i \in 1..Len(File(u)) : SubSeq(File(u), 1, Len(File(u)))[i] = File(u)[i]
    BY <2>1
  <2> QED
    BY <2>1, <2>2, SeqEqual
<1>7. Len(File(u)) = size[u]
  BY <1>1, FileType
<1>8. FlattenSeq([i \in 1..Listed(u) |-> Chunk(u, i)]) = SubSeq(File(u), 1, Before(u, Listed(u)))
  BY <1>1, <1>2, <1>3, JoinedSlices
<1> QED
  BY <1>4, <1>5, <1>6, <1>7, <1>8

\* The list of an upload that has put every part of a file is one the storage takes.
LEMMA WholeListIsJoinable ==
  ASSUME UploadIInv, NEW u \in Uploads, wire[u] = "join", Readable, size[u] > 0
  PROVE  Joinable(u)
<1> DEFINE n == Listed(u)
<1>1. /\ UploadTypeOK /\ Len(done[u]) = n /\ DOMAIN done[u] = 1..n
      /\ \A i \in 1..n : /\ done[u][i].number = i
                         /\ done[u][i].etag = Chunk(u, i)
                         /\ stored[u][i] = Chunk(u, i)
  BY AtJoin DEF SentNumber
<1>2. /\ n \in Nat \ {0} /\ n <= MaxParts /\ MaxParts \in Nat
      /\ (n - 1) * PartSize < size[u] /\ size[u] \in Nat
  BY <1>1, ListedParts, FileType
<1> HIDE DEF n
<1>3. \A i \in 1..n : i \in Numbers
  BY <1>2 DEF Numbers
<1>4. ASSUME NEW i \in 1..n, i < n PROVE Len(Chunk(u, i)) >= PartSize
  <2>1. i * PartSize <= (n - 1) * PartSize /\ i * PartSize \in Nat /\ (n - 1) * PartSize \in Int
    BY <1>2, <1>4, PartConstants, Multiples
  <2>2. i * PartSize <= size[u]
    BY <1>2, <2>1
  <2> DEFINE k == i - 1
  <2>3. k \in Nat /\ k + 1 = i
    BY <1>2
  <2> HIDE DEF k
  <2>4. Before(u, k + 1) = Before(u, k) + PartSize /\ Before(u, k) \in Nat
    BY <1>1, <2>2, <2>3, BeforeGrows
  <2>5. Len(Chunk(u, k + 1)) = Before(u, k + 1) - Before(u, k)
    BY <1>1, <2>3, ChunkType
  <2> QED
    BY <2>3, <2>4, <2>5, PartConstants
<1>5. done[u] # <<>>
  BY <1>1, <1>2
<1>6. ASSUME NEW i \in 1..n
      PROVE  /\ done[u][i].number \in Numbers
             /\ stored[u][done[u][i].number] = done[u][i].etag
             /\ i < n => /\ Len(done[u][i].etag) >= PartSize
                         /\ done[u][i].number < done[u][i + 1].number
  <2>1. i < n => i + 1 \in 1..n /\ i < i + 1
    BY <1>2
  <2> QED
    BY <1>1, <1>3, <1>4, <2>1
<1> QED
  BY <1>1, <1>5, <1>6 DEF Joinable

LEMMA InitUpload == UploadInit => UploadIInv
<1> SUFFICES ASSUME UploadInit PROVE UploadIInv
  OBVIOUS
<1>1. UploadTypeOK
  BY PartConstants DEF UploadInit, UploadTypeOK
<1>2. UnderWay
  BY NoneIsNoRequest DEF UploadInit, UnderWay, Requests
<1>3. Progress
  <2>1. \A u \in Uploads : Before(u, 0) = 0
    BY <1>1, BeforeGrows
  <2> QED
    BY <2>1, NoneIsNoRequest DEF UploadInit, Progress, Requests
<1> QED
  BY <1>1, <1>2, <1>3 DEF UploadIInv

\* Progress of one upload, for its values before or after a step.
ProgressAt(u, o, w, t, d, l, s) ==
  /\ o = "none" \/ w \in {"initiate", "parts"} => d = <<>>
  /\ l = IF Readable THEN Before(u, Len(d)) ELSE 0
  /\ w \in {"put", "complete", "join"} =>
       /\ Len(d) + Len(t) = Listed(u)
       /\ \A i \in 1..Len(t) : t[i] = Len(d) + i
       /\ \A i \in 1..Len(d) : /\ d[i] = [number |-> SentNumber(i), etag |-> Chunk(u, i)]
                              /\ s[i] = Chunk(u, i)
  /\ w \in {"complete", "join"} => t = <<>>

LEMMA ProgressNow ==
  Progress <=>
    \A u \in Uploads : ProgressAt(u, outcome[u], wire[u], todo[u], done[u], loaded[u], stored[u])
  BY DEF Progress, ProgressAt

LEMMA ProgressThen ==
  ASSUME UNCHANGED world,
         \A u \in Uploads :
           ProgressAt(u, outcome'[u], wire'[u], todo'[u], done'[u], loaded'[u], stored'[u])
  PROVE  Progress'
  BY DEF Progress, ProgressAt, world, Before, Listed, TotalParts, SentNumber, Chunk, File, Readable

\* A step of one upload.
OnlyOf(u) ==
  /\ UNCHANGED <<kind, size, field>>
  /\ \A v \in Uploads : v # u =>
       /\ outcome'[v] = outcome[v] /\ wire'[v] = wire[v] /\ todo'[v] = todo[v]
       /\ done'[v] = done[v] /\ loaded'[v] = loaded[v] /\ stored'[v] = stored[v]

LEMMA ProgressOf ==
  ASSUME UploadIInv, NEW u \in Uploads, OnlyOf(u),
         ProgressAt(u, outcome'[u], wire'[u], todo'[u], done'[u], loaded'[u], stored'[u])
  PROVE  Progress'
<1>1. \A v \in Uploads : ProgressAt(v, outcome[v], wire[v], todo[v], done[v], loaded[v], stored[v])
  BY ProgressNow DEF UploadIInv
<1>2. \A v \in Uploads :
        ProgressAt(v, outcome'[v], wire'[v], todo'[v], done'[v], loaded'[v], stored'[v])
  BY <1>1 DEF OnlyOf
<1> QED
  BY <1>2, ProgressThen DEF OnlyOf, world

\* The request of u ends, or goes on without touching its parts.
LEMMA ProgressEnds ==
  ASSUME UploadIInv, NEW u \in Uploads, OnlyOf(u),
         todo'[u] = todo[u], done'[u] = done[u], loaded'[u] = loaded[u],
         outcome'[u] = "none" => outcome[u] = "none",
         wire'[u] \notin {"initiate", "parts", "put", "complete", "join"}
  PROVE  Progress'
<1>1. ProgressAt(u, outcome[u], wire[u], todo[u], done[u], loaded[u], stored[u])
  BY ProgressNow DEF UploadIInv
<1>2. ProgressAt(u, outcome'[u], wire'[u], todo'[u], done'[u], loaded'[u], stored'[u])
  BY <1>1 DEF ProgressAt
<1> QED
  BY <1>2, ProgressOf

\* What an error leaves: at most a row that the request made, or an entry in fault.
LEMMA ErrorStep ==
  ASSUME UploadIInv, NEW u \in Uploads, wire[u] # None, HandleApiError(u),
         UNCHANGED <<world, todo, done, loaded, cleanup, storage>>,
         \/ row' = row
         \/ wire[u] \in {"create", "initiate"} /\ row' = [row EXCEPT ![u] = "queued"],
         fault' \subseteq fault \cup {u}
  PROVE  UploadIInv'
<1>1. UploadTypeOK /\ UnderWay
  BY DEF UploadIInv
<1>2. /\ wire' = [wire EXCEPT ![u] = None]
      /\ outcome' = [outcome EXCEPT ![u] = IF outcome[u] = "waiting" THEN "threw" ELSE outcome[u]]
  BY DEF HandleApiError
<1>3. UploadTypeOK'
  BY <1>1, <1>2 DEF UploadTypeOK, world, storage
<1>4. UnderWay'
  BY <1>1, <1>2, NoneIsNoRequest DEF UnderWay, UploadTypeOK, world, storage, Requests
<1>5. Progress'
  <2>1. OnlyOf(u)
    BY <1>1, <1>2 DEF OnlyOf, UploadTypeOK, world, storage
  <2>2. wire'[u] = None /\ (outcome'[u] = "none" => outcome[u] = "none")
    BY <1>1, <1>2 DEF UploadTypeOK
  <2> QED
    BY <2>1, <2>2, NoneIsNoRequest, ProgressEnds DEF Requests
<1> QED
  BY <1>3, <1>4, <1>5 DEF UploadIInv

LEMMA StartStep ==
  ASSUME UploadIInv, NEW u \in Uploads, Start(u)
  PROVE  UploadIInv'
<1>1. UploadTypeOK /\ UnderWay
  BY DEF UploadIInv
<1>2. UploadTypeOK'
  BY <1>1 DEF Start, UploadTypeOK, Requests, world, server, storage
<1>3. UnderWay'
  BY <1>1, NoneIsNoRequest DEF Start, UnderWay, UploadTypeOK, world, server, storage, Requests
<1>4. Progress'
  <2>1. OnlyOf(u)
    BY <1>1 DEF Start, OnlyOf, UploadTypeOK, world, storage
  <2>2. ProgressAt(u, outcome[u], wire[u], todo[u], done[u], loaded[u], stored[u])
    BY ProgressNow DEF UploadIInv
  <2>3. /\ outcome[u] = "none" /\ wire'[u] \in {"initiate", "create"}
        /\ todo' = todo /\ done' = done /\ loaded' = loaded
    BY <1>1 DEF Start, UploadTypeOK
  <2>4. ProgressAt(u, outcome'[u], wire'[u], todo'[u], done'[u], loaded'[u], stored'[u])
    BY <2>2, <2>3 DEF ProgressAt
  <2> QED
    BY <2>1, <2>4, ProgressOf
<1> QED
  BY <1>2, <1>3, <1>4 DEF UploadIInv

LEMMA FetchStep ==
  ASSUME UploadIInv, NEW u \in Uploads, FetchFails(u) \/ RequestLost(u)
  PROVE  UploadIInv'
<1>1. UploadTypeOK /\ UnderWay
  BY DEF UploadIInv
<1>2. UploadTypeOK'
  BY <1>1 DEF FetchFails, RequestLost, UploadTypeOK, world, client, server, storage
<1>3. UnderWay'
  BY <1>1, NoneIsNoRequest
     DEF FetchFails, RequestLost, UnderWay, UploadTypeOK, world, client, server, storage, Requests
<1>4. Progress'
  <2>1. OnlyOf(u)
    BY <1>1 DEF FetchFails, RequestLost, OnlyOf, UploadTypeOK, world, client, storage
  <2>2. ProgressAt(u, outcome[u], wire[u], todo[u], done[u], loaded[u], stored[u])
    BY ProgressNow DEF UploadIInv
  <2>3. /\ outcome'[u] = "threw" /\ wire'[u] \in {wire[u], None}
        /\ UNCHANGED <<todo, done, loaded, stored>>
    BY <1>1 DEF FetchFails, RequestLost, UploadTypeOK, client, storage
  <2>4. ProgressAt(u, outcome'[u], wire'[u], todo'[u], done'[u], loaded'[u], stored'[u])
    BY <2>2, <2>3, NoneIsNoRequest DEF ProgressAt, Requests
  <2> QED
    BY <2>1, <2>4, ProgressOf
<1> QED
  BY <1>2, <1>3, <1>4 DEF UploadIInv

LEMMA InitiationStep ==
  ASSUME UploadIInv, NEW u \in Uploads, HandleUploadInitiation(u)
  PROVE  UploadIInv'
<1>1. UploadTypeOK /\ UnderWay
  BY DEF UploadIInv
<1>2. CASE HandleApiError(u)
  BY <1>2, NoneIsNoRequest, ErrorStep DEF HandleUploadInitiation, Requests, world
<1>3. CASE /\ row' = [row EXCEPT ![u] = "queued"]
           /\ Continue(u, IF kind[u] = "single" THEN "putFile" ELSE "uploadRoute")
           /\ UNCHANGED fault
  <2>1. /\ wire[u] = "create" /\ outcome' = outcome
        /\ UNCHANGED <<world, todo, done, loaded, cleanup, storage>>
    BY <1>3 DEF HandleUploadInitiation, Continue
  <2>2. PICK w \in {"putFile", "uploadRoute", None} :
          /\ wire' = [wire EXCEPT ![u] = w]
          /\ w = None <=> outcome[u] # "waiting"
          /\ w = "uploadRoute" => kind[u] # "single"
          /\ w = "putFile" => kind[u] = "single"
    BY <1>3, NoneIsNoRequest DEF Continue, Requests
  <2>3. UploadTypeOK'
    BY <1>1, <1>3, <2>1, <2>2 DEF UploadTypeOK, Requests, world, storage
  <2>4. UnderWay'
    BY <1>1, <1>3, <2>1, <2>2, NoneIsNoRequest, UploadAssumption
       DEF UnderWay, UploadTypeOK, Requests, world, storage
  <2>5. Progress'
    <3>1. OnlyOf(u) /\ wire'[u] = w
      BY <1>1, <2>1, <2>2 DEF OnlyOf, UploadTypeOK, world, storage
    <3> QED
      BY <2>1, <2>2, <3>1, NoneIsNoRequest, ProgressEnds DEF Requests
  <2> QED
    BY <2>3, <2>4, <2>5 DEF UploadIInv
<1> QED
  BY <1>2, <1>3 DEF HandleUploadInitiation

LEMMA MultipartInitiateStep ==
  ASSUME UploadIInv, NEW u \in Uploads, HandleMultipartInitiate(u)
  PROVE  UploadIInv'
<1>1. UploadTypeOK /\ UnderWay
  BY DEF UploadIInv
<1>2. CASE HandleApiError(u) /\ UNCHANGED multi
  BY <1>2, NoneIsNoRequest, ErrorStep DEF HandleMultipartInitiate, Requests, world, storage
<1>3. CASE /\ row' = [row EXCEPT ![u] = "queued"]
           /\ multi' = [multi EXCEPT ![u] = "open"]
           /\ Continue(u, "parts")
           /\ UNCHANGED fault
  <2>1. /\ wire[u] = "initiate" /\ outcome' = outcome
        /\ UNCHANGED <<world, todo, done, loaded, cleanup, stored, object>>
    BY <1>3 DEF HandleMultipartInitiate, Continue
  <2>2. PICK w \in {"parts", None} :
          wire' = [wire EXCEPT ![u] = w] /\ (w = None <=> outcome[u] # "waiting")
    BY <1>3, NoneIsNoRequest DEF Continue, Requests
  <2>3. UploadTypeOK'
    BY <1>1, <1>3, <2>1, <2>2 DEF UploadTypeOK, Requests, world
  <2>4. UnderWay'
    BY <1>1, <1>3, <2>1, <2>2, NoneIsNoRequest DEF UnderWay, UploadTypeOK, Requests, world
  <2>5. Progress'
    <3>1. OnlyOf(u) /\ wire'[u] = w
      BY <1>1, <2>1, <2>2 DEF OnlyOf, UploadTypeOK, world
    <3>2. ProgressAt(u, outcome[u], wire[u], todo[u], done[u], loaded[u], stored[u])
      BY ProgressNow DEF UploadIInv
    <3>3. ProgressAt(u, outcome'[u], wire'[u], todo'[u], done'[u], loaded'[u], stored'[u])
      BY <2>1, <2>2, <3>1, <3>2, NoneIsNoRequest DEF ProgressAt, Requests
    <3> QED
      BY <3>1, <3>3, ProgressOf
  <2> QED
    BY <2>3, <2>4, <2>5 DEF UploadIInv
<1> QED
  BY <1>2, <1>3 DEF HandleMultipartInitiate

LEMMA GetPartsStep ==
  ASSUME UploadIInv, NEW u \in Uploads, HandleMultipartGetParts(u)
  PROVE  UploadIInv'
<1>1. UploadTypeOK /\ UnderWay
  BY DEF UploadIInv
<1>2. CASE NotFound(u)
  BY <1>2, NoneIsNoRequest, ErrorStep DEF HandleMultipartGetParts, NotFound, Requests, world, server
<1>3. CASE /\ row[u] = "queued"
           /\ todo' = [todo EXCEPT ![u] = [n \in 1..Listed(u) |-> n]]
           /\ Continue(u, "put")
           /\ UNCHANGED <<world, done, loaded, server, storage, fault>>
  <2> DEFINE list == [n \in 1..Listed(u) |-> n]
  <2>1. wire[u] = "parts" /\ outcome' = outcome
    BY <1>3 DEF HandleMultipartGetParts, Continue
  <2>2. PICK w \in {"put", None} :
          wire' = [wire EXCEPT ![u] = w] /\ (w = None <=> outcome[u] # "waiting")
    BY <1>3, NoneIsNoRequest DEF Continue, Requests
  <2>3. /\ list \in Seq(Numbers) /\ Len(list) = Listed(u) /\ Listed(u) \in Nat \ {0} /\ list # <<>>
        /\ \A i \in 1..Listed(u) : list[i] = i
    BY <1>1, ListedParts DEF Numbers
  <2> HIDE DEF list
  <2>4. UploadTypeOK'
    BY <1>1, <1>3, <2>1, <2>2, <2>3 DEF UploadTypeOK, Requests, world, server, storage, list
  <2>5. todo' = [todo EXCEPT ![u] = list]
    BY <1>3 DEF list
  <2>6. UnderWay'
    BY <1>1, <1>3, <2>1, <2>2, <2>3, <2>5, NoneIsNoRequest
       DEF UnderWay, UploadTypeOK, Requests, world, server, storage
  <2>7. Progress'
    <3>1. OnlyOf(u) /\ wire'[u] = w /\ todo'[u] = list /\ done' = done /\ loaded' = loaded
      BY <1>1, <1>3, <2>1, <2>2, <2>5 DEF OnlyOf, UploadTypeOK, world, storage
    <3>2. ProgressAt(u, outcome[u], wire[u], todo[u], done[u], loaded[u], stored[u])
      BY ProgressNow DEF UploadIInv
    <3>3. done[u] = <<>> /\ Len(done[u]) = 0
      BY <2>1, <3>2 DEF ProgressAt
    <3>4. ProgressAt(u, outcome'[u], wire'[u], todo'[u], done'[u], loaded'[u], stored'[u])
      BY <2>1, <2>2, <2>3, <3>1, <3>2, <3>3, NoneIsNoRequest DEF ProgressAt, Requests
    <3> QED
      BY <3>1, <3>4, ProgressOf
  <2> QED
    BY <2>4, <2>6, <2>7 DEF UploadIInv
<1> QED
  BY <1>2, <1>3 DEF HandleMultipartGetParts

\* A part that is put is the next one of the list.
LEMMA PutPartStep ==
  ASSUME UploadIInv, NEW u \in Uploads, wire[u] = "put", PutPartTaken(u)
  PROVE  UploadIInv'
<1>1. UploadTypeOK /\ UnderWay
  BY DEF UploadIInv
<1>2. ProgressAt(u, outcome[u], wire[u], todo[u], done[u], loaded[u], stored[u])
  BY ProgressNow DEF UploadIInv
<1>3. /\ todo[u] \in Seq(Numbers) /\ todo[u] # <<>>
      /\ done[u] \in Seq([number : Numbers \cup {0}, etag : Seq(Units)])
      /\ stored[u] \in [Numbers -> Seq(Units) \cup {None}] /\ loaded[u] \in 0..MaxSize
  BY <1>1 DEF UploadTypeOK, UnderWay
<1> DEFINE k == Len(done[u])
           n == Head(todo[u])
           part == [number |-> SentNumber(n), etag |-> Chunk(u, n)]
           more == Len(todo[u])
<1>4. /\ k \in Nat /\ n = k + 1 /\ n \in Numbers /\ more \in Nat \ {0} /\ k + more = Listed(u)
      /\ Tail(todo[u]) \in Seq(Numbers) /\ Len(Tail(todo[u])) = more - 1
      /\ \A i \in 1..(more - 1) : Tail(todo[u])[i] = (k + 1) + i
  <2>1. \A i \in 1..more : todo[u][i] = k + i
    BY <1>2 DEF ProgressAt
  <2>2. n = todo[u][1] /\ n \in Numbers
    BY <1>3
  <2>3. more \in Nat \ {0} /\ k \in Nat
    BY <1>3
  <2>4. /\ Tail(todo[u]) \in Seq(Numbers) /\ Len(Tail(todo[u])) = more - 1
        /\ \A i \in 1..(more - 1) : Tail(todo[u])[i] = todo[u][i + 1]
    BY <1>3, HeadTailProperties
  <2>5. k + more = Listed(u)
    BY <1>2 DEF ProgressAt
  <2> HIDE DEF k, n, more
  <2>6. n = k + 1
    BY <2>1, <2>2, <2>3
  <2>7. \A i \in 1..(more - 1) : i + 1 \in 1..more /\ k + (i + 1) = (k + 1) + i
    BY <2>3
  <2> QED
    BY <2>1, <2>2, <2>3, <2>4, <2>5, <2>6, <2>7
<1>5. /\ Chunk(u, n) \in Seq(Units)
      /\ Len(Chunk(u, n)) = IF Readable THEN Before(u, k + 1) - Before(u, k) ELSE 0
      /\ Before(u, k) \in Nat /\ Before(u, k + 1) \in Nat /\ Before(u, k + 1) <= MaxSize
  <2>1. k \in Nat /\ n = k + 1
    BY <1>4
  <2> HIDE DEF k, n
  <2>2. /\ Chunk(u, k + 1) \in Seq(Units)
        /\ Len(Chunk(u, k + 1)) = IF Readable THEN Before(u, k + 1) - Before(u, k) ELSE 0
    BY <1>1, <2>1, ChunkType
  <2>3. /\ Before(u, k) \in Nat /\ Before(u, k + 1) \in Nat
        /\ Before(u, k + 1) <= size[u] /\ size[u] \in Nat /\ size[u] <= MaxSize
    BY <1>1, <2>1, BeforeGrows, FileType
  <2> QED
    BY <2>1, <2>2, <2>3, PartConstants
<1>6. part \in [number : Numbers \cup {0}, etag : Seq(Units)]
  BY <1>4, <1>5 DEF SentNumber
<1>7. /\ stored' = [stored EXCEPT ![u][n] = Chunk(u, n)]
      /\ multi[u] = "open" /\ outcome' = outcome
      /\ UNCHANGED <<world, server, multi, object, fault>>
  BY DEF PutPartTaken, Continue
<1>8. loaded[u] = IF Readable THEN Before(u, k) ELSE 0
  BY <1>2 DEF ProgressAt
<1>9. stored'[u] = [stored[u] EXCEPT ![n] = Chunk(u, n)]
      /\ stored'[u] \in [Numbers -> Seq(Units) \cup {None}]
  BY <1>1, <1>3, <1>4, <1>5, <1>7 DEF UploadTypeOK
<1>10. CASE outcome[u] = "waiting"
  <2> DEFINE w == IF more = 1 THEN "complete" ELSE "put"
  <2>1. /\ done' = [done EXCEPT ![u] = Append(done[u], part)]
        /\ loaded' = [loaded EXCEPT ![u] = loaded[u] + Len(Chunk(u, n))]
        /\ todo' = [todo EXCEPT ![u] = Tail(todo[u])]
        /\ wire' = [wire EXCEPT ![u] = w]
    BY <1>10 DEF PutPartTaken, Continue
  <2>2. loaded[u] + Len(Chunk(u, n)) = IF Readable THEN Before(u, k + 1) ELSE 0
    BY <1>5, <1>8
  <2>3. loaded[u] + Len(Chunk(u, n)) \in 0..MaxSize
    BY <1>5, <2>2, PartConstants
  <2>4. /\ Append(done[u], part) \in Seq([number : Numbers \cup {0}, etag : Seq(Units)])
        /\ Len(Append(done[u], part)) = k + 1
        /\ \A i \in 1..k : Append(done[u], part)[i] = done[u][i]
        /\ Append(done[u], part)[k + 1] = part
    BY <1>3, <1>6, AppendProperties
  <2>5. w \in {"put", "complete"} /\ (w = "complete" <=> Tail(todo[u]) = <<>>)
    <3>1. Tail(todo[u]) = <<>> <=> more - 1 = 0
      BY <1>4, EmptySeq
    <3>2. Tail(todo[u]) = <<>> <=> more = 1
      BY <1>4, <3>1
    <3> QED
      BY <3>2
  <2>6. \A i \in 1..(k + 1) : /\ Append(done[u], part)[i] = [number |-> SentNumber(i), etag |-> Chunk(u, i)]
                             /\ stored'[u][i] = Chunk(u, i)
    <3> TAKE i \in 1..(k + 1)
    <3>1. CASE i = k + 1
      BY <1>3, <1>4, <1>9, <2>4, <3>1
    <3>2. CASE i # k + 1
      <4>1. i \in 1..k /\ i # n
        BY <1>4, <3>2
      <4>2. done[u][i] = [number |-> SentNumber(i), etag |-> Chunk(u, i)] /\ stored[u][i] = Chunk(u, i)
        BY <1>2, <4>1 DEF ProgressAt
      <4>3. stored'[u][i] = stored[u][i]
        <5>1. i \in Numbers
          <6>1. MaxParts \in Nat /\ k + 1 \in 1..MaxParts
            BY <1>1, <1>4, ListedParts DEF Numbers
          <6>2. k \in Nat
            BY <1>4
          <6> HIDE DEF k
          <6> QED
            BY <4>1, <6>1, <6>2 DEF Numbers
        <5> QED
          BY <1>3, <1>9, <4>1, <5>1
      <4> QED
        BY <2>4, <4>1, <4>2, <4>3
    <3> QED
      BY <3>1, <3>2
  <2> HIDE DEF k, n, part, more, w
  <2>7. UploadTypeOK'
    BY <1>1, <1>4, <1>7, <1>9, <2>1, <2>3, <2>4, <2>5 DEF UploadTypeOK, Requests, world, server
  <2>8. UnderWay'
    BY <1>1, <1>7, <1>10, <2>1, <2>5, NoneIsNoRequest DEF UnderWay, UploadTypeOK, Requests, world, server
  <2>9. Progress'
    <3>1. /\ OnlyOf(u) /\ wire'[u] = w /\ todo'[u] = Tail(todo[u]) /\ done'[u] = Append(done[u], part)
          /\ loaded'[u] = loaded[u] + Len(Chunk(u, n)) /\ outcome'[u] = "waiting"
      BY <1>1, <1>7, <1>10, <2>1 DEF OnlyOf, UploadTypeOK, world
    <3>2. (k + 1) + (more - 1) = Listed(u)
      BY <1>4
    <3>3. ProgressAt(u, outcome'[u], wire'[u], todo'[u], done'[u], loaded'[u], stored'[u])
      BY <1>4, <2>2, <2>4, <2>5, <2>6, <3>1, <3>2 DEF ProgressAt
    <3> QED
      BY <3>1, <3>3, ProgressOf
  <2> QED
    BY <2>7, <2>8, <2>9 DEF UploadIInv
<1>11. CASE outcome[u] # "waiting"
  <2>1. UNCHANGED <<done, loaded, todo>> /\ wire' = [wire EXCEPT ![u] = None]
    BY <1>11 DEF PutPartTaken, Continue
  <2>2. UploadTypeOK'
    BY <1>1, <1>7, <1>9, <2>1 DEF UploadTypeOK, world, server
  <2>3. UnderWay'
    BY <1>1, <1>7, <1>11, <2>1, NoneIsNoRequest DEF UnderWay, UploadTypeOK, Requests, world, server
  <2>4. Progress'
    <3>1. OnlyOf(u) /\ wire'[u] = None
      BY <1>1, <1>7, <2>1 DEF OnlyOf, UploadTypeOK, world
    <3> QED
      BY <1>7, <2>1, <3>1, NoneIsNoRequest, ProgressEnds DEF Requests
  <2> QED
    BY <2>2, <2>3, <2>4 DEF UploadIInv
<1> QED
  BY <1>10, <1>11

LEMMA CompleteStep ==
  ASSUME UploadIInv, NEW u \in Uploads, HandleMultipartComplete(u)
  PROVE  UploadIInv'
<1>1. UploadTypeOK /\ UnderWay
  BY DEF UploadIInv
<1>2. CASE NotFound(u)
  BY <1>2, NoneIsNoRequest, ErrorStep DEF HandleMultipartComplete, NotFound, Requests, world, server
<1>3. CASE /\ wire' = [wire EXCEPT ![u] = "join"]
           /\ UNCHANGED <<world, client, server, storage, fault>>
  <2>1. wire[u] = "complete"
    BY DEF HandleMultipartComplete
  <2>2. UploadTypeOK'
    BY <1>1, <1>3 DEF UploadTypeOK, Requests, world, client, server, storage
  <2>3. UnderWay'
    BY <1>1, <1>3, <2>1, NoneIsNoRequest
       DEF UnderWay, UploadTypeOK, Requests, world, client, server, storage
  <2>4. Progress'
    <3>1. OnlyOf(u) /\ wire'[u] = "join" /\ UNCHANGED <<outcome, todo, done, loaded, stored>>
      BY <1>1, <1>3 DEF OnlyOf, UploadTypeOK, world, client, storage
    <3>2. ProgressAt(u, outcome[u], wire[u], todo[u], done[u], loaded[u], stored[u])
      BY ProgressNow DEF UploadIInv
    <3>3. ProgressAt(u, outcome'[u], wire'[u], todo'[u], done'[u], loaded'[u], stored'[u])
      BY <2>1, <3>1, <3>2 DEF ProgressAt
    <3> QED
      BY <3>1, <3>3, ProgressOf
  <2> QED
    BY <2>2, <2>3, <2>4 DEF UploadIInv
<1> QED
  BY <1>2, <1>3 DEF HandleMultipartComplete

\* The object that a join makes.
Joined(u) == [upload |-> u, content |-> FlattenSeq([i \in DOMAIN done[u] |-> done[u][i].etag])]

LEMMA JoinStep ==
  ASSUME UploadIInv, NEW u \in Uploads, CompleteMultipartUpload(u)
  PROVE  UploadIInv'
<1>1. UploadTypeOK /\ UnderWay /\ wire[u] = "join" /\ KeyOf \in [Uploads -> Keys]
  BY UploadAssumption DEF UploadIInv, CompleteMultipartUpload
<1>2. CASE JoinRefused(u)
  BY <1>1, <1>2, NoneIsNoRequest, ErrorStep DEF JoinRefused, Requests, world, server
<1>3. CASE /\ Joinable(u)
           /\ multi' = [multi EXCEPT ![u] = "completed"]
           /\ stored' = [stored EXCEPT ![u] = [n \in Numbers |-> None]]
           /\ object' = [object EXCEPT ![KeyOf[u]] = Joined(u)]
           /\ Return(u)
           /\ UNCHANGED <<world, todo, done, loaded, server, fault>>
  <2>1. Joined(u) \in [upload : Uploads, content : Seq(Units)]
    BY <1>1, <1>3, JoinedIsFile, FileType DEF Joined
  <2>2. /\ wire' = [wire EXCEPT ![u] = None]
        /\ outcome' = [outcome EXCEPT ![u] = IF outcome[u] = "waiting" THEN "returned" ELSE outcome[u]]
    BY <1>3 DEF Return
  <2>3. UploadTypeOK'
    BY <1>1, <1>3, <2>1, <2>2 DEF UploadTypeOK, world, server
  <2>4. UnderWay'
    BY <1>1, <1>3, <2>2, NoneIsNoRequest DEF UnderWay, UploadTypeOK, Requests, world, server
  <2>5. Progress'
    <3>1. OnlyOf(u) /\ wire'[u] = None /\ (outcome'[u] = "none" => outcome[u] = "none")
      BY <1>1, <1>3, <2>2 DEF OnlyOf, UploadTypeOK, world
    <3> QED
      BY <1>3, <3>1, NoneIsNoRequest, ProgressEnds DEF Requests
  <2> QED
    BY <2>3, <2>4, <2>5 DEF UploadIInv
<1> QED
  BY <1>2, <1>3 DEF CompleteMultipartUpload, Joined

LEMMA PutFileStep ==
  ASSUME UploadIInv, NEW u \in Uploads, PutFile(u)
  PROVE  UploadIInv'
<1>1. UploadTypeOK /\ UnderWay /\ wire[u] = "putFile" /\ KeyOf \in [Uploads -> Keys]
  BY UploadAssumption DEF UploadIInv, PutFile
<1>2. CASE HandleApiError(u) /\ UNCHANGED object /\ fault' = fault \cup {u}
  BY <1>1, <1>2, NoneIsNoRequest, ErrorStep DEF PutFile, Requests, world, server, storage
<1>3. CASE /\ object' = [object EXCEPT ![KeyOf[u]] = [upload |-> u, content |-> File(u)]]
           /\ Return(u)
           /\ UNCHANGED fault
  <2>1. [upload |-> u, content |-> File(u)] \in [upload : Uploads, content : Seq(Units)]
    BY <1>1, FileType
  <2>2. /\ wire' = [wire EXCEPT ![u] = None]
        /\ outcome' = [outcome EXCEPT ![u] = IF outcome[u] = "waiting" THEN "returned" ELSE outcome[u]]
        /\ UNCHANGED <<world, todo, done, loaded, server, multi, stored>>
    BY <1>3 DEF Return, PutFile
  <2>3. UploadTypeOK'
    BY <1>1, <1>3, <2>1, <2>2 DEF UploadTypeOK, world, server
  <2>4. UnderWay'
    BY <1>1, <1>3, <2>2, NoneIsNoRequest DEF UnderWay, UploadTypeOK, Requests, world, server
  <2>5. Progress'
    <3>1. OnlyOf(u) /\ wire'[u] = None /\ (outcome'[u] = "none" => outcome[u] = "none")
      BY <1>1, <2>2 DEF OnlyOf, UploadTypeOK, world
    <3> QED
      BY <2>2, <3>1, NoneIsNoRequest, ProgressEnds DEF Requests
  <2> QED
    BY <2>3, <2>4, <2>5 DEF UploadIInv
<1> QED
  BY <1>2, <1>3 DEF PutFile

LEMMA DeletionStep ==
  ASSUME UploadIInv, NEW u \in Uploads, HandleDeleteVideo(u) \/ Cleanup(u)
  PROVE  UploadIInv'
<1>1. UploadTypeOK /\ UnderWay /\ KeyOf \in [Uploads -> Keys]
  BY UploadAssumption DEF UploadIInv
<1>2. UploadTypeOK'
  BY <1>1 DEF HandleDeleteVideo, Cleanup, UploadTypeOK, world, client, storage
<1>3. UnderWay'
  <2>1. CASE HandleDeleteVideo(u)
    <3>1. /\ row[u] = "queued" /\ row' = [row EXCEPT ![u] = "deleted"] /\ cleanup' = cleanup \cup {u}
          /\ UNCHANGED <<kind, wire, outcome, todo, multi>>
      BY <2>1 DEF HandleDeleteVideo, world, client, storage
    <3>2. row \in [Uploads -> {"none", "queued", "deleted"}]
      BY <1>1 DEF UploadTypeOK
    <3> QED
      BY <1>1, <3>1, <3>2 DEF UnderWay
  <2>2. CASE Cleanup(u)
    BY <1>1, <2>2 DEF Cleanup, UnderWay, world, client
  <2> QED
    BY <2>1, <2>2
<1>4. Progress'
  <2>1. UNCHANGED <<world, outcome, wire, todo, done, loaded, stored>>
    BY DEF HandleDeleteVideo, Cleanup, client, storage
  <2>2. \A v \in Uploads : ProgressAt(v, outcome[v], wire[v], todo[v], done[v], loaded[v], stored[v])
    BY ProgressNow DEF UploadIInv
  <2> QED
    BY <2>1, <2>2, ProgressThen
<1> QED
  BY <1>2, <1>3, <1>4 DEF UploadIInv

LEMMA NextUpload == UploadIInv /\ [UploadNext]_uploadVars => UploadIInv'
<1> SUFFICES ASSUME UploadIInv, [UploadNext]_uploadVars PROVE UploadIInv'
  OBVIOUS
<1>1. CASE UNCHANGED uploadVars
  <2>1. UNCHANGED <<world, outcome, wire, todo, done, loaded, stored, row, multi, object, cleanup, fault>>
    BY <1>1 DEF uploadVars, client, server, storage
  <2>2. UploadTypeOK' /\ UnderWay'
    BY <2>1 DEF UploadIInv, UploadTypeOK, UnderWay, world
  <2>3. \A v \in Uploads : ProgressAt(v, outcome[v], wire[v], todo[v], done[v], loaded[v], stored[v])
    BY ProgressNow DEF UploadIInv
  <2>4. Progress'
    BY <2>1, <2>3, ProgressThen
  <2> QED
    BY <2>2, <2>4 DEF UploadIInv
<1>2. ASSUME NEW u \in Uploads, Handle(u) PROVE UploadIInv'
  <2>1. CASE PutPart(u)
    <3>1. CASE PutPartRefused(u)
      BY <2>1, <3>1, NoneIsNoRequest, ErrorStep DEF PutPart, PutPartRefused, Requests, world, server
    <3> QED
      BY <2>1, <3>1, PutPartStep DEF PutPart
  <2>2. CASE UploadRoute(u)
    BY <2>2, NoneIsNoRequest, ErrorStep DEF UploadRoute, Requests, world, server
  <2> QED
    BY <1>2, <2>1, <2>2, InitiationStep, MultipartInitiateStep, GetPartsStep, CompleteStep, JoinStep,
       PutFileStep DEF Handle
<1> QED
  BY <1>1, <1>2, StartStep, FetchStep, DeletionStep DEF UploadNext

\* Requests under way agree with rows, multipart uploads and stored parts, and the
\* list of completed parts is the parts of the file, in order.
THEOREM UploadInductive == UploadSpec => []UploadIInv
  BY InitUpload, NextUpload, PTL DEF UploadSpec

LEMMA NextWhole ==
  ASSUME UploadIInv, ObjectIsWhole, [UploadNext]_uploadVars
  PROVE  ObjectIsWhole'
<1>1. UploadTypeOK /\ KeyOf \in [Uploads -> Keys]
  BY UploadAssumption DEF UploadIInv
<1>2. size' = size
  BY DEF UploadNext, Handle, Start, FetchFails, RequestLost, HandleUploadInitiation,
         HandleMultipartInitiate, HandleMultipartGetParts, NotFound, PutPart, PutPartRefused,
         PutPartTaken, HandleMultipartComplete, CompleteMultipartUpload, JoinRefused, PutFile,
         UploadRoute, HandleDeleteVideo, Cleanup, uploadVars, world
<1>3. \A u : File(u)' = File(u)
  BY <1>2 DEF File
<1>4. \/ object' = object
      \/ \E u \in Uploads :
           \/ wire[u] = "join" /\ Joinable(u) /\ object' = [object EXCEPT ![KeyOf[u]] = Joined(u)]
           \/ object' = [object EXCEPT ![KeyOf[u]] = [upload |-> u, content |-> File(u)]]
           \/ object' = [object EXCEPT ![KeyOf[u]] = None]
  BY DEF UploadNext, Handle, Start, FetchFails, RequestLost, HandleUploadInitiation,
         HandleMultipartInitiate, HandleMultipartGetParts, NotFound, PutPart, PutPartRefused,
         PutPartTaken, HandleMultipartComplete, CompleteMultipartUpload, JoinRefused, PutFile,
         UploadRoute, HandleDeleteVideo, Cleanup, uploadVars, storage, Joined
<1>5. \A u \in Uploads : wire[u] = "join" /\ Joinable(u) => Joined(u) = [upload |-> u, content |-> File(u)]
  BY JoinedIsFile DEF Joined
<1>6. \/ object' = object
      \/ \E u \in Uploads : \E o \in {None, [upload |-> u, content |-> File(u)]} :
           object' = [object EXCEPT ![KeyOf[u]] = o]
  BY <1>4, <1>5
<1>7. CASE object' = object
  BY <1>3, <1>7 DEF ObjectIsWhole, File, Joined
<1>8. ASSUME NEW u \in Uploads, NEW o \in {None, [upload |-> u, content |-> File(u)]},
             object' = [object EXCEPT ![KeyOf[u]] = o]
      PROVE  ObjectIsWhole'
  <2> SUFFICES ASSUME NEW k \in Keys, object'[k] # None
               PROVE  object'[k].content = [i \in 1..size[object'[k].upload] |-> i]
    BY <1>2 DEF ObjectIsWhole, File
  <2>1. CASE k = KeyOf[u]
    <3>1. object'[k] = [upload |-> u, content |-> File(u)]
      BY <1>1, <1>8, <2>1 DEF UploadTypeOK
    <3>2. object'[k].upload = u /\ object'[k].content = File(u)
      BY <3>1
    <3> QED
      BY <3>2 DEF File
  <2>2. CASE k # KeyOf[u]
    <3>1. object'[k] = object[k]
      BY <1>1, <1>8, <2>2 DEF UploadTypeOK
    <3> QED
      BY <3>1 DEF ObjectIsWhole, File
  <2> QED
    BY <2>1, <2>2
<1> QED
  BY <1>6, <1>7, <1>8

\* Whatever is lost, refused, retried or deleted, an object is one whole file.
THEOREM ObjectsAreWhole == UploadSpec => []ObjectIsWhole
<1>1. UploadInit => ObjectIsWhole
  BY DEF UploadInit, ObjectIsWhole
<1>2. UploadIInv /\ ObjectIsWhole /\ [UploadNext]_uploadVars => ObjectIsWhole'
  BY NextWhole
<1> QED
  BY <1>1, <1>2, UploadInductive, PTL DEF UploadSpec

\* What a step must keep, and what a return needs.
LEMMA ReturnedKept ==
  ASSUME UploadTypeOK, ReturnedWasStored, kind' = kind,
         \A v \in Uploads : multi[v] = "completed" => multi'[v] = "completed",
         \A v \in Uploads : row[v] = "deleted" => row'[v] = "deleted",
         \A k \in Keys : object[k] # None =>
           object'[k] # None \/ \E v \in Uploads : KeyOf[v] = k /\ row'[v] = "deleted",
         \A v \in Uploads : outcome'[v] = "returned" /\ outcome[v] # "returned" =>
           (kind[v] = "multipart" => multi'[v] = "completed") /\ object'[KeyOf[v]] # None
  PROVE  ReturnedWasStored'
<1> SUFFICES ASSUME NEW u \in Uploads, outcome'[u] = "returned", outcome[u] = "returned"
             PROVE  /\ kind[u] = "multipart" => multi'[u] = "completed"
                    /\ \/ object'[KeyOf[u]] # None
                       \/ \E v \in Uploads : KeyOf[v] = KeyOf[u] /\ row'[v] = "deleted"
  BY DEF ReturnedWasStored
<1>1. KeyOf[u] \in Keys
  BY UploadAssumption
<1> QED
  BY <1>1 DEF ReturnedWasStored

LEMMA NextReturned ==
  ASSUME UploadIInv, ReturnedWasStored, [UploadNext]_uploadVars
  PROVE  ReturnedWasStored'
<1>1. UploadTypeOK /\ UnderWay /\ KeyOf \in [Uploads -> Keys]
  BY UploadAssumption DEF UploadIInv
<1>2. CASE UNCHANGED uploadVars
  BY <1>2 DEF uploadVars, world, client, server, storage, ReturnedWasStored
<1>3. ASSUME NEW u \in Uploads, Start(u) \/ FetchFails(u) \/ RequestLost(u)
      PROVE  ReturnedWasStored'
  <2>1. UNCHANGED <<kind, multi, row, object>>
    BY <1>3 DEF Start, FetchFails, RequestLost, world, server, storage
  <2>2. \A v \in Uploads : outcome'[v] = "returned" => outcome[v] = "returned"
    BY <1>1, <1>3 DEF Start, FetchFails, RequestLost, UploadTypeOK, client
  <2> QED
    BY <1>1, <2>1, <2>2, ReturnedKept
<1>4. ASSUME NEW u \in Uploads, HandleUploadInitiation(u) \/ HandleMultipartInitiate(u)
      PROVE  ReturnedWasStored'
  <2>1. row[u] = "none" /\ row' \in {row, [row EXCEPT ![u] = "queued"]} /\ UNCHANGED <<kind, object>>
    BY <1>1, <1>4 DEF HandleUploadInitiation, HandleMultipartInitiate, UnderWay, world, storage
  <2>2. \A v \in Uploads : row[v] = "deleted" => row'[v] = "deleted"
    BY <1>1, <2>1 DEF UploadTypeOK
  <2>3. \A v \in Uploads : v # u => multi'[v] = multi[v] /\ outcome'[v] = outcome[v]
    BY <1>1, <1>4
       DEF HandleUploadInitiation, HandleMultipartInitiate, Continue, HandleApiError, UploadTypeOK, storage
  <2>4. outcome[u] # "returned" /\ outcome'[u] # "returned"
    BY <1>1, <1>4, NoneIsNoRequest
       DEF HandleUploadInitiation, HandleMultipartInitiate, Continue, HandleApiError, UploadTypeOK,
           UnderWay, Requests
  <2> QED
    BY <1>1, <2>1, <2>2, <2>3, <2>4 DEF ReturnedWasStored
<1>5. ASSUME NEW u \in Uploads,
             \/ HandleMultipartGetParts(u) \/ PutPart(u) \/ HandleMultipartComplete(u) \/ UploadRoute(u)
      PROVE  ReturnedWasStored'
  <2>1. UNCHANGED <<kind, multi, row, object>>
    BY <1>5
       DEF HandleMultipartGetParts, NotFound, PutPart, PutPartRefused, PutPartTaken,
           HandleMultipartComplete, UploadRoute, world, server, storage
  <2>2. \A v \in Uploads : outcome'[v] = "returned" => outcome[v] = "returned"
    BY <1>1, <1>5
       DEF HandleMultipartGetParts, NotFound, PutPart, PutPartRefused, PutPartTaken, Continue,
           HandleApiError, HandleMultipartComplete, UploadRoute, UploadTypeOK, client
  <2> QED
    BY <1>1, <2>1, <2>2, ReturnedKept
<1>6. ASSUME NEW u \in Uploads, CompleteMultipartUpload(u) \/ PutFile(u)
      PROVE  ReturnedWasStored'
  <2>1. UNCHANGED <<kind, row>>
    BY <1>6 DEF CompleteMultipartUpload, JoinRefused, PutFile, world, server
  <2>2. CASE HandleApiError(u) /\ UNCHANGED <<multi, object>>
    <3>1. \A v \in Uploads : outcome'[v] = "returned" => outcome[v] = "returned"
      BY <1>1, <2>2 DEF HandleApiError, UploadTypeOK
    <3> QED
      BY <1>1, <2>1, <2>2, <3>1, ReturnedKept
  <2>3. ASSUME NEW o \in [upload : Uploads, content : Seq(Units)],
               object' = [object EXCEPT ![KeyOf[u]] = o], Return(u),
               \/ multi' = [multi EXCEPT ![u] = "completed"]
               \/ kind[u] # "multipart" /\ UNCHANGED multi
        PROVE  ReturnedWasStored'
    <3>1. o # None
      BY UploadAssumption DEF Units
    <3>2. \A k \in Keys : object[k] # None => object'[k] # None
      BY <1>1, <2>3, <3>1 DEF UploadTypeOK
    <3>3. object'[KeyOf[u]] # None
      BY <1>1, <2>3, <3>1 DEF UploadTypeOK
    <3>4. \A v \in Uploads : multi[v] = "completed" => multi'[v] = "completed"
      BY <1>1, <2>3 DEF UploadTypeOK
    <3>5. kind[u] = "multipart" => multi'[u] = "completed"
      BY <1>1, <2>3 DEF UploadTypeOK
    <3>6. \A v \in Uploads : v # u => outcome'[v] = outcome[v]
      BY <1>1, <2>3 DEF Return, UploadTypeOK
    <3> QED
      BY <1>1, <2>1, <3>2, <3>3, <3>4, <3>5, <3>6, ReturnedKept
  <2>4. CASE PutFile(u)
    <3>1. [upload |-> u, content |-> File(u)] \in [upload : Uploads, content : Seq(Units)]
      BY <1>1, FileType
    <3>2. kind[u] # "multipart" /\ UNCHANGED multi
      BY <1>1, <2>4 DEF PutFile, UnderWay
    <3> QED
      BY <2>2, <2>3, <2>4, <3>1, <3>2 DEF PutFile
  <2>5. CASE CompleteMultipartUpload(u)
    <3>1. CASE JoinRefused(u)
      BY <2>2, <3>1 DEF JoinRefused, storage
    <3>2. CASE ~JoinRefused(u)
      <4>1. /\ Joinable(u) /\ Return(u) /\ wire[u] = "join"
            /\ multi' = [multi EXCEPT ![u] = "completed"]
            /\ object' = [object EXCEPT ![KeyOf[u]] = Joined(u)]
        BY <2>5, <3>2 DEF CompleteMultipartUpload, Joined
      <4>2. Joined(u) = [upload |-> u, content |-> File(u)]
        BY <4>1, JoinedIsFile DEF Joined
      <4>3. Joined(u) \in [upload : Uploads, content : Seq(Units)]
        BY <1>1, <4>2, FileType
      <4> QED
        BY <2>3, <4>1, <4>3
    <3> QED
      BY <3>1, <3>2
  <2> QED
    BY <1>6, <2>4, <2>5
<1>7. ASSUME NEW u \in Uploads, HandleDeleteVideo(u) \/ Cleanup(u)
      PROVE  ReturnedWasStored'
  <2>1. UNCHANGED <<kind, multi, outcome>>
    BY <1>7 DEF HandleDeleteVideo, Cleanup, world, client, storage
  <2>2. \A v \in Uploads : row[v] = "deleted" => row'[v] = "deleted"
    BY <1>1, <1>7 DEF HandleDeleteVideo, Cleanup, UploadTypeOK
  <2>3. \/ object' = object
        \/ object' = [object EXCEPT ![KeyOf[u]] = None] /\ row'[u] = "deleted"
    BY <1>1, <1>7 DEF HandleDeleteVideo, Cleanup, UnderWay, storage
  <2>4. \A k \in Keys : object[k] # None =>
          object'[k] # None \/ \E v \in Uploads : KeyOf[v] = k /\ row'[v] = "deleted"
    BY <1>1, <2>3 DEF UploadTypeOK
  <2> QED
    BY <1>1, <2>1, <2>2, <2>4, ReturnedKept
<1> QED
  BY <1>2, <1>3, <1>4, <1>5, <1>6, <1>7 DEF UploadNext, Handle

\* A key is returned for an object the storage has, and only a deletion under that
\* key takes it away.
THEOREM ReturnedIsStored == UploadSpec => []ReturnedWasStored
<1>1. UploadInit => ReturnedWasStored
  BY DEF UploadInit, ReturnedWasStored
<1>2. UploadIInv /\ ReturnedWasStored /\ [UploadNext]_uploadVars => ReturnedWasStored'
  BY NextReturned
<1> QED
  BY <1>1, <1>2, UploadInductive, PTL DEF UploadSpec

LEMMA NextFollows ==
  ASSUME UploadIInv, OutcomeFollowsField, [UploadNext]_uploadVars
  PROVE  OutcomeFollowsField'
<1>1. UploadTypeOK /\ UnderWay
  BY DEF UploadIInv
<1>2. CASE UNCHANGED uploadVars
  BY <1>2 DEF uploadVars, world, client, OutcomeFollowsField, Readable
<1>3. ASSUME NEW u \in Uploads,
             \/ Start(u) \/ FetchFails(u) \/ RequestLost(u) \/ HandleDeleteVideo(u) \/ Cleanup(u)
      PROVE  OutcomeFollowsField'
  BY <1>1, <1>3 DEF Start, FetchFails, RequestLost, HandleDeleteVideo, Cleanup, OutcomeFollowsField,
                    UploadTypeOK, Readable, world, client
<1>4. ASSUME NEW u \in Uploads, HandleUploadInitiation(u) \/ HandleMultipartInitiate(u)
      PROVE  OutcomeFollowsField'
  BY <1>1, <1>4
     DEF HandleUploadInitiation, HandleMultipartInitiate, Continue, HandleApiError, OutcomeFollowsField,
         UploadTypeOK, Readable, world
<1>5. ASSUME NEW u \in Uploads,
             HandleMultipartGetParts(u) \/ PutPart(u) \/ HandleMultipartComplete(u)
      PROVE  OutcomeFollowsField'
  BY <1>1, <1>5
     DEF HandleMultipartGetParts, NotFound, PutPart, PutPartRefused, PutPartTaken, Continue,
         HandleApiError, HandleMultipartComplete, OutcomeFollowsField, UploadTypeOK, Readable, world, client
<1>6. ASSUME NEW u \in Uploads, UploadRoute(u)
      PROVE  OutcomeFollowsField'
  BY <1>1, <1>6 DEF UploadRoute, HandleApiError, OutcomeFollowsField, UploadTypeOK, UnderWay, Readable, world
<1>7. ASSUME NEW u \in Uploads, CompleteMultipartUpload(u)
      PROVE  OutcomeFollowsField'
  <2>1. wire[u] = "join" /\ UNCHANGED <<size, kind, field>>
    BY <1>7 DEF CompleteMultipartUpload, JoinRefused, world
  <2>2. CASE Return(u) /\ fault' = fault /\ Joinable(u)
    <3>1. Readable /\ kind[u] = "multipart"
      BY <1>1, <2>1, <2>2, JoinableIsReadable DEF UnderWay
    <3> QED
      BY <1>1, <2>1, <2>2, <3>1 DEF Return, OutcomeFollowsField, UploadTypeOK, Readable
  <2>3. CASE JoinRefused(u)
    <3>1. Readable /\ size[u] > 0 => fault' = fault \cup {u}
      BY <2>1, <2>3, WholeListIsJoinable DEF JoinRefused
    <3>2. fault' = fault \/ fault' = fault \cup {u}
      BY <2>3 DEF JoinRefused
    <3>3. \A v \in Uploads : v # u => outcome'[v] = outcome[v]
      BY <1>1, <2>3 DEF JoinRefused, HandleApiError, UploadTypeOK
    <3>4. kind[u] = "multipart" /\ outcome'[u] # "returned"
      BY <1>1, <2>1, <2>3, NoneIsNoRequest
         DEF JoinRefused, HandleApiError, UnderWay, UploadTypeOK, Requests
    <3> QED
      BY <2>1, <3>1, <3>2, <3>3, <3>4 DEF OutcomeFollowsField, Readable
  <2> QED
    BY <1>7, <2>2, <2>3 DEF CompleteMultipartUpload
<1>8. ASSUME NEW u \in Uploads, PutFile(u)
      PROVE  OutcomeFollowsField'
  BY <1>1, <1>8 DEF PutFile, Return, HandleApiError, OutcomeFollowsField, UploadTypeOK, UnderWay,
                    Readable, world
<1> QED
  BY <1>2, <1>3, <1>4, <1>5, <1>6, <1>7, <1>8 DEF UploadNext, Handle

\* How an upload may end, for every size of a file and of a part: where the API names
\* the numbers of parts as the SDK reads them, only a refusal or a loss makes an upload
\* of a file throw; where it does not, as here, no multipart upload returns a key.
THEOREM OutcomeFollows == UploadSpec => []OutcomeFollowsField
<1>1. UploadInit => OutcomeFollowsField
  BY DEF UploadInit, OutcomeFollowsField
<1>2. UploadIInv /\ OutcomeFollowsField /\ [UploadNext]_uploadVars => OutcomeFollowsField'
  BY NextFollows
<1> QED
  BY <1>1, <1>2, UploadInductive, PTL DEF UploadSpec
=============================================================================
