---------------------------- MODULE EventDelivery ----------------------------
(***************************************************************************)
(* What the transactional outbox promises to the code that records an      *)
(* event (TriggerJob, Delete, completeJobWithBilling): a committed event   *)
(* is owed to the JetStream stream until it is settled, it is settled as   *)
(* published only if the stream stored it, it is given up only after       *)
(* MaxAttempts failed attempts, and a settlement is final.  The promise is *)
(* at-least-once: a stored event may be stored again at any time, so its   *)
(* copies are not counted.                                                 *)
(***************************************************************************)
EXTENDS Naturals

CONSTANTS Events,       \* the events that may be recorded
          MaxAttempts   \* failed attempts after which an event is given up

VARIABLES fate,         \* "absent", "owed", "published" or "dead_letter"
          failures,     \* failed attempts counted against the event
          stored        \* the events the stream has stored, once or more often

edVars == <<fate, failures, stored>>

EDInit ==
  /\ fate = [e \in Events |-> "absent"]
  /\ failures = [e \in Events |-> 0]
  /\ stored = {}

\* The business transaction that records the event commits.
Commit(e) ==
  /\ fate[e] = "absent"
  /\ fate' = [fate EXCEPT ![e] = "owed"]
  /\ UNCHANGED <<failures, stored>>

\* The stream stores a copy, possibly long after the event was settled.
Store(e) ==
  /\ fate[e] # "absent"
  /\ stored' = stored \cup {e}
  /\ UNCHANGED <<fate, failures>>

\* Some of the owed events that the stream has stored are settled at once.
Settle ==
  \E S \in SUBSET {e \in Events : fate[e] = "owed" /\ e \in stored} :
    /\ fate' = [e \in Events |-> IF e \in S THEN "published" ELSE fate[e]]
    /\ UNCHANGED <<failures, stored>>

\* A failed attempt is counted; the last one the event is given up with.
Fail(e) ==
  /\ fate[e] = "owed"
  /\ failures[e] < MaxAttempts
  /\ failures' = [failures EXCEPT ![e] = @ + 1]
  /\ fate' = [fate EXCEPT
                ![e] = IF failures'[e] = MaxAttempts THEN "dead_letter" ELSE @]
  /\ UNCHANGED stored

EDNext == Settle \/ \E e \in Events : Commit(e) \/ Store(e) \/ Fail(e)

EDSpec == EDInit /\ [][EDNext]_edVars
=============================================================================
