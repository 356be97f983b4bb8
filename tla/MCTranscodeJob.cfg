\* Requests one at a time, two worker slots, one retry, two deliveries, one fault and
\* any number of refused statements and given-up events.  MaxMsgs leaves room
\* for every event and a second copy of one.
CONSTANTS
  Triggers = {t1}
  Workers = {w1, w2}
  MaxRetries = 1
  MaxDeliver = 2
  MaxMsgs = 3
  MaxFaults = 1
SPECIFICATION FairSpec
INVARIANTS OneOwner BilledOnce ReadyIsCompleted QueuedIsReachable
PROPERTIES CompletedIsFinal QueuedSettles
CHECK_DEADLOCK FALSE
