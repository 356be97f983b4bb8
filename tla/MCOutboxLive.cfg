\* Two pods, two events, batches of one, two attempts, one fault and any number of
\* failures to mark a batch: what must eventually happen.
CONSTANTS
  NoToken = NoToken
  Relays = {r1, r2}
  NumEvents = 2
  MaxAttempts = 2
  BatchSize = 1
  Concurrency = 1
  MaxFaults = 1
SPECIFICATION FairSpec
PROPERTIES EventuallyDelivered
CHECK_DEADLOCK FALSE
