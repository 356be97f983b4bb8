\* Two pods, one message, two deliveries, two attempts at Stripe, one fault and any
\* number of failures to record the usage.
CONSTANTS
  NoToken = NoToken
  Pods = {p1, p2}
  NumEvents = 1
  NumCopies = 1
  MaxDeliver = 2
  MaxAttempts = 2
  BatchSize = 1
  Concurrency = 1
  MaxFaults = 1
SPECIFICATION FairSpec
INVARIANTS MeteredOnce AckedIsRecorded
PROPERTIES OutcomeIsFinal ImplementsEventDelivery UsageIsRecorded EventuallySettled
CHECK_DEADLOCK FALSE
