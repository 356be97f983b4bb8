\* Two pods, two events, batches of two, two attempts, one fault.
CONSTANTS
  NoToken = NoToken
  Relays = {r1, r2}
  NumEvents = 2
  MaxAttempts = 2
  BatchSize = 2
  Concurrency = 1
  MaxFaults = 1
SPECIFICATION Spec
SYMMETRY Symmetry
INVARIANTS DeadLetterExactlyAtLimit
PROPERTIES OutcomeIsFinal ImplementsEventDelivery
CHECK_DEADLOCK FALSE
