\* Two overlapping requests, no fault.
CONSTANTS
  Triggers = {t1, t2}
  Workers = {w1, w2}
  MaxRetries = 2
  MaxDeliver = 3
  MaxMsgs = 3
  MaxFaults = 0
SPECIFICATION Spec
INVARIANTS Exclusive
CHECK_DEADLOCK FALSE
