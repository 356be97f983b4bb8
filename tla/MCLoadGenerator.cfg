\* Two instances, a tier of one request and a tier of three of which one may be
\* dropped, ticks that send one and two.
CONSTANTS
  Instances = {i1, i2}
  Tiers <- MCTiers
  Duration = 1
  TicksPerSecond = 2
  MaxConcurrency = 2
  Capacity = 1
  MaxRaw = 3
SPECIFICATION FairSpec
INVARIANTS ReportAddsUp StaysBelowLimit WorkloadIsWhole
PROPERTIES DrainEnds
CHECK_DEADLOCK FALSE
