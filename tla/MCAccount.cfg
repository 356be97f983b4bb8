\* One pod, two webhook handlers, two changes of plan and any renewals, two top-ups.
CONSTANTS
  Pods = {p1}
  Hooks = {h1, h2}
  Plans = {"free", "pro"}
  MaxReports = 2
  MaxTopUps = 2
  Opening = 1
  Null = Null
  Missed = Missed
  None = None
SPECIFICATION Spec
SYMMETRY Symmetry
CONSTRAINT OneSideInFull
INVARIANTS PlanIsReported PlanCacheIsCurrent ShownWasTrue FundsAreShown
