CONSTANTS
  Call = {c1, c2}
  MaxRuns = 3
  MaxVersion = 1
  MaxForce = 1
SPECIFICATION Spec
INVARIANTS
  TargetWhenResolved
  TargetIsFurnished
CHECK_DEADLOCK FALSE
