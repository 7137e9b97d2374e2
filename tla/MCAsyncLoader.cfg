CONSTANTS
  Call = {c1, c2}
  MaxRuns = 3
  MaxVersion = 2
  MaxForce = 1
SPECIFICATION FairSpec
INVARIANTS
  SpinnerOwned
  Memoised
PROPERTY ImplementsLoadRequest
CHECK_DEADLOCK FALSE
