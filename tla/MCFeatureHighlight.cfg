CONSTANTS
  Styled = {s1}
  Region = {r1, r2}
  Nothing = nothing
  MaxCalls = 3
  MaxViewers = 2
SPECIFICATION HighlightFairSpec
INVARIANTS
  SelectedHighlighted
PROPERTIES
  CallsEnd
