CONSTANTS
  a = a
  b = b
  ref = ref
  lost = lost
  inner = inner
  folder = folder
  mixed = mixed
  start = start
  story1 = story1
  story2 = story2
  base1 = base1
  base2 = base2
  NoModel = nomodel
  NoSource = nosource
  NoBaseMap = nobasemap
  Item = {a, b}
  Reference = {ref, lost, inner}
  Group = {folder, mixed}
  TargetOf <- References
  MembersOf <- Members
  Broken = {lost, base2}
  TimeVarying = {a}
  Source = {start, story1, story2}
  WorkbenchOf <- Workbenches
  TimelineOf <- Timelines
  BaseMap = {base1, base2}
  BaseMapOf <- BaseMaps
  DefaultBaseMap = base1
  InitSources <- Starts
  Slot = {s1, s2}
  MaxToggles = 1
  MaxStack = 2
SPECIFICATION MapFairSpec
INVARIANTS
  WholeSource
  
PROPERTY BaseMapComes
