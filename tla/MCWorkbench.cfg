CONSTANTS
  strong = strong
  weak = weak
  image = image
  top = top
  vector = vector
  nested = nested
  group = group
  Model = {strong, weak, image, top, vector}
  Reference = {strong, weak}
  Weak = {weak}
  TargetOf <- PlainTargets
  Reorderable = {image, top}
  KeptOnTop = {top}
  Mappable = {image, top, vector}
  Chartable = {}
  Slot = {s1, s2}
SYMMETRY Symmetry
SPECIFICATION Spec
INVARIANTS
  NoDuplicates
  ShownOnce
  AddedStays
PROPERTY OrderKept
