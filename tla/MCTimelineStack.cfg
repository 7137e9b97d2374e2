CONSTANTS
  a = a
  b = b
  t1 = t1
  t2 = t2
  Layer = {a, b}
  Default = default
  NoLayer = none
  Time = {t1, t2}
  Start <- Starts
  MaxItems = 3
SPECIFICATION Spec
INVARIANTS
  InSync
  LayersTogether
  OwnBounds
PROPERTIES
  PickedDateIsShown
  TickAgrees
