CONSTANTS
  Container = {c1, c2}
  Nowhere = nowhere
  View = {world, v1, v2}
  World = world
  NoView = noview
  MaxZooms = 2
  MaxTimers = 2
SPECIFICATION FairSpec
INVARIANTS
  ZoomingKnown
PROPERTIES
  ViewKept
  MapAppears
