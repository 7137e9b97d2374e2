CONSTANTS
  t = t
  u = u
  w = w
  p = p
  q = q
  here = here
  there = there
  Source = {p, q}
  Tile = {t, u, w}
  SourceOf <- Sources
  Key = {here, there}
  KeyOf <- Keys
  Inside = {t, u}
  Globe = TRUE
  Threshold = 1
  MaxRetriesByMap = 1
  Backoffs = 1
SPECIFICATION FairSpec
INVARIANTS
  ToldOnce
  GivesUp
  OutageHides
PROPERTIES
  ErrorsSettle
