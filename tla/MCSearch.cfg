CONSTANTS
  t1 = t1
  t2 = t2
  d1 = d1
  d2 = d2
  d3 = d3
  Text = {t1, t2, short, empty}
  Empty = empty
  TooShort = {short, empty}
  Doc = {d1, d2, d3}
  Matches <- MCMatches
  MaxSearches = 3
SPECIFICATION FairSpec
INVARIANTS
  ShownBelongs
  NothingIsSaid
  WholeIndexSearched
PROPERTIES
  SearchIsAnswered
