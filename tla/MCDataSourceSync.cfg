CONSTANTS
  DataSource = {a, b, c}
  Leaflet = TRUE
  MaxQueue = 2
SPECIFICATION SyncFairSpec
INVARIANTS
  NoDuplicates
  Settled
PROPERTY Converges
