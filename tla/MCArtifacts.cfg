SPECIFICATION Spec
CONSTANTS
  Ids = {i1, i2, i3}
  Procs = {server, stdio}
  NoId = NoId
SYMMETRY Symmetry
INVARIANTS
  AvailableUntilExpiry
  OrphansHaveCause
PROPERTY ImplementsExpiringStore
