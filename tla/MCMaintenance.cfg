CONSTANTS
  p1 = p1
  p2 = p2
  Profiles <- MCProfiles
  Revs = {r1, r2}
  Old = {r1}
  New = {r2}
  MaxCommands = 3
  NoProfile = NoProfile
  NoFile = NoFile
  Torn = Torn
SPECIFICATION Spec
SYMMETRY Symmetry
CHECK_DEADLOCK FALSE
INVARIANTS
  SavedIsKept
  MigratedLoads
  RestoredIsArchived
PROPERTIES
  OriginalKept
