SPECIFICATION Spec
CONSTANTS
  Ids = {i1, i2}
  Groups = {g1}
  Runtimes = {camoufox}
  Modes = {enforced}
  Threads = {t1, t2}
  MaxRestore = 1
  Absent = Absent
  NoGroup = NoGroup
  NoId = NoId
  NoMode = NoMode
SYMMETRY Symmetry
INVARIANTS
  CompletedIsKept
  InSyncUntilFailure
  GroupEmptied
PROPERTY ImplementsStores
