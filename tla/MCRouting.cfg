SPECIFICATION Spec
CONSTANTS
  Profiles = {p}
  Groups = {g}
  Proxies = {x, y}
  Threads = {c1, c2, c3}
  NoProfile = NoProfile
  NoGroup = NoGroup
  NoProxy = NoProxy
  NoPolicy = NoPolicy
  NoSession = NoSession
  NoThread = NoThread
SYMMETRY Symmetry
INVARIANTS
  OutdatedIsAnnounced
  DeletedIsClosed
PROPERTY ImplementsSessionTable
