SPECIFICATION Spec
CONSTANTS
  p1 = p1
  p2 = p2
  Profiles = {p1, p2}
  Threads = {t1, t2}
  Browsers = {b1, b2, b3}
  NoBrowser = NoBrowser
  NoThread = NoThread
  NoProfile = NoProfile
  Proxied = {p1}
  GpuFallback = {p1, p2}
  LossyClose = FALSE
INVARIANTS
  TypeOK
  OneBrowserPerProfile
  NoOrphanBrowser
  RestartsBounded
PROPERTIES
  CallsAdvance
  ImplementsSessionTable
  ImplementsOwnership
