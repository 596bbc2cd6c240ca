SPECIFICATION FairSpec
CONSTANTS
  p1 = p1
  p2 = p2
  Profiles = {p1, p2}
  Threads = {t1}
  Browsers = {b1, b2}
  NoBrowser = NoBrowser
  NoThread = NoThread
  NoProfile = NoProfile
  Proxied = {p1}
  GpuFallback = {p1}
  LossyClose = TRUE
INVARIANTS
  NoOrphanRelay
  PublishedIsCurrent
PROPERTY MutexReleased
