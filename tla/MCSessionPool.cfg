SPECIFICATION Spec
CONSTANTS
  gc = gc
  Profiles = {p1}
  Threads = {gc, t1, t2}
  Collector = gc
  Endpoints = {e1, e2}
  Pools = {q1, q2, q3}
  Sessions = {s1, s2}
  MaxPerProfile = 1
  NoEndpoint = NoEndpoint
  NoPool = NoPool
  NoSession = NoSession
  NoThread = NoThread
  NoProfile = NoProfile
SYMMETRY Symmetry
INVARIANTS
  TypeOK
  CapHeld
  NoCircularWait
  NoLostPage
PROPERTIES
  LivePoolKept
  CallsAdvance
  ImplementsPages
