SPECIFICATION FairSpec
CONSTANTS
  gc = gc
  Profiles = {p1}
  Threads = {gc, t1}
  Collector = gc
  Endpoints = {e1, e2}
  Pools = {q1, q2}
  Sessions = {s1, s2}
  MaxPerProfile = 1
  NoEndpoint = NoEndpoint
  NoPool = NoPool
  NoSession = NoSession
  NoThread = NoThread
  NoProfile = NoProfile
PROPERTIES
  CallsReturn
  IdlePagesCollected
