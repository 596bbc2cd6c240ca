SPECIFICATION Spec
CONSTANTS
  Clients = {engine, c1, c2}
  Engine = engine
  Profiles = {p, q}
  Pages = {t1, t2}
  Vars = {v}
  NoPage = NoPage
  NoProfile = NoProfile
  MaxTries = 2
SYMMETRY Symmetry
INVARIANTS
  RunTypeOK
  PageIsOpen
  CreatedIsReported
  FailureHasCause
