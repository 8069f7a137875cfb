SPECIFICATION Spec
CONSTANTS
  Thread = {t1, t2}
  x = x
  e1 = e1
  e2 = e2
  Entity = {x}
  Event = {e1, e2}
  id = id
  type = type
  v1 = v1
  v2 = v2
  w = w
  Subject <- MCSubject
  Predicate = {id, type}
  Value = {v1, v2, w}
  Shows <- MCShows
  Junk = Junk
  None = None
  MaxCall = 2
  MaxCompact = 2
  MaxFault = 2
INVARIANTS
  TypeOK
  AckedSurvive
  RecoversLive
  NoLostUpdate
  Grounded
PROPERTIES
  PastOnlyErased
SYMMETRY MCSymmetry
CHECK_DEADLOCK FALSE
