SPECIFICATION Spec
CONSTANTS
  Proc = {p1, p2}
  Key = {k1, k2, k3}
  vEmpty = vEmpty
  vOne = vOne
  vTwo = vTwo
  vThree = vThree
  vHuge = vHuge
  Value = {vEmpty, vOne, vTwo, vHuge}
  SizeOf <- MCSizes
  Elem = {e1, e2, e3}
  None = None
  MaxBytes = 3
  TTL = 1
  MaxTime = 3
SYMMETRY MCSymmetry
INVARIANTS
  TypeOK
  IndexAgrees
  BytesAccounted
  CapacityAtRest
  MutexFreed
PROPERTIES
  StoredSurvives
  EvictsLeastRecent
  ImplementsCache
