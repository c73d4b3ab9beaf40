SPECIFICATION Spec
CONSTANTS
  p1 = p1  p2 = p2  a1 = a1  s1 = s1  x1 = x1  x2 = x2  x3 = x3
  api1 = api1  api2 = api2
  NULL = NULL
  Apps = {x1, x2, x3}
  CreatedAt <- MixedCreatedAt
  PlatformJobs = {p2}
  ApplicationJobs = {a1}
  Slots = {s1}
  Runner <- MixedRunner
  Owner <- MixedOwner
  Foreign = {x3}
  Apis = {api1, api2}
  PerPage = 2
  Batch = 1
INVARIANTS EvidenceKept ForeignKept
PROPERTY DeletedAtRest
SYMMETRY ApiSymmetry
CHECK_DEADLOCK FALSE
