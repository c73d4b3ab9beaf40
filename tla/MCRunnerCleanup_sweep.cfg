SPECIFICATION FairSpec
CONSTANTS
  p1 = p1  p2 = p2  a1 = a1  s1 = s1  x1 = x1  x2 = x2  x3 = x3
  api1 = api1  api2 = api2
  NULL = NULL
  Apps = {x1, x2}
  CreatedAt <- PagedCreatedAt
  PlatformJobs = {p1, p2}
  ApplicationJobs = {}
  Slots = {}
  Runner <- PagedRunner
  Owner <- PagedOwner
  Foreign = {}
  Apis = {api1}
  PerPage = 1
  Batch = 1
PROPERTIES DeletionsConfirmed RetiredAppsGo
CHECK_DEADLOCK FALSE
