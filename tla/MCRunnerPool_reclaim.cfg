\* Every lease ends: that of one job, from either of two containers.
SPECIFICATION FairSpec
CONSTANTS
  Slots = {s1}
  PlatformJobs = {p}
  ApplicationJobs = {q}
  Probes = {}
  Apis = {a1}
  Instances = {i1, i2}
  Size = 1
  NULL = NULL
ACTION_CONSTRAINT OneJob
PROPERTY ReservationsEnd
PROPERTY RunnersReclaimed
CHECK_DEADLOCK FALSE
