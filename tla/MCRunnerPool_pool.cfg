\* Two API processes: one warm runner, with two jobs or two overlapping containers,
\* or a pool of one that a probe uses and that is filled again.
SPECIFICATION Spec
CONSTANTS
  Slots = {s1, s2}
  PlatformJobs = {p}
  ApplicationJobs = {q}
  Probes = {b}
  Apis = {a1, a2}
  Instances = {i1, i2}
  Size = 1
  NULL = NULL
SYMMETRY Interchangeable
CONSTRAINT OneThing
INVARIANTS KeptWhileExecuting StartedIsLeased WithinSize
PROPERTY ExecutesOnce
CHECK_DEADLOCK FALSE
