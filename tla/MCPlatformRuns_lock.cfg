\* A cancelled plan leaves its lock behind.
SPECIFICATION Spec
CONSTANTS
  Runs = {r1, r2}
  Owners = {u1}
  Keys = {k1}
  Droplets = {d1}
  Cli = Cli
  NULL = NULL
  MaxVersion = 3
  MaxSerial = 2
  MaxEtag = 2
  MaxDisturbances = 1
  DisturbedOps = {"plan"}
CONSTRAINT FewDisturbances
CHECK_DEADLOCK FALSE
INVARIANT LockHeldByRunningExecution
