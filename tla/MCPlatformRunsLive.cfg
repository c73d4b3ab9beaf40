\* A plan and its Apply: every run ends and is cleaned up.
SPECIFICATION FairSpec
CONSTANTS
  Runs = {r1, r2}
  First = r1
  Second = r2
  Owners = {u1}
  Keys = {k1}
  Droplets = {d1}
  Cli = Cli
  NULL = NULL
  MaxVersion = 2
  MaxSerial = 2
  MaxEtag = 2
ACTION_CONSTRAINT OrderedStep
CHECK_DEADLOCK FALSE
PROPERTIES
  RunsEnd
  RunsCleaned
