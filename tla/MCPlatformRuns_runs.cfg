\* Two runs of two owners with two packages and one disturbance; or, of one owner, two
\* runs with up to three disturbances of Applies or three runs with one.
SPECIFICATION Spec
CONSTANTS
  Runs = {r1, r2, r3}
  Owners = {u1, u2}
  Keys = {k1}
  Droplets = {d1, d2}
  Cli = Cli
  NULL = NULL
  MaxVersion = 3
  MaxSerial = 2
  MaxEtag = 2
  MaxDisturbances = 3
  DisturbedOps = {"apply"}
SYMMETRY Symmetry
CONSTRAINT PairOrAlone
CHECK_DEADLOCK FALSE
INVARIANTS
  SingleWriter
  PlanAppliedOnce
  SnapshotHeld
  ReconciledAtRest
  InputStillCurrent
  RevokedNeverReleased
PROPERTIES
  MigrationKeepsState
  SuccessRecordsVersion
  VersionBindsContent
  NoAccessAfterEnd
