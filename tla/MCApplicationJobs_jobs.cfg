CONSTANTS
  MaxJobs = 4
  MaxDelegations = 2
  MaxUpgrades = 1
  Purposes = {"standard", "destroy"}
SPECIFICATION Spec
CONSTRAINT Histories
INVARIANTS OneWorker RevokedNeverReleased SourceHeld FailedWroteNothing
  AppliesNewestPlan PlannedAfterClearance ClearedStateIsComplete
CHECK_DEADLOCK FALSE
