CONSTANTS
  MaxJobs = 1
  MaxDelegations = 1
  MaxUpgrades = 0
  Purposes = {"standard"}
SPECIFICATION Spec
INVARIANTS StoppedPlanCanBeCompleted
CHECK_DEADLOCK FALSE
