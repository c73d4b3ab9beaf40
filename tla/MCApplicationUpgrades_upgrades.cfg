SPECIFICATION Spec
CONSTANTS
    MaxJobs = 4
    MaxCandidates = 3
    MaxTemplates = 3
    MaxContracts = 2
    MaxVersion = 2
CONSTRAINT Histories
INVARIANTS BoundToNewest WithdrawnIsRestored WritesApproved PlatformAlone ImpactReviewed
CHECK_DEADLOCK FALSE
