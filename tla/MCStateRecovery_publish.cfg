CONSTANTS
  MaxRecoveries = 2
  Reviewers = {r1, r2}
  MaxSerial = 1
  MaxEdition = 1
SPECIFICATION Spec
CONSTRAINT OneAtATime
SYMMETRY ReviewerSymmetry
INVARIANTS KeysGoBeforeState CommittedIsPublished BlockedUntouched NoWriteBesideJob
PROPERTY PublishesOverReviewed
CHECK_DEADLOCK FALSE
