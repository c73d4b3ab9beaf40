SPECIFICATION Spec
CONSTANTS
  r1 = r1  r2 = r2  r3 = r3
  Runs = {r1, r2, r3}
  Limit = 2
  Stuck = {r1}

PROPERTY CleanedInTurn
CHECK_DEADLOCK FALSE
