SPECIFICATION Spec
CONSTANTS
  r1 = r1
  r2 = r2
  Requests = {r1, r2}
  Kinds = {"create"}
  MaxVersions = 2
  Overlap = TRUE
  Restarts = FALSE
SYMMETRY Symmetry
INVARIANT NumbersIncrease
CHECK_DEADLOCK FALSE
