SPECIFICATION Spec
CONSTANTS
  r1 = r1
  r2 = r2
  r3 = r3
  Requests = {r1, r2, r3}
  Kinds = {"create"}
  MaxVersions = 2
  Overlap = FALSE
  Restarts = TRUE
SYMMETRY Symmetry
INVARIANT OldestIsDeleted
CHECK_DEADLOCK FALSE
