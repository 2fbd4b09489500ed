SPECIFICATION Spec
CONSTANTS
  r1 = r1
  r2 = r2
  r3 = r3
  Requests = {r1, r2, r3}
  Kinds = {"create", "rollback"}
  MaxVersions = 2
  Overlap = FALSE
  Restarts = FALSE
SYMMETRY Symmetry
INVARIANT RollbackKeepsContent
CHECK_DEADLOCK FALSE
