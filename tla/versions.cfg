SPECIFICATION Spec
CONSTANTS
  r1 = r1
  r2 = r2
  r3 = r3
  r4 = r4
  r5 = r5
  Requests = {r1, r2, r3, r4, r5}
  Kinds = {"create", "meta", "rollback", "deleteVersion", "deleteFile"}
  MaxVersions = 2
  Overlap = FALSE
  Restarts = TRUE
SYMMETRY Symmetry
INVARIANTS TypeOK ListedIsSaved NumbersIncrease ListedDownloadsExactly AnsweredNumbersUnique
  AnsweredIsListed RetentionHolds CountIsLength
  NoStaleChunks ListedIsStored
PROPERTIES ImplementsVersionList
CHECK_DEADLOCK FALSE
