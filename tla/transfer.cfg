SPECIFICATION Spec
CONSTANTS
  s1 = s1
  s2 = s2
  d1 = d1
  Sessions = {s1, s2}
  Downloads = {d1}
  Sizes = {0, 11}
  MB = 1
  ClientChunkSize = 6
  MaxVersions = 2
  MaxSaved = 3
  ClientFile = ClientFile
  NoKey = NoKey
SYMMETRY Symmetry
INVARIANTS TypeOK ListedIsWhole NothingLeftBehind DownloadIsWhole SuccessKeepsKey
 
CHECK_DEADLOCK FALSE
