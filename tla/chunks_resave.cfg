SPECIFICATION Spec
CONSTANTS
  n1 = n1
  n2 = n2
  n3 = n3
  c1 = c1
  Nodes = {n1, n2, n3}
  Chunks = {c1}
  Writers = {"server"}
  Replicas = 3
  MaxTries = 2
  Lossy = FALSE
  NodeCrashes = FALSE
  ServerCrashes = TRUE
  NodeDeletes = TRUE
  NoNode = NoNode
SYMMETRY Symmetry
INVARIANT UploadedIsDownloadable
