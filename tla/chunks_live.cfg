SPECIFICATION FairSpec
CONSTANTS
  n1 = n1
  n2 = n2
  c1 = c1
  Nodes = {n1, n2}
  Chunks = {c1}
  Writers = {"cli", "web", "server"}
  Replicas = 2
  MaxTries = 2
  Lossy = TRUE
  NodeCrashes = TRUE
  ServerCrashes = TRUE
  NodeDeletes = TRUE
  NoNode = NoNode
INVARIANT ClientWritesAllCopies
PROPERTIES ReplicationSettles DeletionEnds ImplementsChunkPromise
