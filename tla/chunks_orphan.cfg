SPECIFICATION Spec
CONSTANTS
  n1 = n1
  n2 = n2
  n3 = n3
  c1 = c1
  Nodes = {n1, n2, n3}
  Chunks = {c1}
  Writers = {"web"}
  Replicas = 3
  MaxTries = 2
  Lossy = FALSE
  NodeCrashes = FALSE
  ServerCrashes = FALSE
  NodeDeletes = FALSE
  NoNode = NoNode
SYMMETRY Symmetry
INVARIANT DeletionIsComplete
\* Once the chunk is deleted and its calls have ended there is nothing left to do.
CHECK_DEADLOCK FALSE
