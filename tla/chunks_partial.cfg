SPECIFICATION Spec
CONSTANTS
  n1 = n1
  n2 = n2
  n3 = n3
  c1 = c1
  Nodes = {n1, n2, n3}
  Chunks = {c1}
  Writers = {"web"}
  Replicas = 3
  MaxTries = 2
  Lossy = TRUE
  NodeCrashes = FALSE
  ServerCrashes = FALSE
  NodeDeletes = TRUE
  NoNode = NoNode
SYMMETRY Symmetry
INVARIANT ReplicationIsComplete
\* With no crashes and every node deleted there is nothing left to do.
CHECK_DEADLOCK FALSE
