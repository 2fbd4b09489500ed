SPECIFICATION FairSpec
CONSTANTS
  n1 = n1
  n2 = n2
  Nodes = {n1, n2}
  HeartbeatTimeout = 2
INVARIANTS TypeOK PastRegisteredIsConfigured OnlineIsFresh SavedIsCurrent
PROPERTIES ImplementsNodeMap RunningNodeComesOnline StoppedNodeGoesOffline
