SPECIFICATION FairSpec
CONSTANTS
  p1 = p1
  p2 = p2
  p3 = p3
  g1 = g1
  Puts = {p1, p2, p3}
  Gets = {g1}
  Pieces = 2
INVARIANTS TypeOK ReadsAreWhole QuietIsWhole
PROPERTIES ImplementsChunkFile TornIsMended
