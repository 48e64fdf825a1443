SPECIFICATION ViewSpec
CONSTANTS
  root = root
  folderA = folderA
  folderB = folderB
  folderC = folderC
  host = host
  NoNode = NoNode
  Roots <- MCRoots
  Containers <- MCContainers
  Leaves <- MCLeaves
SYMMETRY Interchangeable
INVARIANTS TypeOK WellLinked ClimbEnds DescendantsOnce ViewFollowsTree
PROPERTIES OneNodeMoves ImplementsForest ReloadCatchesUp
