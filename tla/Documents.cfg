SPECIFICATION MCSpec
CONSTANTS
  default = default
  other = other
  defaultPassword = default
  Passwords <- MCPasswords
  root = root
  folderA = folderA
  folderB = folderB
  host = host
  ghostA = ghostA
  ghostB = ghostB
  MaxEdits = 1
  MaxFlags = 2
  MaxRows = 3
  NoNode = NoNode
  Shipped = "shipped"
  Zero = ""
  Local = "member"
  Highest = "member"
  Enumerators <- MCEnumerators
  Trues <- MCTrues
  Broken <- MCBroken
  Trimmed <- MCTrimmed
  Canonical <- MCCanonical
  NewRoot = root
  Roots <- MCRoots
  Containers <- MCContainers
  Leaves <- MCLeaves
  Fields <- MCFields
  Inheritable <- MCInheritable
  Values <- MCValues
  Ghosts <- MCGhosts
  WithoutSeparator <- MCWithoutSeparator
SYMMETRY Interchangeable
INVARIANTS CsvReadsBack CsvLoadsEveryRecord 
CHECK_DEADLOCK FALSE
