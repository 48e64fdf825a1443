SPECIFICATION InheritanceSpec
CONSTANTS
  root = root
  folderA = folderA
  folderB = folderB
  host = host
  port = port
  default = default
  edited = edited
  NoNode = NoNode
  Shipped = default
  Roots <- MCRoots
  Containers <- MCContainers
  Leaves <- MCLeaves
  Fields <- MCFields
  Inheritable <- MCFields
  Values <- MCValues
SYMMETRY Interchangeable
INVARIANTS InheritanceTypeOK EffectiveIsNearestLocal
PROPERTIES RootValuesStayAtRoot TemplateReachesDescendants
