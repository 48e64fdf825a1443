SPECIFICATION MCSpec
CONSTANTS
  root = root
  folder = folder
  host = host
  port = port
  hostname = hostname
  default = default
  edited = edited
  NoNode = NoNode
  Malformed = Malformed
  Shipped = default
  Roots <- MCRoots
  Containers <- MCContainers
  Leaves <- MCLeaves
  Fields <- MCFields
  Inheritable <- MCInheritable
  Numeric <- MCNumeric
  Values <- MCValues
PROPERTIES UntickingRestoresLocalValue
