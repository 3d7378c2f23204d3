\* Three objects about two pods.
CONSTANTS
  a = a
  b = b
  c = c
  p1 = p1
  p2 = p2
  Objects <- MCObjects
  Pods <- MCPods
  Cells = {1, 2, 3, 4, 5, 6}
  UsedSchemes <- MCUsedSchemes
  Nil = Nil
  Empty = Empty
  Changed = Changed
  MaxChanged = 1
  MaxFamilies = 2
SYMMETRY Symmetry
SPECIFICATION Spec
INVARIANTS
  TypeOK
  ConvertersComplete
  InstalledPrefersV1
  SaysWhatItsOriginSaid
PROPERTIES
  ChangesStayInOneFamily
CHECK_DEADLOCK FALSE
