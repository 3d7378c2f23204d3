\* One goroutine; objects with nested arrays and maps of one element.
CONSTANTS
  Procs = {g}
  Roots <- NestedRoots
  Values = {0}
  Width = 1
  MaxRefs = 2
  MaxBlocks = 4
  MaxHeap = 5
SPECIFICATION Spec
INVARIANTS Isolated CopyIsEqual
CHECK_DEADLOCK FALSE
