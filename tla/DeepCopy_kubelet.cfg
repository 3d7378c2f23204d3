\* One goroutine; every one of the configuration's fields in turn, and of the
\* fields of what it refers to: objects of three blocks are copied.
CONSTANTS
  Procs = {g}
  Roots <- KubeletRoot
  Values = {0}
  Width = 1
  MaxRefs = 1
  MaxBlocks = 3
  MaxHeap = 4
SPECIFICATION Spec
INVARIANTS Isolated
CHECK_DEADLOCK FALSE
