\* Two goroutines that copy, change and publish an object with a map of two
\* elements, under the fairness of FairSpec.
CONSTANTS
  Procs = {g1, g2}
  Roots <- SmallRoot
  Values = {0, 1}
  Width = 2
  MaxRefs = 2
  MaxBlocks = 3
  MaxHeap = 4
SPECIFICATION FairSpec
PROPERTIES
  PublishedNeverChanges
  CopyReturns
CHECK_DEADLOCK FALSE
