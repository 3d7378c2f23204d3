\* Three goroutines that share a message and its file's descriptor.
CONSTANTS
  Nil = Nil
  Goroutines = {g1, g2, g3}
  MessageInfo = mi
  Compressed = gz
SPECIFICATION FairSpec
INVARIANTS
  TypeOK
  ViewsServe
  DescriptorFinished
PROPERTY DescriptorReturns
