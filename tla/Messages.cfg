SPECIFICATION Spec
CONSTANTS
  Obj = {m1, m2}
  Null = null
  Fd = {f1, f2}
  WordSz = 8
  BlobMax = 28
  MetaMax = 20
  MaxLeaf = 3
  MaxWords = 4
  MaxSend = 2
  MaxDesc = 2
INVARIANTS
  TypeOK
  ReceivedAsSent
  FitsThePipe
  OnlyLeavesAreTooBig
  HandlesHeldOnce
SYMMETRY Symmetric
CHECK_DEADLOCK FALSE
