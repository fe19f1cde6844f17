SPECIFICATION Spec
CONSTANTS
  Pipe = {"blobs", "handles"}
  MaxMsg <- ClientTalks
  MaxSeg = 2
  Builds <- AnyBuilds
  Breakable <- ClientBreaks
  MayRefuse = TRUE
  MayEnd = {"cli"}
INVARIANTS
  TypeOK
  SegmentsAddUp
  NegotiatedFirst
  NeverMisread
PROPERTIES
  ImplementsWholePipe
CHECK_DEADLOCK FALSE
