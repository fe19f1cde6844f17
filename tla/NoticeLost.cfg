SPECIFICATION FairSpec
CONSTANTS
  Pipe = {"blobs"}
  MaxMsg <- ClientTalks
  MaxSeg = 1
  Builds <- SameBuilds
  Breakable <- ClientBreaks
  MayRefuse = FALSE
  MayEnd = {}
PROPERTIES
  EventuallyTold
CHECK_DEADLOCK FALSE
