SPECIFICATION FairSpec
CONSTANTS
  Which = {w1}
  Token = {t}
  Nil = nil
  Pipe = {"blobs", "handles"}
  LogIn = FALSE
  MaxOut <- LiveOut
  Api <- LiveApi
  Breakable <- ServerBreaks
  KeepsList = FALSE
PROPERTIES
  EventuallyAccepted
  EventuallyEmitted
  EventuallyInformed
CHECK_DEADLOCK FALSE
