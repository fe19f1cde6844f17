SPECIFICATION Spec
CONSTANTS
  Which = {w1, w2}
  Token = {t}
  Nil = nil
  Pipe = {"blobs"}
  LogIn = FALSE
  MaxOut <- TalkOut
  Api <- TalkApi
  Breakable <- BothBreak
  KeepsList = FALSE
INVARIANTS
  NotificationsInOrder
  WaitingIsUnexpected
  CloseCutsNothingOff
  SilentAfterError
CHECK_DEADLOCK FALSE
