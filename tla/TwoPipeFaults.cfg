SPECIFICATION Spec
CONSTANTS
  Which = {w1}
  Token = {t1, t2}
  Nil = nil
  Pipe = {"blobs", "handles"}
  LogIn = FALSE
  MaxOut <- FaultOut
  Api <- FaultApi
  Breakable <- ServerBreaks
  KeepsList = FALSE
INVARIANTS
  ErrorEmittedOnce
  ExactlyOnePlace
  NothingAcrossSessions
PROPERTIES
  HosedIsInert
SYMMETRY SameTokens
CHECK_DEADLOCK FALSE
