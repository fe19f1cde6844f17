SPECIFICATION Spec
CONSTANTS
  Which = {w1, w2}
  Token = {t}
  Nil = nil
  Pipe = {"blobs"}
  LogIn = TRUE
  MaxOut <- LogInOut
  Api <- HastyApi
  Breakable <- ClientBreaks
  KeepsList = FALSE
INVARIANTS
  TypeOK
  LogInAgreement
  NoFalseBlame
  IdsFresh
CHECK_DEADLOCK FALSE
