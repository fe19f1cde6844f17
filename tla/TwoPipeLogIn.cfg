SPECIFICATION Spec
CONSTANTS
  Which = {w1}
  Token = {t}
  Nil = nil
  Pipe = {"blobs", "handles"}
  LogIn = TRUE
  MaxOut <- LogInOut
  Api <- LogInApi
  Breakable <- NoBreak
  KeepsList = FALSE
INVARIANTS
  NoFalseBlame
CHECK_DEADLOCK FALSE
