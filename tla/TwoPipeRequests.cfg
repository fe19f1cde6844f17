SPECIFICATION Spec
CONSTANTS
  Which = {w1}
  Token = {t}
  Nil = nil
  Pipe = {"blobs", "handles"}
  LogIn = FALSE
  MaxOut <- RequestOut
  Api <- RequestApi
  Breakable <- NoBreak
  KeepsList = FALSE
INVARIANTS
  NoFalseBlame
  ResponsesWanted
  ResponsesInOrder
  RemoteReportsTrue
PROPERTIES
  ImplementsOrderedPipe
CHECK_DEADLOCK FALSE
