SPECIFICATION FairSpec
CONSTANTS
  User = {t1}
  Untimed = {}
  None = none
  Api <- HandlersApi
  Input <- HandlersInput
  MaxReq = 2
  MaxSync = 1
  MaxIn = 2
  MaxEnd = 0
INVARIANTS
  HandlersInOrder
  HandlersSerial
PROPERTIES
  HandlersFire
  ErrorTold
CHECK_DEADLOCK FALSE
