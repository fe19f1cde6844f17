SPECIFICATION FairSpec
CONSTANTS
  User = {t1, t2}
  Untimed = {t2}
  None = none
  Api <- RequestsApi
  Input <- RequestsInput
  MaxReq = 2
  MaxSync = 3
  MaxIn = 3
  MaxEnd = 2
INVARIANTS
  TypeOK
  ErrorToldOnce
  OwnAnswer
  EndSendingCalledOnce
PROPERTIES
  WaitEnds
  ImplementsRequestReply
CHECK_DEADLOCK FALSE
