SPECIFICATION FairSpec
CONSTANTS
  User = {t1}
  Untimed = {t1}
  None = none
  Api <- RequestsApi
  Input <- RequestsInput
  MaxReq = 2
  MaxSync = 1
  MaxIn = 1
  MaxEnd = 0
PROPERTY ErrorWakes
CHECK_DEADLOCK FALSE
