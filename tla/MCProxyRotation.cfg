SPECIFICATION Spec
CONSTANTS
  r1 = r1
  r2 = r2
  n1 = n1
  n2 = n2
  Request = {r1, r2}
  Scheduler = scheduler
  Node = {n1, n2}
  Direct = direct
  Host = {"grok.com"}
  DefaultHost = "grok.com"
  Config <- MCOnePool
  MaxChanges = 0
  MaxRefreshes = 0
  NoUrl = NoUrl
  NoClearance = NoClearance
  NoKey = NoKey
PROPERTIES FailureRotatesAway
CHECK_DEADLOCK FALSE
