SPECIFICATION FairSpec
CONSTANTS
  r1 = r1
  r2 = r2
  n1 = n1
  n2 = n2
  Request = {r1, r2}
  Scheduler = scheduler
  Node = {n1, n2}
  Direct = direct
  Host = {"grok.com"}
  DefaultHost = "grok.com"
  Config <- MCConfig
  MaxChanges = 2
  MaxRefreshes = 1
  NoUrl = NoUrl
  NoClearance = NoClearance
  NoKey = NoKey
INVARIANTS TypeOK WaitersHaveOwner SingleFlight
PROPERTIES WithdrawnNotServed AcquireEnds
CHECK_DEADLOCK FALSE
