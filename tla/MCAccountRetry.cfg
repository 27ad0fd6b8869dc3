SPECIFICATION FairSpec
CONSTANTS
  t1 = t1
  t2 = t2
  r1 = r1
  r2 = r2
  Token = {t1, t2}
  Request = {r1}
  Pool = {"basic", "super"}
  Mode = {"auto", "fast"}
  Basic = "basic"
  Record <- MCActive
  Plan <- MCChatOnly
  RandomMaxRetries = 1
  QuotaMaxRetries = 1
  MaxInflight = 1
  InflightLimit = 4
  CoolingSec <- MCOneSecond
  MaxNow = 1
  MaxLeaks = 1
  NoPlan = NoPlan
  NoLease = NoLease
  Gone = Gone
INVARIANTS AttemptsDistinct
PROPERTIES EarlierPoolsFirst EveryRequestEnds
