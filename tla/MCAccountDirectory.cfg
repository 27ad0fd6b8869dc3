SPECIFICATION Spec
CONSTANTS
  t1 = t1
  t2 = t2
  r1 = r1
  r2 = r2
  Token = {t1}
  Request = {r1, r2}
  Pool = {"basic", "super"}
  Mode = {"auto", "fast"}
  Basic = "basic"
  Record <- MCRecord
  Plan <- MCPlan
  RandomMaxRetries = 1
  QuotaMaxRetries = 1
  MaxInflight = 1
  InflightLimit = 4
  CoolingSec <- MCCooling
  MaxNow = 2
  MaxLeaks = 1
  NoPlan = NoPlan
  NoLease = NoLease
  Gone = Gone
SYMMETRY MCSymmetry
INVARIANTS TypeOK IndexExact InflightExact
PROPERTIES ExhaustedNotLeased RandomSpares
