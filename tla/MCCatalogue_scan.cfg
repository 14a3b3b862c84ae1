SPECIFICATION FairSpec
CONSTANTS
  k1 = k1
  k2 = k2
  s1 = s1
  s2 = s2
  w1 = w1
  w2 = w2
  u1 = u1
  Unborn = Unborn
  Purged = Purged
  Idle = Idle
  Keys = {k1, k2}
  Ids = {1, 2}
  Scans = {s1}
  Workers = {w1, w2}
  Users = {u1}
  MaxJobs = 1
  Reuse = FALSE
  Cost <- Costs
  Events = 2
  Initial <- OneObject
INVARIANTS
  StaleIsNoticed
  ExclusionHolds
PROPERTIES
  ScanTellsTruth
  Settles
