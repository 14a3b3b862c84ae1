SPECIFICATION Spec
CONSTANTS
  a1 = a1
  a2 = a2
  t1 = t1
  t2 = t2
  c1 = c1
  c2 = c2
  o1 = o1
  o2 = o2
  r1 = r1
  None = None
  Accounts = {a1, a2}
  Owner = a1
  Tabs <- TwoTabs
  Calls <- TwoCalls
  Ops <- TwoOps
  Checks = {r1}
  TTL = 1
  MaxClock = 2
  MaxId = 4
  Events = 3
INVARIANTS
  StaleIsBounded
  AdminRemains
  OneLivePerLogin
PROPERTY
  NobodyLoggedOut
SYMMETRY Symmetry
CHECK_DEADLOCK FALSE
