SPECIFICATION FairSpec
CONSTANTS
  c1 = c1
  c2 = c2
  c3 = c3
  l1 = l1
  l2 = l2
  w1 = w1
  w2 = w2
  Comics <- ThreeComics
  Writers = {w1, w2}
  Writes <- InBulk
  Loads = {l1, l2}
  Limit = 2
  PullMaxPages = 2
  MaxClock = 3
INVARIANT
  NothingSkipped
PROPERTIES
  DrainedIsComplete
  CatchesUp
