SPECIFICATION FairQueue
CONSTANTS
  c1 = c1
  c2 = c2
  c3 = c3
  Readable = {c1, c2, c3}
  MaxBatch = 2
  Purgeable = {c1}
  Online = {c1, c2}
INVARIANT
  NothingLost
PROPERTIES
  Drains
  HearsNews
