SPECIFICATION FairCache
CONSTANTS
  page = page
  old = old
  r1 = r1
  r2 = r2
  Idle = Idle
  Variants = {page, old}
  Hot = {page}
  Doomed = {old}
  Size <- Sizes
  MaxSize = 4
  Requests = {r1, r2}
  Cold = 2
  Events = 2
PROPERTIES
  
  Heals
