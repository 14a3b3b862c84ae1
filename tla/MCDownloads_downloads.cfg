SPECIFICATION FairSpec
CONSTANTS
  c1 = c1
  c2 = c2
  None = None
  Comics = {c1, c2}
  Pages = 3
  Budget = 3
  Reask = FALSE
  Taps = 5
  Faults = 1
INVARIANTS
  Whole
  WithinBudget
PROPERTIES
  ShelfKept
