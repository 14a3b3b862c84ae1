SPECIFICATION Spec
CONSTANTS
  c1 = c1
  c2 = c2
  None = None
  Comics = {c1, c2}
  Pages = 2
  Budget = 2
  Reask = TRUE
  Taps = 3
  Faults = 0
INVARIANTS
  Whole
