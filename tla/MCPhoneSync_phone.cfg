SPECIFICATION Spec
CONSTANTS
  c1 = c1
  c2 = c2
  p1 = p1
  p2 = p2
  l1 = l1
  l2 = l2
  k1 = k1
  k2 = k2
  NoRow = NoRow
  Free = Free
  Comics <- TwoComics
  Phones <- OnePhone
  Loads = {l1}
  Calls <- TwoCalls
  Pages = {0, 1, 2}
  Stops = {0, 1, 2}
  PageCount = 3
  Budget <- Careful
SYMMETRY Symmetry
INVARIANTS
  NothingInvented
  CursorSkipsNothing
