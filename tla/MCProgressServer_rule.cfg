SPECIFICATION Spec
CONSTANTS
  c1 = c1
  k1 = k1
  k2 = k2
  NoRow = NoRow
  Comics <- OneComic
  Conns <- TwoConns
  Updates <- RuleUpdates
  Batches <- RuleBatches
  PageCounts = {2, 3}
  MaxResets = 1
SYMMETRY ConnSymmetry
INVARIANTS
  TypeOK
  PositionIsFurthest
  CountedOncePerReset
  FinishedIffRead
  PurgedStaysForgotten
