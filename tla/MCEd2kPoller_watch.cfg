SPECIFICATION FairSpec
CONSTANTS
  b1 = b1
  b2 = b2
  Unknown = Unknown
  Browsers = {b1}
  Events <- AllEvents
  States <- TwoStates
  Change = "change"
  Buffer = 2
  MaxRestarts = 1
  MaxChanges = 2
INVARIANTS
  TypeOK
  QuietWhenUnwatched
  StoredFollows
  OpenStreamIsCurrent
PROPERTIES
  Sleeps
  Serves
